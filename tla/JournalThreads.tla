--------------------------- MODULE JournalThreads ---------------------------
(***************************************************************************)
(* POST /api/batch and POST /api/journal/commit on the threads of the      *)
(* HTTP server, which serves every request on one of its own and takes no  *)
(* lock.  A registration checks and enters its batch, appends one record   *)
(* to the stream, to journal.jsonl and to the projection, and commits; a   *)
(* commit moves the watermark and replaces checkpoint.json by a temporary  *)
(* file whose name all threads share.  One action is one access to shared  *)
(* state.  The process may end between any two of them and resume.         *)
(*                                                                         *)
(* Journal has the same parts, one request at a time, with rollbacks.      *)
(***************************************************************************)
EXTENDS Naturals, Sequences, FiniteSets

CONSTANTS
  Threads,      \* requests that may be served at once
  Batches,      \* batch identifiers
  NoBatch,      \* what a bare commit registers
  Missing,      \* content of a file that does not exist
  Empty,        \* content of a file that was opened for writing
  Torn,         \* content left by two writers, which does not parse
  MaxRecords,   \* bound: longest stream
  MaxCrashes    \* bound: process ends

ASSUME ThreadsAssumption == IsFiniteSet(Threads)
ASSUME BatchesAssumption == NoBatch \notin Batches
ASSUME BoundsAssumption  == MaxRecords \in Nat /\ MaxCrashes \in Nat

VARIABLES
  up,           \* the process runs
  step,         \* thread -> what it does next
  batch,        \* thread -> the batch it registers
  got,          \* thread -> the number it read last from shared state
  doc,          \* thread -> the checkpoint it writes
  handle,       \* thread -> which file its open handle refers to by now
  stream,       \* RecordStream._records
  watermark,    \* Watermark._value
  registry,     \* BatchRegistry._batches
  projected,    \* StateProjection.batches
  journalFile,  \* journal.jsonl
  saved,        \* content of checkpoint.json
  tmp,          \* content of checkpoint.json.tmp
  crashes,      \* how often the process ended
  answers,      \* history variable: batch -> how often it was registered
  races         \* history variable: which kinds of requests overlapped

locals  == <<batch, got, doc, handle>>
memory  == <<stream, watermark, registry, projected>>
files   == <<journalFile, saved, tmp>>
history == <<crashes, answers, races>>
vars    == <<up, step, locals, memory, files, history>>

Document == [watermark : Nat, state : SUBSET Batches]
Nothing  == [watermark |-> 0, state |-> {}]

ASSUME FilesAssumption ==
  /\ Missing # Empty /\ Missing # Torn /\ Empty # Torn
  /\ Missing \notin Document /\ Empty \notin Document /\ Torn \notin Document

Record == [seq : Nat \ {0}, batch : Batches]

Numbering == {"assign", "number", "keep"}
Saving    == {"open", "write", "rename"}
Commits   == {"compare", "advance", "value", "snapshot"} \cup Saving
Steps     == {"idle", "line", "observe", "target"} \cup Numbering \cup Commits

Init ==
  /\ up = TRUE
  /\ step = [t \in Threads |-> "idle"]
  /\ batch = [t \in Threads |-> NoBatch]
  /\ got = [t \in Threads |-> 0]
  /\ doc = [t \in Threads |-> Nothing]
  /\ handle = [t \in Threads |-> "gone"]
  /\ stream = <<>> /\ watermark = 0 /\ registry = {} /\ projected = {}
  /\ journalFile = <<>> /\ saved = Missing /\ tmp = Missing
  /\ crashes = 0 /\ answers = [b \in Batches |-> 0] /\ races = {}

\* A thread takes its next step, and remembers a number it read.
Goes(t, from, to) == step[t] = from /\ step' = [step EXCEPT ![t] = to]
Got(t, number)    == got' = [got EXCEPT ![t] = number]

-----------------------------------------------------------------------------
(* A registration.                                                         *)

\* BatchRegistry.register: the test.
Registrable(b) == b \notin registry

\* A thread passes the test while another is between test and entry.
Check(t, b) ==
  /\ Len(stream) + Cardinality({u \in Threads : step[u] \in Numbering}) < MaxRecords
  /\ Registrable(b)
  /\ Goes(t, "idle", "assign")
  /\ batch' = [batch EXCEPT ![t] = b]
  /\ races' = IF \E u \in Threads : step[u] = "assign" /\ batch[u] = b
              THEN races \cup {"batch"} ELSE races
  /\ UNCHANGED <<up, got, doc, handle, memory, files, crashes, answers>>

Enter(t) ==
  /\ Goes(t, "assign", "number")
  /\ registry' = registry \cup {batch[t]}
  /\ UNCHANGED <<up, locals, stream, watermark, projected, files, history>>

NextNumber_offByOne == Len(stream)

NextNumber == Len(stream) + 1

\* RecordStream.append: the number, then the record.
Number(t) ==
  /\ Goes(t, "number", "keep")
  /\ Got(t, NextNumber)
  /\ UNCHANGED <<up, batch, doc, handle, memory, files, history>>

RecordOf(t) == [seq |-> got[t], batch |-> batch[t]]

Keep_observed(t) ==
  /\ Goes(t, "keep", "line")
  /\ stream' = Append(stream, RecordOf(t)) /\ projected' = projected \cup {batch[t]}
  /\ UNCHANGED <<up, locals, watermark, registry, files, history>>

\* The number stays in `got` until the line is written.
Keep(t) ==
  /\ Goes(t, "keep", "line")
  /\ stream' = Append(stream, RecordOf(t))
  /\ UNCHANGED <<up, locals, watermark, registry, projected, files, history>>

\* AtomicWriter.append_line: line and line end leave the buffer together.
WriteLine(t) ==
  /\ Goes(t, "line", "observe")
  /\ journalFile' = Append(journalFile, RecordOf(t))
  /\ Got(t, 0)
  /\ UNCHANGED <<up, batch, doc, handle, memory, saved, tmp, history>>

Observe_forgotten(t) ==
  /\ Goes(t, "observe", "target")
  /\ UNCHANGED <<up, locals, memory, files, history>>

\* Services._observe folds the record into the projection.
Observe(t) ==
  /\ Goes(t, "observe", "target")
  /\ projected' = projected \cup {batch[t]}
  /\ UNCHANGED <<up, locals, stream, watermark, registry, files, history>>

-----------------------------------------------------------------------------
(* A commit: at the end of a registration, or on its own.                  *)

BeginCommit(t) ==
  /\ Goes(t, "idle", "target")
  /\ UNCHANGED <<up, locals, memory, files, history>>

\* RecordStream.head
StreamHead == Len(stream)

\* A bare commit may name any record up to the head (one above it is refused
\* and changes nothing); a registration commits the head of the stream as it is
\* now.
Named(t) == IF batch[t] = NoBatch THEN 0 .. StreamHead ELSE {StreamHead}

Target(t) ==
  /\ Goes(t, "target", "compare")
  /\ \E target \in Named(t) : Got(t, target)
  /\ races' = IF \E u \in Threads : step[u] \in Commits
              THEN races \cup {"commit"} ELSE races
  /\ UNCHANGED <<up, batch, doc, handle, memory, files, crashes, answers>>

\* A request that raises answers with an error; what it did stays.
Ends(t) ==
  /\ step' = [step EXCEPT ![t] = "idle"]
  /\ batch' = [batch EXCEPT ![t] = NoBatch]
  /\ got' = [got EXCEPT ![t] = 0]
  /\ doc' = [doc EXCEPT ![t] = Nothing]
  /\ handle' = [handle EXCEPT ![t] = "gone"]

\* Watermark.advance_to: the comparison, which may raise, ...
Compare(t) ==
  /\ got[t] >= watermark
  /\ Goes(t, "compare", "advance")
  /\ UNCHANGED <<up, locals, memory, files, history>>

RegressionError(t) ==
  /\ step[t] = "compare" /\ got[t] < watermark
  /\ Ends(t)
  /\ UNCHANGED <<up, memory, files, history>>

\* ... the assignment, ...
Advance(t) ==
  /\ Goes(t, "advance", "value")
  /\ watermark' = got[t]
  /\ UNCHANGED <<up, locals, stream, registry, projected, files, history>>

\* ... and the value that is returned, which is read again.
Value(t) ==
  /\ Goes(t, "value", "snapshot")
  /\ Got(t, watermark)
  /\ UNCHANGED <<up, batch, doc, handle, memory, files, history>>

\* StateProjection.snapshot
TakeSnapshot(t) ==
  /\ Goes(t, "snapshot", "open")
  /\ doc' = [doc EXCEPT ![t] = [watermark |-> got[t], state |-> projected]]
  /\ Got(t, 0)
  /\ UNCHANGED <<up, batch, handle, memory, files, history>>

\* It iterates over the batches: one that another thread adds meanwhile raises
\* RuntimeError, and the request ends without an answer.
SnapshotFails(t) ==
  /\ step[t] = "snapshot"
  /\ \E u \in Threads : step[u] = "observe" /\ batch[u] \notin projected
  /\ Ends(t)
  /\ UNCHANGED <<up, memory, files, history>>

\* AtomicWriter.write_json: the temporary file is created or truncated, ...
OpenTmp(t) ==
  /\ Goes(t, "open", "write")
  /\ tmp' = Empty
  /\ handle' = [handle EXCEPT ![t] = "tmp"]
  /\ UNCHANGED <<up, batch, got, doc, memory, journalFile, saved, history>>

\* What a document written from the start of a file makes of its content: the
\* end of a longer one stays behind it.
Over(content, document) ==
  IF content \in {Empty, document} THEN {document} ELSE {document, Torn}

\* ... written through the handle, wherever the file was moved meanwhile, ...
WriteTmp(t) ==
  /\ Goes(t, "write", "rename")
  /\ \/ handle[t] = "tmp" /\ tmp' \in Over(tmp, doc[t]) /\ UNCHANGED saved
     \/ handle[t] = "saved" /\ saved' \in Over(saved, doc[t]) /\ UNCHANGED tmp
     \/ handle[t] = "gone" /\ UNCHANGED <<saved, tmp>>
  /\ handle' = [handle EXCEPT ![t] = "gone"]
  /\ UNCHANGED <<up, batch, got, doc, memory, journalFile, history>>

\* ... and renamed; open handles follow the file, and the replaced one is gone.
Moved(file) == CASE file = "tmp" -> "saved" [] OTHER -> "gone"

Rename(t) ==
  /\ step[t] = "rename" /\ tmp # Missing
  /\ saved' = tmp /\ tmp' = Missing
  /\ step' = [step EXCEPT ![t] = "idle"]
  /\ batch' = [batch EXCEPT ![t] = NoBatch]
  /\ doc' = [doc EXCEPT ![t] = Nothing]
  /\ handle' = [u \in Threads |-> Moved(handle[u])]
  /\ answers' = IF batch[t] = NoBatch THEN answers ELSE [answers EXCEPT ![batch[t]] = @ + 1]
  /\ UNCHANGED <<up, got, memory, journalFile, crashes, races>>

\* Another thread has renamed it already: StoreError.
RenameFails(t) ==
  /\ step[t] = "rename" /\ tmp = Missing
  /\ Ends(t)
  /\ UNCHANGED <<up, memory, files, history>>

-----------------------------------------------------------------------------
(* The process.                                                            *)

Crash ==
  /\ up /\ crashes < MaxCrashes
  /\ up' = FALSE /\ crashes' = crashes + 1
  /\ step' = [t \in Threads |-> "idle"] /\ batch' = [t \in Threads |-> NoBatch]
  /\ got' = [t \in Threads |-> 0] /\ doc' = [t \in Threads |-> Nothing]
  /\ handle' = [t \in Threads |-> "gone"]
  /\ stream' = <<>> /\ watermark' = 0 /\ registry' = {} /\ projected' = {}
  /\ UNCHANGED <<files, answers, races>>

\* RecordStream.load: a stable sort by number, as the places lines move from.
Sorts(order, lines) ==
  /\ \A i, j \in DOMAIN lines : order[i] = order[j] => i = j
  /\ \A i, j \in DOMAIN lines : i < j =>
       \/ lines[order[i]].seq < lines[order[j]].seq
       \/ lines[order[i]].seq = lines[order[j]].seq /\ order[i] < order[j]

\* BatchRegistry.restore, from the projection.
Restored(document) == document.state

\* Services.restore: a checkpoint that does not parse raises StoreError, and
\* the process does not start; records above the watermark are not replayed.
Resume ==
  /\ ~ up
  /\ journalFile = <<>> \/ saved \notin {Empty, Torn}
  /\ up' = TRUE
  /\ \E order \in [DOMAIN journalFile -> DOMAIN journalFile] :
       /\ Sorts(order, journalFile)
       /\ stream' = [i \in DOMAIN journalFile |-> journalFile[order[i]]]
  /\ LET document == IF saved = Missing \/ journalFile = <<>> THEN Nothing ELSE saved
     IN  /\ watermark' = document.watermark
         /\ projected' = document.state
         /\ registry' = Restored(document)
  /\ UNCHANGED <<step, locals, files, history>>

Serve(t) ==
  \/ \E b \in Batches : Check(t, b)
  \/ Enter(t) \/ Number(t) \/ Keep(t) \/ WriteLine(t) \/ Observe(t)
  \/ BeginCommit(t) \/ Target(t) \/ Compare(t) \/ RegressionError(t)
  \/ Advance(t) \/ Value(t) \/ TakeSnapshot(t) \/ SnapshotFails(t)
  \/ OpenTmp(t) \/ WriteTmp(t) \/ Rename(t) \/ RenameFails(t)

Next ==
  \/ up /\ \E t \in Threads : Serve(t)
  \/ Crash
  \/ Resume

Spec == Init /\ [][Next]_vars

-----------------------------------------------------------------------------
(* Properties.                                                             *)

\* The variables hold what their comments say.
TypeOK ==
  /\ up \in BOOLEAN
  /\ step \in [Threads -> Steps]
  /\ batch \in [Threads -> Batches \cup {NoBatch}]
  /\ got \in [Threads -> Nat] /\ doc \in [Threads -> Document]
  /\ handle \in [Threads -> {"tmp", "saved", "gone"}]
  /\ stream \in Seq(Record) /\ journalFile \in Seq(Record)
  /\ watermark \in Nat /\ crashes \in Nat
  /\ registry \subseteq Batches /\ projected \subseteq Batches
  /\ saved \in Document \cup {Missing, Empty, Torn}
  /\ tmp \in Document \cup {Missing, Empty, Torn}
  /\ answers \in [Batches -> Nat] /\ races \subseteq {"batch", "commit"}

\* The batches that have a line in journal.jsonl.
Written == {journalFile[i].batch : i \in DOMAIN journalFile}

\* However threads interleave and processes end, the state of a checkpoint names
\* only batches that have a line in the journal file.  (Its watermark may be ahead
\* of the lines: a thread that took a number and has not written its line yet is
\* committed over by another.)
CheckpointHasLines == saved \in Document => saved.state \subseteq Written

\* A registration that was answered has its line for good; and while no two
\* commits overlap, the checkpoint is whole, covers it with its watermark and
\* has it in the state a restart resumes from.
AnsweredIsKept ==
  \A b \in Batches : answers[b] > 0 =>
    /\ b \in Written
    /\ "commit" \notin races =>
         /\ saved \in Document /\ b \in saved.state
         /\ \E i \in DOMAIN journalFile :
              journalFile[i].batch = b /\ journalFile[i].seq <= saved.watermark

\* batch.py: "a batch identifier may be registered exactly once".  Threads break
\* this: two registrations of one batch may overlap, and a restart may follow
\* overlapping commits.  No run checks it; JournalThreadsKeptProofs shows that
\* these are the only ways.
RegisteredOnce == \A b \in Batches : answers[b] <= 1
=============================================================================
