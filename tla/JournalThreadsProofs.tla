------------------------ MODULE JournalThreadsProofs ------------------------
(***************************************************************************)
(* Proofs about JournalThreads, for any threads, batches and bounds.  A    *)
(* checkpoint vouches for nothing that has no line, because a thread folds *)
(* its record into the projection only after it wrote the line, and        *)
(* because the stream is ahead of the file by the threads that are about   *)
(* to write one: the thread that reads the head of the stream is none of   *)
(* them.                                                                   *)
(***************************************************************************)
EXTENDS JournalThreads, FiniteSetTheorems, TLAPS

\* What the steps of a thread say about its local variables.
Known ==
  \A t \in Threads :
    /\ step[t] \in {"assign", "number", "keep", "line", "observe"} => batch[t] \in Batches
    /\ step[t] \in {"keep", "line"} => got[t] # 0
    /\ step[t] = "idle" => batch[t] = NoBatch

\* No request outlives its process.
Ended == ~ up => \A t \in Threads : step[t] = "idle"

TypeInv == TypeOK /\ Known /\ Ended

\* The initial states have the right types.
LEMMA TypeInit == Init => TypeInv
<1> SUFFICES ASSUME Init PROVE TypeInv
  OBVIOUS
<1>1. Nothing \in Document
  BY DEF Nothing, Document
<1>2. stream \in Seq(Record) /\ journalFile \in Seq(Record)
  BY DEF Init
<1>3. TypeOK
  BY <1>1, <1>2, BoundsAssumption DEF Init, TypeOK, Steps, Numbering, Commits, Saving
<1>4. Known /\ Ended
  BY DEF Init, Known, Ended
<1> QED
  BY <1>3, <1>4 DEF TypeInv

\* The names of the steps.
LEMMA StepNames ==
  {"idle", "line", "observe", "target", "assign", "number", "keep", "compare", "advance",
   "value", "snapshot", "open", "write", "rename"} = Steps
  BY DEF Steps, Numbering, Commits, Saving

\* A record that a thread appends is one.
LEMMA RecordOfType ==
  ASSUME TypeInv, NEW t \in Threads, step[t] \in {"keep", "line"}
  PROVE  RecordOf(t) \in Record
  BY DEF TypeInv, TypeOK, Known, RecordOf, Record

\* What a resumed process finds in the checkpoint is a document.
LEMMA ResumedDocument ==
  ASSUME TypeInv, journalFile = <<>> \/ saved \notin {Empty, Torn}
  PROVE  (IF saved = Missing \/ journalFile = <<>> THEN Nothing ELSE saved) \in Document
<1>1. Nothing \in Document
  BY DEF Nothing, Document
<1> QED
  BY <1>1 DEF TypeInv, TypeOK

\* The stream a resumed process loads has the lines of the file, in some order.
LEMMA ResumedStream ==
  ASSUME TypeInv, Resume
  PROVE  stream' \in Seq(Record) /\ Len(stream') = Len(journalFile)
<1>1. PICK order \in [DOMAIN journalFile -> DOMAIN journalFile] :
        stream' = [i \in DOMAIN journalFile |-> journalFile[order[i]]]
  BY DEF Resume
<1>2. journalFile \in Seq(Record) /\ DOMAIN journalFile = 1 .. Len(journalFile)
  BY DEF TypeInv, TypeOK
<1>3. \A i \in DOMAIN journalFile : journalFile[order[i]] \in Record
  BY <1>2
<1>4. stream' = [i \in 1 .. Len(journalFile) |-> journalFile[order[i]]]
  BY <1>1, <1>2
<1>5. Len(journalFile) \in Nat
  BY <1>2
<1> QED
  BY <1>2, <1>3, <1>4, <1>5

\* A step of a registration keeps the types.
LEMMA RegistrationTypes ==
  ASSUME TypeInv, up, NEW t \in Threads,
         \/ \E b \in Batches : Check(t, b)
         \/ Enter(t) \/ Number(t) \/ Keep(t) \/ WriteLine(t) \/ Observe(t)
  PROVE  TypeInv'
<1> USE StepNames DEF TypeInv, TypeOK, Known, Ended, Goes, Got, locals, memory, files, history
<1>1. ASSUME NEW b \in Batches, Check(t, b) PROVE TypeInv'
  BY <1>1 DEF Check
<1>2. CASE Enter(t)
  BY <1>2 DEF Enter
<1>3. CASE Number(t)
  BY <1>3 DEF Number, NextNumber
<1>4. CASE Keep(t)
  <2>1. stream' \in Seq(Record)
    BY <1>4, RecordOfType DEF Keep
  <2> QED
    BY <1>4, <2>1 DEF Keep
<1>5. CASE WriteLine(t)
  <2>1. journalFile' \in Seq(Record)
    BY <1>5, RecordOfType DEF WriteLine
  <2> QED
    BY <1>5, <2>1 DEF WriteLine
<1>6. CASE Observe(t)
  BY <1>6 DEF Observe
<1> QED
  BY <1>1, <1>2, <1>3, <1>4, <1>5, <1>6

\* A request that fails leaves its thread idle.
LEMMA FailureTypes ==
  ASSUME TypeInv, up, NEW t \in Threads,
         RegressionError(t) \/ SnapshotFails(t) \/ RenameFails(t)
  PROVE  TypeInv'
<1>1. Nothing \in Document
  BY DEF Nothing, Document
<1>2. Ends(t) /\ UNCHANGED <<up, memory, files, history>>
  BY DEF RegressionError, SnapshotFails, RenameFails
<1>3. TypeOK'
  BY <1>1, <1>2, StepNames DEF Ends, TypeInv, TypeOK, memory, files, history
<1>4. Known' /\ Ended'
  BY <1>2 DEF Ends, TypeInv, TypeOK, Known, Ended
<1> QED
  BY <1>3, <1>4 DEF TypeInv

\* A step of a commit keeps the types.
LEMMA CommitTypes ==
  ASSUME TypeInv, up, NEW t \in Threads,
         \/ BeginCommit(t) \/ Target(t) \/ Compare(t) \/ Advance(t) \/ Value(t)
         \/ TakeSnapshot(t) \/ OpenTmp(t) \/ WriteTmp(t) \/ Rename(t)
  PROVE  TypeInv'
<1> USE StepNames DEF TypeInv, TypeOK, Known, Ended, Goes, Got, locals, memory, files, history
<1>1. CASE BeginCommit(t)
  BY <1>1 DEF BeginCommit
<1>2. CASE Target(t)
  <2>1. \A target \in Named(t) : target \in Nat
    BY DEF StreamHead, Named
  <2> QED
    BY <1>2, <2>1 DEF Target
<1>8. CASE Compare(t)
  BY <1>8 DEF Compare
<1>3. CASE Advance(t)
  BY <1>3 DEF Advance
<1>9. CASE Value(t)
  BY <1>9 DEF Value
<1>4. CASE TakeSnapshot(t)
  <2>1. [watermark |-> got[t], state |-> projected] \in Document
    BY DEF Document
  <2> QED
    BY <1>4, <2>1 DEF TakeSnapshot
<1>5. CASE OpenTmp(t)
  BY <1>5 DEF OpenTmp
<1>6. CASE WriteTmp(t)
  <2>1. \A content : Over(content, doc[t]) \subseteq Document \cup {Missing, Empty, Torn}
    BY DEF Over
  <2>2. saved' \in Document \cup {Missing, Empty, Torn} /\ tmp' \in Document \cup {Missing, Empty, Torn}
    BY <1>6, <2>1 DEF WriteTmp
  <2> QED
    BY <1>6, <2>2 DEF WriteTmp
<1>7. CASE Rename(t)
  <2>1. Nothing \in Document /\ \A file \in {"tmp", "saved", "gone"} : Moved(file) \in {"tmp", "saved", "gone"}
    BY DEF Nothing, Document, Moved
  <2>2. /\ step' \in [Threads -> Steps] /\ batch' \in [Threads -> Batches \cup {NoBatch}]
        /\ doc' \in [Threads -> Document] /\ handle' \in [Threads -> {"tmp", "saved", "gone"}]
    BY <1>7, <2>1 DEF Rename
  <2>3. answers' \in [Batches -> Nat]
    BY <1>7 DEF Rename
  <2>4. /\ saved' \in Document \cup {Missing, Empty, Torn}
        /\ tmp' \in Document \cup {Missing, Empty, Torn}
    BY <1>7 DEF Rename
  <2>5. Known' /\ Ended'
    BY <1>7 DEF Rename
  <2> QED
    BY <1>7, <2>2, <2>3, <2>4, <2>5 DEF Rename
<1> QED
  BY <1>1, <1>2, <1>3, <1>4, <1>5, <1>6, <1>7, <1>8, <1>9

\* A process that ends or resumes keeps the types.
LEMMA ProcessTypes ==
  ASSUME TypeInv, Crash \/ Resume
  PROVE  TypeInv'
<1> USE StepNames DEF TypeInv, TypeOK, Known, Ended, locals, memory, files, history
<1>1. CASE Crash
  <2>1. Nothing \in Document
    BY DEF Nothing, Document
  <2>2. stream' \in Seq(Record)
    BY <1>1 DEF Crash
  <2>3. /\ step' \in [Threads -> Steps] /\ batch' \in [Threads -> Batches \cup {NoBatch}]
        /\ got' \in [Threads -> Nat] /\ doc' \in [Threads -> Document]
        /\ handle' \in [Threads -> {"tmp", "saved", "gone"}]
    BY <1>1, <2>1 DEF Crash
  <2>4. Known' /\ Ended'
    BY <1>1 DEF Crash
  <2>5. watermark' \in Nat /\ crashes' \in Nat
    BY <1>1 DEF Crash
  <2>9. up' \in BOOLEAN /\ registry' \subseteq Batches /\ projected' \subseteq Batches
    BY <1>1 DEF Crash
  <2>6. /\ journalFile' \in Seq(Record) /\ answers' \in [Batches -> Nat]
        /\ races' \subseteq {"batch", "commit"}
    BY <1>1 DEF Crash
  <2>7. /\ saved' \in Document \cup {Missing, Empty, Torn}
        /\ tmp' \in Document \cup {Missing, Empty, Torn}
    BY <1>1 DEF Crash
  <2>8. TypeOK'
    BY <2>2, <2>3, <2>5, <2>6, <2>7, <2>9
  <2> QED
    BY <2>4, <2>8
<1>2. CASE Resume
  <2> DEFINE document == IF saved = Missing \/ journalFile = <<>> THEN Nothing ELSE saved
  <2>1. document \in Document
    BY <1>2, ResumedDocument DEF Resume
  <2>2. document.watermark \in Nat /\ document.state \subseteq Batches
    BY <2>1 DEF Document
  <2>3. watermark' \in Nat /\ projected' \subseteq Batches /\ registry' \subseteq Batches
    BY <1>2, <2>2 DEF Resume, Restored
  <2>4. stream' \in Seq(Record)
    BY <1>2, ResumedStream
  <2> QED
    BY <1>2, <2>3, <2>4 DEF Resume
<1> QED
  BY <1>1, <1>2

\* Every step keeps the types.
LEMMA TypeStep == ASSUME TypeInv, [Next]_vars PROVE TypeInv'
<1>1. CASE up /\ \E t \in Threads : Serve(t)
  BY <1>1, RegistrationTypes, CommitTypes, FailureTypes DEF Serve
<1>2. CASE Crash \/ Resume
  BY <1>2, ProcessTypes
<1>3. CASE UNCHANGED vars
  BY <1>3 DEF vars, locals, memory, files, history, TypeInv, TypeOK, Known, Ended
<1> QED
  BY <1>1, <1>2, <1>3 DEF Next

\* The invariant of the types holds in every reachable state.
LEMMA TypeInvAlways == Spec => []TypeInv
  BY TypeInit, TypeStep, PTL DEF Spec

\* Type correctness, for any threads, batches and bounds.
THEOREM JournalThreadsTypeCorrect == Spec => []TypeOK
<1>1. TypeInv => TypeOK
  BY DEF TypeInv
<1> QED
  BY <1>1, TypeInvAlways, PTL

-----------------------------------------------------------------------------
(* What a checkpoint vouches for has a line.                               *)

Vouched(file) == file \in Document => file.state \subseteq Written

\* The steps behind the line of a registration.
After == {"observe", "target"} \cup Commits

Contained ==
  /\ projected \subseteq Written
  /\ \A t \in Threads : doc[t].state \subseteq Written
  /\ Vouched(saved) /\ Vouched(tmp)
  /\ \A t \in Threads : step[t] \in After /\ batch[t] # NoBatch => batch[t] \in Written
  /\ \A b \in Batches : answers[b] > 0 => b \in Written

\* An appended line adds its batch to those that have one.
LEMMA WrittenAppend ==
  ASSUME TypeInv, NEW r \in Record, journalFile' = Append(journalFile, r)
  PROVE  Written' = Written \cup {r.batch}
<1>1. journalFile \in Seq(Record)
  BY DEF TypeInv, TypeOK
<1>2. DOMAIN journalFile' = (DOMAIN journalFile) \cup {Len(journalFile) + 1}
  BY <1>1
<1>3. \A i \in DOMAIN journalFile : journalFile'[i] = journalFile[i]
  BY <1>1
<1>4. journalFile'[Len(journalFile) + 1] = r
  BY <1>1
<1> QED
  BY <1>2, <1>3, <1>4 DEF Written

\* No line disappears.
LEMMA WrittenGrows ==
  ASSUME TypeInv, [Next]_vars
  PROVE  Written \subseteq Written'
<1>1. ASSUME NEW t \in Threads, WriteLine(t) PROVE Written \subseteq Written'
  <2>1. RecordOf(t) \in Record /\ journalFile' = Append(journalFile, RecordOf(t))
    BY <1>1, RecordOfType DEF WriteLine, Goes
  <2> QED
    BY <2>1, WrittenAppend
<1>2. ASSUME journalFile' = journalFile PROVE Written \subseteq Written'
  BY <1>2 DEF Written
<1>3. ASSUME NEW t \in Threads, Serve(t) PROVE WriteLine(t) \/ journalFile' = journalFile
  BY <1>3 DEF Serve, Check, Enter, Number, Keep, Observe, BeginCommit, Target, Compare,
    RegressionError, Advance, Value, TakeSnapshot, SnapshotFails, OpenTmp, WriteTmp, Rename,
    RenameFails, files
<1>4. Crash \/ Resume \/ UNCHANGED vars => journalFile' = journalFile
  BY DEF Crash, Resume, vars, files
<1> QED
  BY <1>1, <1>2, <1>3, <1>4 DEF Next

\* The steps behind the line of a registration, one by one.
LEMMA AfterNames ==
  After = {"observe", "target", "compare", "advance", "value", "snapshot", "open", "write",
           "rename"}
  BY DEF After, Commits, Saving

\* A step that changes nothing that is contained keeps it.
LEMMA ContainedFrame ==
  ASSUME Contained, Written \subseteq Written',
         UNCHANGED <<projected, doc, saved, tmp, answers>>,
         \A t \in Threads : step'[t] \in After /\ batch'[t] # NoBatch => batch'[t] \in Written'
  PROVE  Contained'
  BY DEF Contained, Vouched

\* A step of a registration keeps what is contained.
LEMMA RegistrationContained ==
  ASSUME TypeInv, Contained, Written \subseteq Written', NEW t \in Threads,
         \/ \E b \in Batches : Check(t, b)
         \/ Enter(t) \/ Number(t) \/ Keep(t) \/ WriteLine(t) \/ Observe(t)
  PROVE  Contained'
<1> USE DEF Goes, Got, locals, memory, files, history
<1>0. /\ step \in [Threads -> Steps] /\ batch \in [Threads -> Batches \cup {NoBatch}]
      /\ \A u \in Threads : step[u] \in After /\ batch[u] # NoBatch => batch[u] \in Written
  BY DEF TypeInv, TypeOK, Contained
<1>1. CASE \E b \in Batches : Check(t, b)
  <2>1. PICK b \in Batches : Check(t, b)
    BY <1>1
  <2>2. /\ step' = [step EXCEPT ![t] = "assign"] /\ batch' = [batch EXCEPT ![t] = b]
        /\ UNCHANGED <<projected, doc, saved, tmp, answers>>
    BY <2>1 DEF Check
  <2> QED
    BY <1>0, <2>2, ContainedFrame, AfterNames
<1>2. CASE Enter(t) \/ Number(t) \/ Keep(t)
  <2>1. /\ step' = [step EXCEPT ![t] = step'[t]] /\ step'[t] \in {"number", "keep", "line"}
        /\ batch' = batch
        /\ UNCHANGED <<projected, doc, saved, tmp, answers>>
    BY <1>0, <1>2 DEF Enter, Number, Keep
  <2> QED
    BY <1>0, <2>1, ContainedFrame, AfterNames
<1>3. CASE WriteLine(t)
  <2>1. RecordOf(t) \in Record /\ journalFile' = Append(journalFile, RecordOf(t))
    BY <1>3, RecordOfType DEF WriteLine
  <2>2. batch[t] \in Written'
    BY <2>1, WrittenAppend DEF RecordOf
  <2>3. /\ step' = [step EXCEPT ![t] = "observe"] /\ batch' = batch
        /\ UNCHANGED <<projected, doc, saved, tmp, answers>>
    BY <1>3 DEF WriteLine
  <2> QED
    BY <1>0, <2>2, <2>3, ContainedFrame
<1>4. CASE Observe(t)
  <2>1. batch[t] \in Written
    BY <1>0, <1>4, AfterNames, BatchesAssumption DEF Observe, TypeInv, Known
  <2>2. /\ step' = [step EXCEPT ![t] = "target"]
        /\ UNCHANGED <<batch, doc, saved, tmp, answers, journalFile>>
        /\ projected' = projected \cup {batch[t]}
    BY <1>4 DEF Observe
  <2>3. projected' \subseteq Written'
    BY <2>1, <2>2 DEF Contained
  <2>4. \A u \in Threads : step'[u] \in After /\ batch'[u] # NoBatch => batch'[u] \in Written'
    BY <1>0, <2>1, <2>2
  <2> QED
    BY <2>2, <2>3, <2>4 DEF Contained, Vouched
<1> QED
  BY <1>1, <1>2, <1>3, <1>4

\* A request that fails keeps what is contained.
LEMMA FailureContained ==
  ASSUME TypeInv, Contained, Written \subseteq Written', NEW t \in Threads,
         RegressionError(t) \/ SnapshotFails(t) \/ RenameFails(t)
  PROVE  Contained'
<1>1. Ends(t) /\ UNCHANGED <<projected, saved, tmp, answers>>
  BY DEF RegressionError, SnapshotFails, RenameFails, memory, files, history
<1>2. /\ step' = [step EXCEPT ![t] = "idle"] /\ batch' = [batch EXCEPT ![t] = NoBatch]
      /\ doc' = [doc EXCEPT ![t] = Nothing]
  BY <1>1 DEF Ends
<1>3. \A u \in Threads : doc'[u].state \subseteq Written'
  BY <1>2 DEF Contained, TypeInv, TypeOK, Nothing
<1>4. \A u \in Threads : step'[u] \in After /\ batch'[u] # NoBatch => batch'[u] \in Written'
  BY <1>2, AfterNames DEF Contained, TypeInv, TypeOK
<1> QED
  BY <1>1, <1>3, <1>4 DEF Contained, Vouched

\* A step of a commit keeps what is contained.
LEMMA CommitContained ==
  ASSUME TypeInv, Contained, Written \subseteq Written', NEW t \in Threads,
         \/ BeginCommit(t) \/ Target(t) \/ Compare(t) \/ Advance(t) \/ Value(t)
         \/ TakeSnapshot(t) \/ OpenTmp(t) \/ WriteTmp(t) \/ Rename(t)
  PROVE  Contained'
<1> USE DEF Goes, Got, locals, memory, files, history
<1>0. /\ step \in [Threads -> Steps] /\ batch \in [Threads -> Batches \cup {NoBatch}]
      /\ doc \in [Threads -> Document] /\ answers \in [Batches -> Nat]
      /\ \A u \in Threads : step[u] \in After /\ batch[u] # NoBatch => batch[u] \in Written
      /\ \A u \in Threads : doc[u].state \subseteq Written
  BY DEF TypeInv, TypeOK, Contained
<1>1. CASE BeginCommit(t)
  <2>1. batch[t] = NoBatch
    BY <1>1 DEF BeginCommit, TypeInv, Known
  <2>2. /\ step' = [step EXCEPT ![t] = "target"]
        /\ UNCHANGED <<batch, projected, doc, saved, tmp, answers>>
    BY <1>1 DEF BeginCommit
  <2> QED
    BY <1>0, <2>1, <2>2, ContainedFrame
<1>2. CASE Target(t) \/ Compare(t) \/ Advance(t) \/ Value(t)
  <2>1. /\ step[t] \in After /\ step' = [step EXCEPT ![t] = step'[t]]
        /\ UNCHANGED <<batch, projected, doc, saved, tmp, answers>>
    BY <1>0, <1>2, AfterNames DEF Target, Compare, Advance, Value
  <2> QED
    BY <1>0, <2>1, ContainedFrame
<1>3. CASE TakeSnapshot(t)
  <2>1. /\ step[t] \in After /\ step' = [step EXCEPT ![t] = step'[t]]
        /\ UNCHANGED <<batch, projected, saved, tmp, answers>>
        /\ doc' = [doc EXCEPT ![t] = [watermark |-> got[t], state |-> projected]]
    BY <1>0, <1>3, AfterNames DEF TakeSnapshot
  <2>2. \A u \in Threads : doc'[u].state \subseteq Written'
    BY <1>0, <2>1 DEF Contained
  <2> QED
    BY <1>0, <2>1, <2>2 DEF Contained, Vouched
<1>4. CASE OpenTmp(t)
  <2>1. /\ step[t] \in After /\ step' = [step EXCEPT ![t] = step'[t]] /\ tmp' = Empty
        /\ UNCHANGED <<batch, projected, doc, saved, answers>>
    BY <1>0, <1>4, AfterNames DEF OpenTmp
  <2>2. Vouched(tmp)'
    BY <2>1, FilesAssumption DEF Vouched
  <2> QED
    BY <1>0, <2>1, <2>2 DEF Contained, Vouched
<1>5. CASE WriteTmp(t)
  <2>1. /\ step[t] \in After /\ step' = [step EXCEPT ![t] = step'[t]]
        /\ UNCHANGED <<batch, projected, doc, answers>>
    BY <1>0, <1>5, AfterNames DEF WriteTmp
  <2>2. \A content : Over(content, doc[t]) \subseteq {doc[t], Torn}
    BY DEF Over
  <2>3. saved' \in {saved, doc[t], Torn} /\ tmp' \in {tmp, doc[t], Torn}
    BY <1>5, <2>2 DEF WriteTmp
  <2>4. Vouched(saved)' /\ Vouched(tmp)'
    BY <1>0, <2>3, FilesAssumption DEF Vouched, Contained
  <2> QED
    BY <1>0, <2>1, <2>4 DEF Contained
<1>6. CASE Rename(t)
  <2>1. /\ step[t] \in After /\ step' = [step EXCEPT ![t] = "idle"]
        /\ batch' = [batch EXCEPT ![t] = NoBatch] /\ doc' = [doc EXCEPT ![t] = Nothing]
        /\ saved' = tmp /\ tmp' = Missing /\ projected' = projected
        /\ answers' = IF batch[t] = NoBatch THEN answers
                      ELSE [answers EXCEPT ![batch[t]] = @ + 1]
    BY <1>6, AfterNames DEF Rename
  <2>2. Vouched(saved)' /\ Vouched(tmp)'
    BY <2>1, FilesAssumption DEF Vouched, Contained
  <2>3. \A u \in Threads : doc'[u].state \subseteq Written'
    BY <1>0, <2>1 DEF Nothing
  <2>4. \A u \in Threads : step'[u] \in After /\ batch'[u] # NoBatch => batch'[u] \in Written'
    BY <1>0, <2>1
  <2>5. \A b \in Batches : answers'[b] > 0 => b \in Written'
    BY <1>0, <2>1 DEF Contained
  <2> QED
    BY <2>1, <2>2, <2>3, <2>4, <2>5 DEF Contained
<1> QED
  BY <1>1, <1>2, <1>3, <1>4, <1>5, <1>6

\* A process that ends or resumes keeps what is contained.
LEMMA ProcessContained ==
  ASSUME TypeInv, Contained, Crash \/ Resume
  PROVE  Contained'
<1>0. Nothing.state = {}
  BY DEF Nothing
<1>1. CASE Crash
  <2>1. /\ step' = [t \in Threads |-> "idle"] /\ projected' = {}
        /\ doc' = [t \in Threads |-> Nothing]
        /\ UNCHANGED <<saved, tmp, answers, journalFile>>
    BY <1>1 DEF Crash, files
  <2>2. Written' = Written /\ Vouched(saved)' /\ Vouched(tmp)'
    BY <2>1 DEF Written, Contained, Vouched
  <2>3. \A t \in Threads : step'[t] \notin After
    BY <2>1, AfterNames
  <2> QED
    BY <1>0, <2>1, <2>2, <2>3 DEF Contained
<1>2. CASE Resume
  <2> DEFINE document == IF saved = Missing \/ journalFile = <<>> THEN Nothing ELSE saved
  <2>1. /\ UNCHANGED <<step, batch, doc, saved, tmp, answers, journalFile>>
        /\ projected' = document.state
    BY <1>2 DEF Resume, locals, files, history
  <2>2. document.state \subseteq Written
    BY <1>0, <1>2, ResumedDocument DEF Resume, Contained, Vouched
  <2>3. Written' = Written
    BY <2>1 DEF Written
  <2> HIDE DEF document
  <2> QED
    BY <2>1, <2>2, <2>3 DEF Contained, Vouched
<1> QED
  BY <1>1, <1>2

\* Every step keeps what is contained.
LEMMA ContainedStep == ASSUME TypeInv, Contained, [Next]_vars PROVE Contained'
<1>0. Written \subseteq Written'
  BY WrittenGrows
<1>1. CASE up /\ \E t \in Threads : Serve(t)
  BY <1>0, <1>1, RegistrationContained, CommitContained, FailureContained DEF Serve
<1>2. CASE Crash \/ Resume
  BY <1>2, ProcessContained
<1>3. CASE UNCHANGED vars
  BY <1>3 DEF vars, locals, memory, files, history, Contained, Vouched, Written
<1> QED
  BY <1>1, <1>2, <1>3 DEF Next

\* Nothing is vouched for before the first registration.
LEMMA ContainedInit == Init => Contained
  BY BatchesAssumption, AfterNames, FilesAssumption DEF Init, Contained, Vouched, Nothing

\* Types and containment hold together in every reachable state.
LEMMA ContainedAlways == Spec => [](TypeInv /\ Contained)
  BY TypeInit, TypeStep, ContainedInit, ContainedStep, PTL DEF Spec

\* A registration that was answered has its line in the journal file for good:
\* the first part of AnsweredIsKept, which no interleaving and no process end
\* takes away.
THEOREM AnsweredHasLine ==
  Spec => [](\A b \in Batches : answers[b] > 0 => b \in Written)
<1>1. TypeInv /\ Contained => \A b \in Batches : answers[b] > 0 => b \in Written
  BY DEF Contained
<1> QED
  BY <1>1, ContainedAlways, PTL

-----------------------------------------------------------------------------
(* The watermark is ahead of the lines by less than the number of threads. *)

\* The threads whose record is in the stream and not in the file.
Pending == {t \in Threads : step[t] = "line"}

StreamInFile == up => Len(stream) = Len(journalFile) + Cardinality(Pending)

Near(n) == Threads # {} => n < Len(journalFile) + Cardinality(Threads)

NearFile(file) == file \in Document => Near(file.watermark)

Bounded ==
  /\ Near(watermark)
  /\ \A t \in Threads : step[t] \in {"compare", "advance", "value", "snapshot"} => Near(got[t])
  /\ \A t \in Threads : Near(doc[t].watermark)
  /\ NearFile(saved) /\ NearFile(tmp)

Numbers == StreamInFile /\ Bounded

\* The numbers that the proof computes with are natural.
LEMMA NumberTypes ==
  ASSUME TypeInv
  PROVE  /\ Len(stream) \in Nat /\ Len(journalFile) \in Nat
         /\ IsFiniteSet(Pending) /\ Cardinality(Pending) \in Nat
         /\ Cardinality(Threads) \in Nat /\ (Threads # {} => Cardinality(Threads) > 0)
         /\ watermark \in Nat /\ \A t \in Threads : got[t] \in Nat /\ doc[t].watermark \in Nat
<1>1. IsFiniteSet(Pending)
  <2>1. Pending \subseteq Threads
    BY DEF Pending
  <2> QED
    BY <2>1, ThreadsAssumption, FS_Subset
<1>2. Cardinality(Pending) \in Nat /\ Cardinality(Threads) \in Nat
  BY <1>1, ThreadsAssumption, FS_CardinalityType
<1>3. Threads # {} => Cardinality(Threads) # 0
  BY ThreadsAssumption, FS_EmptySet
<1>4. Len(stream) \in Nat /\ Len(journalFile) \in Nat
  BY DEF TypeInv, TypeOK
<1>5. watermark \in Nat /\ \A t \in Threads : got[t] \in Nat /\ doc[t].watermark \in Nat
  BY DEF TypeInv, TypeOK, Document
<1> QED
  BY <1>1, <1>2, <1>3, <1>4, <1>5

\* Of the stream as a thread that owes no line reads it, all but the lines of
\* the other threads are in the file.
LEMMA HeadIsNear ==
  ASSUME TypeInv, StreamInFile, up, NEW t \in Threads, step[t] # "line"
  PROVE  Near(Len(stream))
<1>1. Pending \subseteq Threads \ {t}
  BY DEF Pending
<1>2. IsFiniteSet(Threads \ {t}) /\ Cardinality(Threads \ {t}) = Cardinality(Threads) - 1
  BY ThreadsAssumption, FS_RemoveElement
<1>3. Cardinality(Pending) <= Cardinality(Threads \ {t})
  BY <1>1, <1>2, FS_Subset
<1> QED
  BY <1>2, <1>3, NumberTypes DEF StreamInFile, Near

\* Lines are appended only.
LEMMA FileGrows ==
  ASSUME TypeInv, [Next]_vars
  PROVE  Len(journalFile') >= Len(journalFile) /\ Len(journalFile') \in Nat
<1>1. ASSUME NEW t \in Threads, WriteLine(t) PROVE Len(journalFile') = Len(journalFile) + 1
  <2>1. RecordOf(t) \in Record /\ journalFile' = Append(journalFile, RecordOf(t))
    BY <1>1, RecordOfType DEF WriteLine, Goes
  <2> QED
    BY <2>1 DEF TypeInv, TypeOK
<1>2. ASSUME NEW t \in Threads, Serve(t) PROVE WriteLine(t) \/ journalFile' = journalFile
  BY <1>2 DEF Serve, Check, Enter, Number, Keep, Observe, BeginCommit, Target, Compare,
    RegressionError, Advance, Value, TakeSnapshot, SnapshotFails, OpenTmp, WriteTmp, Rename,
    RenameFails, files
<1>3. Crash \/ Resume \/ UNCHANGED vars => journalFile' = journalFile
  BY DEF Crash, Resume, vars, files
<1> QED
  BY <1>1, <1>2, <1>3, NumberTypes DEF Next

\* What is near the lines stays near them.
LEMMA NearGrows ==
  ASSUME TypeInv, [Next]_vars, NEW n \in Nat, Near(n)
  PROVE  Near(n)'
  BY FileGrows, NumberTypes DEF Near

\* No number is read and no thread owes a line before the first request.
LEMMA NumbersInit == Init => Numbers
<1> SUFFICES ASSUME Init PROVE Numbers
  OBVIOUS
<1>1. TypeInv
  BY TypeInit
<1>2. Pending = {}
  BY DEF Init, Pending
<1>3. StreamInFile
  BY <1>2, FS_EmptySet DEF Init, StreamInFile
<1>4. Near(0)
  BY <1>1, NumberTypes DEF Init, Near
<1>5. Bounded
  BY <1>4, FilesAssumption DEF Init, Bounded, NearFile, Nothing
<1> QED
  BY <1>3, <1>5 DEF Numbers

\* The stream is ahead of the file by the lines that threads owe.
LEMMA StreamInFileStep ==
  ASSUME TypeInv, StreamInFile, [Next]_vars
  PROVE  StreamInFile'
<1> USE DEF Goes, Got, locals, memory, files, history
<1>0. /\ step \in [Threads -> Steps] /\ stream \in Seq(Record) /\ journalFile \in Seq(Record)
      /\ IsFiniteSet(Pending)
      /\ Len(stream) \in Nat /\ Len(journalFile) \in Nat /\ Cardinality(Pending) \in Nat
  BY NumberTypes DEF TypeInv, TypeOK
<1>1. ASSUME up, NEW t \in Threads, Keep(t) PROVE StreamInFile'
  <2>1. Len(stream') = Len(stream) + 1 /\ journalFile' = journalFile /\ up
    BY <1>0, <1>1, RecordOfType DEF Keep
  <2>2. Pending' = Pending \cup {t} /\ t \notin Pending
    BY <1>0, <1>1 DEF Keep, Pending
  <2>3. Cardinality(Pending') = Cardinality(Pending) + 1
    BY <1>0, <2>2, FS_AddElement
  <2>4. Len(stream) = Len(journalFile) + Cardinality(Pending)
    BY <2>1 DEF StreamInFile
  <2> HIDE DEF Goes, Got, locals, memory, files, history
  <2>5. Len(stream') = Len(journalFile') + Cardinality(Pending')
    BY <1>0, <2>1, <2>3, <2>4
  <2> QED
    BY <2>5 DEF StreamInFile
<1>2. ASSUME up, NEW t \in Threads, WriteLine(t) PROVE StreamInFile'
  <2>1. Len(journalFile') = Len(journalFile) + 1 /\ stream' = stream /\ up
    BY <1>0, <1>2, RecordOfType DEF WriteLine
  <2>2. Pending' = Pending \ {t} /\ t \in Pending
    BY <1>0, <1>2 DEF WriteLine, Pending
  <2>3. Cardinality(Pending') = Cardinality(Pending) - 1
    BY <1>0, <2>2, FS_RemoveElement
  <2> QED
    BY <1>0, <2>1, <2>3 DEF StreamInFile
<1>3. ASSUME up, NEW t \in Threads, Serve(t) PROVE StreamInFile'
  <2>1. CASE Keep(t) \/ WriteLine(t)
    BY <1>1, <1>2, <1>3, <2>1
  <2>2. CASE ~ Keep(t) /\ ~ WriteLine(t)
    <3>1. UNCHANGED <<up, stream, journalFile>>
      BY <1>3, <2>2 DEF Serve, Check, Enter, Number, Observe, BeginCommit, Target, Compare,
        RegressionError, Advance, Value, TakeSnapshot, SnapshotFails, OpenTmp, WriteTmp, Rename,
        RenameFails
    <3>2. step[t] # "line" /\ step'[t] # "line" /\ \A u \in Threads \ {t} : step'[u] = step[u]
      BY <1>0, <1>3, <2>2 DEF Serve, Check, Enter, Number, Observe, BeginCommit, Target, Compare,
        RegressionError, Advance, Value, TakeSnapshot, SnapshotFails, OpenTmp, WriteTmp, Rename,
        RenameFails, Ends
    <3>3. Pending' = Pending
      BY <3>2 DEF Pending
    <3> QED
      BY <3>1, <3>3 DEF StreamInFile
  <2> QED
    BY <2>1, <2>2
<1>4. CASE Crash
  BY <1>4 DEF Crash, StreamInFile
<1>5. CASE Resume
  <2>1. Len(stream') = Len(journalFile) /\ journalFile' = journalFile
    BY <1>5, ResumedStream DEF Resume
  <2>2. Pending' = {}
    BY <1>5 DEF Resume, TypeInv, Ended, Pending
  <2> QED
    BY <2>1, <2>2, FS_EmptySet, NumberTypes DEF StreamInFile
<1>6. CASE UNCHANGED vars
  BY <1>6 DEF vars, StreamInFile, Pending
<1> QED
  BY <1>1, <1>3, <1>4, <1>5, <1>6 DEF Next

\* Numbers that stay, or become zero, stay near the lines.
LEMMA BoundedFrame ==
  ASSUME TypeInv, Bounded, [Next]_vars,
         watermark' \in {watermark, 0}, saved' = saved, tmp' \in {tmp, Missing, Empty},
         \A t \in Threads : doc'[t].watermark \in {doc[t].watermark, 0},
         \A t \in Threads : step'[t] \in {"compare", "advance", "value", "snapshot"} =>
           /\ step[t] \in {"compare", "advance", "value", "snapshot"}
           /\ got'[t] = got[t]
  PROVE  Bounded'
<1>1. Near(0)
  BY NumberTypes DEF Near
<1>2. \A n \in Nat : Near(n) => Near(n)'
  BY NearGrows
<1>3. \A t \in Threads : Near(doc'[t].watermark)
  BY <1>1 DEF Bounded
<1>4. (saved \in Document => saved.watermark \in Nat) /\ (tmp \in Document => tmp.watermark \in Nat)
  BY DEF Document
<1> QED
  BY <1>1, <1>2, <1>4, FileGrows, NumberTypes, FilesAssumption DEF Bounded, NearFile, Near

\* A step of a registration, a failure or the end of a process moves no number
\* away from the lines.
LEMMA RegistrationBounded ==
  ASSUME TypeInv, Bounded, [Next]_vars, NEW t \in Threads,
         \/ \E b \in Batches : Check(t, b)
         \/ Enter(t) \/ Number(t) \/ Keep(t) \/ WriteLine(t) \/ Observe(t)
         \/ RegressionError(t) \/ SnapshotFails(t) \/ RenameFails(t)
         \/ BeginCommit(t) \/ Compare(t) \/ OpenTmp(t)
  PROVE  Bounded'
<1> USE DEF Goes, Got, Ends, locals, memory, files, history
<1>0. /\ step \in [Threads -> Steps] /\ got \in [Threads -> Nat] /\ doc \in [Threads -> Document]
  BY DEF TypeInv, TypeOK
<1>1. UNCHANGED <<watermark, saved>> /\ tmp' \in {tmp, Empty}
  BY DEF Check, Enter, Number, Keep, WriteLine, Observe, RegressionError, SnapshotFails,
    RenameFails, BeginCommit, Compare, OpenTmp
<1>2. \A u \in Threads : doc'[u].watermark \in {doc[u].watermark, 0}
  <2>1. doc' = doc \/ doc' = [doc EXCEPT ![t] = Nothing]
    BY DEF Check, Enter, Number, Keep, WriteLine, Observe, RegressionError, SnapshotFails,
      RenameFails, BeginCommit, Compare, OpenTmp
  <2>2. Nothing.watermark = 0
    BY DEF Nothing
  <2> QED
    BY <1>0, <2>1, <2>2
<1>3. \A u \in Threads : step'[u] \in {"compare", "advance", "value", "snapshot"} =>
        step[u] \in {"compare", "advance", "value", "snapshot"} /\ got'[u] = got[u]
  BY <1>0 DEF Check, Enter, Number, Keep, WriteLine, Observe, RegressionError, SnapshotFails,
    RenameFails, BeginCommit, Compare, OpenTmp
<1> QED
  BY <1>1, <1>2, <1>3, BoundedFrame

\* A step of a commit that passes a number on keeps it near the lines.
LEMMA CommitBounded ==
  ASSUME TypeInv, Numbers, [Next]_vars, up, NEW t \in Threads,
         Target(t) \/ Advance(t) \/ Value(t) \/ TakeSnapshot(t) \/ WriteTmp(t) \/ Rename(t)
  PROVE  Bounded'
<1> USE DEF Goes, Got, locals, memory, files, history
<1>0. /\ step \in [Threads -> Steps] /\ got \in [Threads -> Nat] /\ doc \in [Threads -> Document]
      /\ watermark \in Nat /\ Len(stream) \in Nat
  BY NumberTypes DEF TypeInv, TypeOK
<1>1. \A n \in Nat : Near(n) => (Threads # {} => n < Len(journalFile') + Cardinality(Threads))
  BY FileGrows, NumberTypes DEF Near
<1>2. \A file : NearFile(file) =>
        (file \in Document =>
          (Threads # {} => file.watermark < Len(journalFile') + Cardinality(Threads)))
  BY <1>1 DEF NearFile, Document
<1>3. Bounded
  BY DEF Numbers
<1>4. CASE Target(t)
  <2>1. PICK target \in Named(t) :
          /\ step' = [step EXCEPT ![t] = "compare"] /\ got' = [got EXCEPT ![t] = target]
          /\ UNCHANGED <<watermark, doc, saved, tmp>>
    BY <1>4 DEF Target
  <2>2. target \in Nat /\ Near(target)
    <3>1. Near(Len(stream))
      BY <1>4, HeadIsNear DEF Target, Numbers
    <3>2. target \in Nat /\ target <= Len(stream)
      BY <1>0 DEF Named, StreamHead
    <3> QED
      BY <1>0, <3>1, <3>2, NumberTypes DEF Near
  <2> QED
    BY <1>0, <1>1, <1>2, <1>3, <2>1, <2>2 DEF Bounded, Near, NearFile, Document
<1>5. CASE Advance(t)
  <2>1. /\ step[t] = "advance" /\ step' = [step EXCEPT ![t] = "value"] /\ watermark' = got[t]
        /\ UNCHANGED <<got, doc, saved, tmp>>
    BY <1>5 DEF Advance
  <2> QED
    BY <1>0, <1>1, <1>2, <1>3, <2>1 DEF Bounded, Near, NearFile, Document
<1>6. CASE Value(t)
  <2>1. /\ step[t] = "value" /\ step' = [step EXCEPT ![t] = "snapshot"]
        /\ got' = [got EXCEPT ![t] = watermark]
        /\ UNCHANGED <<watermark, doc, saved, tmp>>
    BY <1>6 DEF Value
  <2> QED
    BY <1>0, <1>1, <1>2, <1>3, <2>1 DEF Bounded, Near, NearFile, Document
<1>7. CASE TakeSnapshot(t)
  <2>1. /\ step[t] = "snapshot" /\ step' = [step EXCEPT ![t] = "open"]
        /\ doc' = [doc EXCEPT ![t] = [watermark |-> got[t], state |-> projected]]
        /\ got' = [got EXCEPT ![t] = 0]
        /\ UNCHANGED <<watermark, saved, tmp>>
    BY <1>7 DEF TakeSnapshot
  <2> QED
    BY <1>0, <1>1, <1>2, <1>3, <2>1 DEF Bounded, Near, NearFile, Document
<1>8. CASE WriteTmp(t)
  <2>1. /\ step' = [step EXCEPT ![t] = "rename"]
        /\ UNCHANGED <<watermark, got, doc>>
    BY <1>8 DEF WriteTmp
  <2>2. \A content : Over(content, doc[t]) \subseteq {doc[t], Torn}
    BY DEF Over
  <2>3. saved' \in {saved, doc[t], Torn} /\ tmp' \in {tmp, doc[t], Torn}
    BY <1>8, <2>2 DEF WriteTmp
  <2>4. NearFile(doc[t]) /\ NearFile(Torn)
    BY <1>3, FilesAssumption DEF NearFile, Bounded
  <2>5. NearFile(saved)' /\ NearFile(tmp)'
    BY <1>2, <1>3, <2>3, <2>4 DEF NearFile, Near, Bounded
  <2> QED
    BY <1>0, <1>1, <1>3, <2>1, <2>5 DEF Bounded, Near, Document
<1>9. CASE Rename(t)
  <2>1. /\ step' = [step EXCEPT ![t] = "idle"] /\ doc' = [doc EXCEPT ![t] = Nothing]
        /\ saved' = tmp /\ tmp' = Missing /\ UNCHANGED <<watermark, got>>
    BY <1>9 DEF Rename
  <2>2. NearFile(saved)' /\ NearFile(tmp)'
    BY <1>2, <1>3, <2>1, FilesAssumption DEF NearFile, Near, Bounded
  <2>3. Near(0)
    BY NumberTypes DEF Near
  <2> QED
    BY <1>0, <1>1, <1>3, <2>1, <2>2, <2>3 DEF Bounded, Near, Document, Nothing
<1> QED
  BY <1>4, <1>5, <1>6, <1>7, <1>8, <1>9

\* A process that ends forgets its numbers; one that resumes has what the
\* checkpoint says.
LEMMA ProcessBounded ==
  ASSUME TypeInv, Bounded, [Next]_vars, Crash \/ Resume
  PROVE  Bounded'
<1>1. CASE Crash
  <2>1. /\ watermark' = 0 /\ saved' = saved /\ tmp' = tmp
        /\ \A t \in Threads : doc'[t].watermark = 0 /\ step'[t] = "idle"
    BY <1>1 DEF Crash, files, Nothing
  <2> QED
    BY <2>1, BoundedFrame
<1>2. CASE Resume
  <2> DEFINE document == IF saved = Missing \/ journalFile = <<>> THEN Nothing ELSE saved
  <2>1. document \in Document
    BY <1>2, ResumedDocument DEF Resume
  <2>2. Near(0)
    BY NumberTypes DEF Near
  <2>3. document.watermark \in Nat /\ Near(document.watermark)
    BY <2>1, <2>2 DEF Bounded, NearFile, Nothing, Document
  <2>4. /\ watermark' = document.watermark
        /\ UNCHANGED <<step, got, doc, saved, tmp, journalFile>>
    BY <1>2 DEF Resume, locals, files
  <2> HIDE DEF document
  <2> QED
    BY <2>3, <2>4 DEF Bounded, Near, NearFile
<1> QED
  BY <1>1, <1>2

\* Every step keeps the numbers.
LEMMA NumbersStep == ASSUME TypeInv, Numbers, [Next]_vars PROVE Numbers'
<1>1. StreamInFile'
  BY StreamInFileStep DEF Numbers
<1>2. CASE up /\ \E t \in Threads : Serve(t)
  BY <1>1, <1>2, RegistrationBounded, CommitBounded DEF Serve, Numbers
<1>3. CASE Crash \/ Resume
  BY <1>1, <1>3, ProcessBounded DEF Numbers
<1>4. CASE UNCHANGED vars
  BY <1>1, <1>4 DEF vars, locals, memory, files, history, Bounded, Near, NearFile, Numbers
<1> QED
  BY <1>2, <1>3, <1>4 DEF Next

\* The state of a checkpoint has its lines in the journal file, for any number of
\* threads, batches and crashes.
THEOREM CheckpointLinesExist == Spec => []CheckpointHasLines
<1>1. TypeInv /\ Contained => CheckpointHasLines
  BY DEF Contained, Vouched, CheckpointHasLines
<1> QED
  BY <1>1, ContainedAlways, PTL

\* How far a checkpoint may be ahead of the journal file, against watermark.py's
\* "considered durable": by fewer records than there are threads.
THEOREM WatermarkAheadByThreads ==
  Spec => [](saved \in Document /\ Threads # {} =>
               saved.watermark < Len(journalFile) + Cardinality(Threads))
<1>1. Init => TypeInv /\ Numbers
  BY TypeInit, NumbersInit
<1>2. TypeInv /\ Numbers /\ [Next]_vars => (TypeInv /\ Numbers)'
  BY TypeStep, NumbersStep
<1>3. Numbers => (saved \in Document /\ Threads # {} =>
                    saved.watermark < Len(journalFile) + Cardinality(Threads))
  BY DEF Numbers, Bounded, NearFile, Near
<1> QED
  BY <1>1, <1>2, <1>3, PTL DEF Spec
=============================================================================
