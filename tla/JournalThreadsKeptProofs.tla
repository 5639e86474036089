---------------------- MODULE JournalThreadsKeptProofs ----------------------
(***************************************************************************)
(* Proofs of the two promises JournalThreads makes to a client, for any    *)
(* threads, batches and bounds: a registration that was answered is kept,  *)
(* and the same batch is not registered twice.  The argument follows what  *)
(* a commit carries from the stream and the projection to the checkpoint,  *)
(* as long as no other commit runs beside it.                              *)
(***************************************************************************)
EXTENDS JournalThreadsProofs

\* A line of the file has the batch and a number up to the mark.
LineIn(file, b, mark) == \E i \in DOMAIN file : file[i].batch = b /\ file[i].seq <= mark

Keeps(file, b, state, mark) == b \in state /\ LineIn(file, b, mark)

\* At most one thread commits.
Alone == \A t, u \in Threads : step[t] \in Commits /\ step[u] \in Commits => t = u

\* It finds its temporary file as it left it.
OwnTmp ==
  \A t \in Threads :
    /\ step[t] = "write" => tmp = Empty /\ handle[t] = "tmp"
    /\ step[t] = "rename" => tmp = doc[t]

\* An answered registration is kept by the checkpoint, by the process and by
\* every commit under way.
AnswerKept(b) ==
  /\ saved \in Document /\ Keeps(journalFile, b, saved.state, saved.watermark)
  /\ up => Keeps(journalFile, b, projected, watermark)
  /\ \A t \in Threads :
       /\ step[t] \in {"advance", "snapshot"} => Keeps(journalFile, b, projected, got[t])
       /\ step[t] \in Saving => Keeps(journalFile, b, doc[t].state, doc[t].watermark)

\* How far a registration has come is kept by the thread that serves it.
OwnKept(t) ==
  /\ step[t] = "keep" => got[t] <= Len(stream) + 1
  /\ step[t] = "line" => got[t] <= Len(stream)
  /\ batch[t] # NoBatch =>
       /\ step[t] = "observe" => LineIn(journalFile, batch[t], Len(stream))
       /\ step[t] = "target" => Keeps(journalFile, batch[t], projected, Len(stream))
       /\ step[t] \in {"compare", "advance", "snapshot"} =>
            Keeps(journalFile, batch[t], projected, got[t])
       /\ step[t] \in {"value", "snapshot"} \cup Saving =>
            Keeps(journalFile, batch[t], projected, watermark)
       /\ step[t] \in Saving => Keeps(journalFile, batch[t], doc[t].state, doc[t].watermark)

Kept ==
  "commit" \notin races =>
    /\ Alone /\ OwnTmp
    /\ \A b \in Batches : answers[b] > 0 => AnswerKept(b)
    /\ \A t \in Threads : OwnKept(t)

\* A line that has the batch stays, and serves every later mark.
LEMMA LineStays ==
  ASSUME TypeInv, [Next]_vars
  PROVE  \A b : \A m, n \in Nat :
           LineIn(journalFile, b, m) /\ m <= n => LineIn(journalFile', b, n)
<1>0. journalFile \in Seq(Record)
  BY DEF TypeInv, TypeOK
<1>1. ASSUME NEW b, NEW m \in Nat, NEW n \in Nat, LineIn(journalFile, b, m), m <= n
      PROVE  LineIn(journalFile, b, n)
  <2>1. PICK i \in DOMAIN journalFile : journalFile[i].batch = b /\ journalFile[i].seq <= m
    BY <1>1 DEF LineIn
  <2>2. journalFile[i] \in Record
    BY <1>0
  <2>3. journalFile[i].seq \in Nat
    BY <2>2 DEF Record
  <2> QED
    BY <1>1, <2>1, <2>3 DEF LineIn
<1>2. ASSUME NEW r \in Record, NEW b, NEW n \in Nat, LineIn(journalFile, b, n)
      PROVE  LineIn(Append(journalFile, r), b, n)
  <2>1. PICK i \in DOMAIN journalFile : journalFile[i].batch = b /\ journalFile[i].seq <= n
    BY <1>2 DEF LineIn
  <2>2. i \in DOMAIN Append(journalFile, r) /\ Append(journalFile, r)[i] = journalFile[i]
    BY <1>0
  <2> QED
    BY <2>1, <2>2 DEF LineIn
<1>3. ASSUME NEW t \in Threads, WriteLine(t)
      PROVE  RecordOf(t) \in Record /\ journalFile' = Append(journalFile, RecordOf(t))
  BY <1>3, RecordOfType DEF WriteLine, Goes
<1>4. ASSUME NEW t \in Threads, Serve(t) PROVE WriteLine(t) \/ journalFile' = journalFile
  BY <1>4 DEF Serve, Check, Enter, Number, Keep, Observe, BeginCommit, Target, Compare,
    RegressionError, Advance, Value, TakeSnapshot, SnapshotFails, OpenTmp, WriteTmp, Rename,
    RenameFails, files
<1>5. Crash \/ Resume \/ UNCHANGED vars => journalFile' = journalFile
  BY DEF Crash, Resume, vars, files
<1>6. journalFile' = journalFile \/ \E r \in Record : journalFile' = Append(journalFile, r)
  BY <1>3, <1>4, <1>5 DEF Next
<1> QED
  BY <1>1, <1>2, <1>6

\* A request that has started has seen nothing yet.
LEMMA KeptInit == Init => Kept
  BY StepNames DEF Init, Kept, Alone, OwnTmp, OwnKept, AnswerKept, Commits, Saving

\* The types that the proof of each step needs.
LEMMA KeptTypes ==
  ASSUME TypeInv
  PROVE  /\ step \in [Threads -> Steps] /\ batch \in [Threads -> Batches \cup {NoBatch}]
         /\ got \in [Threads -> Nat] /\ doc \in [Threads -> Document]
         /\ handle \in [Threads -> {"tmp", "saved", "gone"}] /\ answers \in [Batches -> Nat]
         /\ watermark \in Nat /\ Len(stream) \in Nat
         /\ \A file \in Document : file.watermark \in Nat
  BY DEF TypeInv, TypeOK, Document

\* A step of one thread outside its commit.
Outside(t) ==
  /\ step' = [step EXCEPT ![t] = step'[t]] /\ step'[t] \notin Commits
  /\ \A u \in Threads \ {t} :
       batch'[u] = batch[u] /\ got'[u] = got[u] /\ doc'[u] = doc[u] /\ handle'[u] = handle[u]
  /\ UNCHANGED <<watermark, saved, tmp, answers>>
  /\ projected \subseteq projected'
  /\ Len(stream') \in Nat /\ Len(stream) <= Len(stream')

\* It keeps what the others, and the answers, rely on: only its own progress
\* is left to show.
LEMMA KeptOutside ==
  ASSUME TypeInv, [Next]_vars, Kept, "commit" \notin races, up, up', NEW t \in Threads,
         Outside(t), OwnKept(t)'
  PROVE  Kept'
<1> USE KeptTypes, StepNames, LineStays DEF Outside
<1>1. Alone' /\ OwnTmp'
  BY DEF Kept, Alone, OwnTmp, Commits, Saving
<1>2. ASSUME NEW b \in Batches, answers'[b] > 0 PROVE AnswerKept(b)'
  <2>1. AnswerKept(b)
    BY <1>2 DEF Kept
  <2> QED
    BY <2>1 DEF AnswerKept, Keeps, Commits, Saving
<1>3. ASSUME NEW u \in Threads \ {t} PROVE OwnKept(u)'
  <2>1. OwnKept(u)
    BY DEF Kept
  <2> QED
    BY <2>1 DEF OwnKept, Keeps, Commits, Saving
<1> QED
  BY <1>1, <1>2, <1>3 DEF Kept

\* A step of a registration keeps the answers.
LEMMA RegistrationKept ==
  ASSUME TypeInv, TypeInv', [Next]_vars, Kept, "commit" \notin races', up, NEW t \in Threads,
         \/ \E b \in Batches : Check(t, b)
         \/ Enter(t) \/ Number(t) \/ Keep(t) \/ WriteLine(t) \/ Observe(t) \/ BeginCommit(t)
  PROVE  Kept'
<1> USE DEF Goes, Got, locals, memory, files, history
<1>0. "commit" \notin races /\ up'
  BY DEF Check, Enter, Number, Keep, WriteLine, Observe, BeginCommit
<1>a. OwnKept(t)
  BY <1>0 DEF Kept
<1>b. Commits \cap {"idle", "assign", "number", "keep", "line", "observe", "target"} = {}
      /\ Saving \cap {"idle", "assign", "number", "keep", "line", "observe", "target"} = {}
  BY DEF Commits, Saving
<1>1. CASE \E b \in Batches : Check(t, b)
  <2>1. /\ step' = [step EXCEPT ![t] = "assign"] /\ batch' = [batch EXCEPT ![t] = batch'[t]]
        /\ UNCHANGED <<got, doc, handle, watermark, saved, tmp, answers, projected, stream>>
    BY <1>1, KeptTypes DEF Check
  <2>2. OwnKept(t)'
    BY <1>b, <2>1, KeptTypes DEF OwnKept
  <2>8. Outside(t)
    BY <1>b, <2>1, KeptTypes DEF Outside
  <2> QED
    BY <1>0, <2>8, <2>2, KeptOutside
<1>2. CASE Enter(t)
  <2>1. /\ step' = [step EXCEPT ![t] = "number"]
        /\ UNCHANGED <<batch, got, doc, handle, watermark, saved, tmp, answers, projected, stream>>
    BY <1>2 DEF Enter
  <2>2. OwnKept(t)'
    BY <1>b, <2>1, KeptTypes DEF OwnKept
  <2>8. Outside(t)
    BY <1>b, <2>1, KeptTypes DEF Outside
  <2> QED
    BY <1>0, <2>8, <2>2, KeptOutside
<1>3. CASE Number(t)
  <2>1. /\ step' = [step EXCEPT ![t] = "keep"] /\ got' = [got EXCEPT ![t] = Len(stream) + 1]
        /\ UNCHANGED <<batch, doc, handle, watermark, saved, tmp, answers, projected, stream>>
    BY <1>3 DEF Number, NextNumber
  <2>2. OwnKept(t)'
    BY <1>b, <2>1, KeptTypes DEF OwnKept
  <2>8. Outside(t)
    BY <1>b, <2>1, KeptTypes DEF Outside
  <2> QED
    BY <1>0, <2>8, <2>2, KeptOutside
<1>4. CASE Keep(t)
  <2>1. /\ step[t] = "keep" /\ step' = [step EXCEPT ![t] = "line"]
        /\ UNCHANGED <<batch, got, doc, handle, watermark, saved, tmp, answers, projected>>
        /\ Len(stream') = Len(stream) + 1
    BY <1>4, RecordOfType DEF Keep, TypeInv, TypeOK
  <2>2. OwnKept(t)'
    BY <1>a, <1>b, <2>1, KeptTypes DEF OwnKept
  <2>3. Len(stream) <= Len(stream') /\ Len(stream') \in Nat
    BY <2>1, KeptTypes
  <2>8. Outside(t)
    BY <1>b, <2>1, <2>3, KeptTypes DEF Outside
  <2> QED
    BY <1>0, <2>8, <2>2, KeptOutside
<1>5. CASE WriteLine(t)
  <2>1. /\ step[t] = "line" /\ step' = [step EXCEPT ![t] = "observe"]
        /\ UNCHANGED <<batch, doc, handle, watermark, saved, tmp, answers, projected, stream>>
        /\ \A u \in Threads \ {t} : got'[u] = got[u]
        /\ RecordOf(t) \in Record /\ journalFile' = Append(journalFile, RecordOf(t))
    BY <1>5, RecordOfType, KeptTypes DEF WriteLine
  <2>2. journalFile \in Seq(Record)
    BY DEF TypeInv, TypeOK
  <2>3. /\ Len(journalFile) + 1 \in DOMAIN journalFile'
        /\ journalFile'[Len(journalFile) + 1] = RecordOf(t)
    BY <2>1, <2>2
  <2>4. LineIn(journalFile', batch[t], Len(stream))
    BY <1>a, <2>1, <2>3 DEF OwnKept, LineIn, RecordOf
  <2>5. OwnKept(t)'
    BY <1>b, <2>1, <2>4, KeptTypes DEF OwnKept
  <2>8. Outside(t)
    BY <1>b, <2>1, KeptTypes DEF Outside
  <2> QED
    BY <1>0, <2>8, <2>5, KeptOutside
<1>6. CASE Observe(t)
  <2>1. /\ step[t] = "observe" /\ step' = [step EXCEPT ![t] = "target"]
        /\ UNCHANGED <<batch, got, doc, handle, watermark, saved, tmp, answers, stream, journalFile>>
        /\ projected' = projected \cup {batch[t]}
    BY <1>6 DEF Observe
  <2>2. OwnKept(t)'
    BY <1>a, <1>b, <2>1, KeptTypes DEF OwnKept, Keeps
  <2>8. Outside(t)
    BY <1>b, <2>1, KeptTypes DEF Outside
  <2> QED
    BY <1>0, <2>8, <2>2, KeptOutside
<1>7. CASE BeginCommit(t)
  <2>1. /\ batch[t] = NoBatch /\ step' = [step EXCEPT ![t] = "target"]
        /\ UNCHANGED <<batch, got, doc, handle, watermark, saved, tmp, answers, projected, stream>>
    BY <1>7 DEF BeginCommit, TypeInv, Known
  <2>2. OwnKept(t)'
    BY <1>b, <2>1, KeptTypes DEF OwnKept
  <2>8. Outside(t)
    BY <1>b, <2>1, KeptTypes DEF Outside
  <2> QED
    BY <1>0, <2>8, <2>2, KeptOutside
<1> QED
  BY <1>1, <1>2, <1>3, <1>4, <1>5, <1>6, <1>7

\* A request that fails takes nothing back.
LEMMA FailureKept ==
  ASSUME TypeInv, [Next]_vars, Kept, "commit" \notin races', up, NEW t \in Threads,
         RegressionError(t) \/ SnapshotFails(t) \/ RenameFails(t)
  PROVE  Kept'
<1>1. /\ step' = [step EXCEPT ![t] = "idle"] /\ batch' = [batch EXCEPT ![t] = NoBatch]
      /\ got' = [got EXCEPT ![t] = 0] /\ doc' = [doc EXCEPT ![t] = Nothing]
      /\ handle' = [handle EXCEPT ![t] = "gone"]
      /\ UNCHANGED <<up, watermark, saved, tmp, answers, projected, stream, races>>
  BY DEF RegressionError, SnapshotFails, RenameFails, Ends, memory, files, history
<1>2. "idle" \notin Commits /\ "idle" \notin Saving
  BY DEF Commits, Saving
<1>3. OwnKept(t)'
  BY <1>1, <1>2, KeptTypes DEF OwnKept
<1>4. Outside(t)
  BY <1>1, <1>2, KeptTypes DEF Outside
<1> QED
  BY <1>1, <1>3, <1>4, KeptOutside

\* A step of the one thread that commits.
Inside(t) ==
  /\ step' = [step EXCEPT ![t] = step'[t]]
  /\ \A u \in Threads \ {t} :
       /\ batch'[u] = batch[u] /\ got'[u] = got[u] /\ doc'[u] = doc[u]
       /\ step[u] \notin Commits
  /\ UNCHANGED <<up, projected, stream, journalFile>>

\* What the answers rely on while only thread t commits.
CommitKept(t) ==
  /\ OwnKept(t)
  /\ step[t] = "write" => tmp = Empty /\ handle[t] = "tmp"
  /\ step[t] = "rename" => tmp = doc[t]
  /\ \A b \in Batches : answers[b] > 0 =>
       /\ saved \in Document /\ Keeps(journalFile, b, saved.state, saved.watermark)
       /\ Keeps(journalFile, b, projected, watermark)
       /\ step[t] \in {"advance", "snapshot"} => Keeps(journalFile, b, projected, got[t])
       /\ step[t] \in Saving => Keeps(journalFile, b, doc[t].state, doc[t].watermark)

\* The other threads keep their progress.
LEMMA KeptInside ==
  ASSUME TypeInv, Kept, "commit" \notin races, up, NEW t \in Threads, Inside(t), CommitKept(t)'
  PROVE  Kept'
<1>0. /\ step \in [Threads -> Steps]
      /\ \A u \in Threads \ {t} : step'[u] = step[u] /\ step[u] \notin Commits
  BY KeptTypes DEF Inside
<1>1. Alone' /\ OwnTmp'
  BY <1>0 DEF Alone, OwnTmp, CommitKept, Commits, Saving
<1>2. ASSUME NEW b \in Batches, answers'[b] > 0 PROVE AnswerKept(b)'
  BY <1>0, <1>2 DEF AnswerKept, CommitKept, Commits, Saving
<1>3. ASSUME NEW u \in Threads \ {t} PROVE OwnKept(u)'
  <2>1. OwnKept(u)
    BY DEF Kept
  <2> QED
    BY <1>0, <2>1 DEF OwnKept, Inside, Commits, Saving
<1> QED
  BY <1>1, <1>2, <1>3 DEF Kept, CommitKept

\* A line that serves a mark serves a later one.
LEMMA LineServes ==
  ASSUME TypeInv
  PROVE  \A b : \A m, n \in Nat :
           LineIn(journalFile, b, m) /\ m <= n => LineIn(journalFile, b, n)
<1>1. \A i \in DOMAIN journalFile : journalFile[i].seq \in Nat
  <2>1. \A i \in DOMAIN journalFile : journalFile[i] \in Record
    BY DEF TypeInv, TypeOK
  <2> QED
    BY <2>1 DEF Record
<1> QED
  BY <1>1 DEF LineIn

\* A step of a commit carries the answers on.
LEMMA CommitStepKept ==
  ASSUME TypeInv, [Next]_vars, Kept, "commit" \notin races', up, NEW t \in Threads,
         \/ Target(t) \/ Compare(t) \/ Advance(t) \/ Value(t)
         \/ TakeSnapshot(t) \/ OpenTmp(t) \/ WriteTmp(t) \/ Rename(t)
  PROVE  Kept'
<1> USE DEF Goes, Got, locals, memory, files, history
<1>0. "commit" \notin races
  BY DEF Target, Compare, Advance, Value, TakeSnapshot, OpenTmp, WriteTmp, Rename
<1>a. CommitKept(t)
  BY <1>0 DEF Kept, OwnTmp, AnswerKept, CommitKept
<1>b. /\ {"compare", "advance", "value", "snapshot", "open", "write", "rename"} = Commits
      /\ {"open", "write", "rename"} = Saving
  BY DEF Commits, Saving
<1>c. step[t] = "target" \/ step[t] \in Commits
  BY <1>b DEF Target, Compare, Advance, Value, TakeSnapshot, OpenTmp, WriteTmp, Rename
<1>d. \A u \in Threads \ {t} : step[u] \notin Commits
  <2>1. CASE step[t] \in Commits
    BY <1>0, <2>1 DEF Kept, Alone
  <2>2. CASE step[t] = "target"
    BY <1>b, <2>2 DEF Target, Compare, Advance, Value, TakeSnapshot, OpenTmp, WriteTmp, Rename
  <2> QED
    BY <1>c, <2>1, <2>2
<1>e. Inside(t)
  BY <1>d, KeptTypes
  DEF Inside, Target, Compare, Advance, Value, TakeSnapshot, OpenTmp, WriteTmp, Rename
<1>f. step' = [step EXCEPT ![t] = step'[t]] /\ UNCHANGED <<projected, stream, journalFile>>
  BY <1>e DEF Inside
<1> SUFFICES CommitKept(t)'
  BY <1>0, <1>e, KeptInside
<1>1. CASE Target(t)
  <2>1. /\ step[t] = "target" /\ step'[t] = "compare"
        /\ batch[t] # NoBatch => got'[t] = Len(stream)
        /\ UNCHANGED <<batch, watermark, saved, tmp, answers>>
    BY <1>1, KeptTypes DEF Target, Named, StreamHead
  <2> QED
    BY <1>a, <1>b, <1>f, <2>1 DEF CommitKept, OwnKept
<1>2. CASE Compare(t)
  <2>1. /\ step[t] = "compare" /\ step'[t] = "advance" /\ got[t] >= watermark
        /\ UNCHANGED <<batch, got, doc, watermark, saved, tmp, answers>>
    BY <1>2, KeptTypes DEF Compare
  <2> QED
    BY <1>a, <1>b, <1>f, <2>1, LineServes, KeptTypes DEF CommitKept, OwnKept, Keeps
<1>3. CASE Advance(t)
  <2>1. /\ step[t] = "advance" /\ step'[t] = "value" /\ watermark' = got[t]
        /\ UNCHANGED <<batch, got, doc, saved, tmp, answers>>
    BY <1>3, KeptTypes DEF Advance
  <2> QED
    BY <1>a, <1>b, <1>f, <2>1 DEF CommitKept, OwnKept
<1>4. CASE Value(t)
  <2>1. /\ step[t] = "value" /\ step'[t] = "snapshot" /\ got'[t] = watermark
        /\ UNCHANGED <<batch, doc, watermark, saved, tmp, answers>>
    BY <1>4, KeptTypes DEF Value
  <2> QED
    BY <1>a, <1>b, <1>f, <2>1 DEF CommitKept, OwnKept
<1>5. CASE TakeSnapshot(t)
  <2>1. /\ step[t] = "snapshot" /\ step'[t] = "open"
        /\ doc'[t] = [watermark |-> got[t], state |-> projected]
        /\ UNCHANGED <<batch, watermark, saved, tmp, answers>>
    BY <1>5, KeptTypes DEF TakeSnapshot
  <2> QED
    BY <1>a, <1>b, <1>f, <2>1 DEF CommitKept, OwnKept
<1>6. CASE OpenTmp(t)
  <2>1. /\ step[t] = "open" /\ step'[t] = "write" /\ tmp' = Empty /\ handle'[t] = "tmp"
        /\ UNCHANGED <<batch, got, doc, watermark, saved, answers>>
    BY <1>6, KeptTypes DEF OpenTmp
  <2> QED
    BY <1>a, <1>b, <1>f, <2>1 DEF CommitKept, OwnKept
<1>7. CASE WriteTmp(t)
  <2>1. /\ step[t] = "write" /\ step'[t] = "rename"
        /\ UNCHANGED <<batch, got, doc, watermark, answers>>
    BY <1>7, KeptTypes DEF WriteTmp
  <2>2. tmp' = doc[t] /\ saved' = saved
    BY <1>7, <1>a, <2>1 DEF WriteTmp, CommitKept, Over
  <2> QED
    BY <1>a, <1>b, <1>f, <2>1, <2>2 DEF CommitKept, OwnKept
<1>8. CASE Rename(t)
  <2>1. /\ step[t] = "rename" /\ step'[t] = "idle" /\ batch'[t] = NoBatch
        /\ saved' = tmp /\ UNCHANGED watermark
        /\ answers' = IF batch[t] = NoBatch THEN answers ELSE [answers EXCEPT ![batch[t]] = @ + 1]
    BY <1>8, KeptTypes DEF Rename
  <2>2. tmp = doc[t] /\ doc[t] \in Document
    BY <1>a, <2>1, KeptTypes DEF CommitKept
  <2>3. ASSUME NEW b \in Batches, answers'[b] > 0
        PROVE  Keeps(journalFile, b, doc[t].state, doc[t].watermark)
               /\ Keeps(journalFile, b, projected, watermark)
    <3>1. answers[b] > 0 \/ b = batch[t]
      BY <2>1, <2>3, KeptTypes
    <3> QED
      BY <1>a, <1>b, <2>1, <3>1, BatchesAssumption DEF CommitKept, OwnKept
  <2> QED
    BY <1>b, <1>f, <2>1, <2>2, <2>3 DEF CommitKept, OwnKept
<1> QED
  BY <1>1, <1>2, <1>3, <1>4, <1>5, <1>6, <1>7, <1>8

\* A process that ends leaves the checkpoint; one that resumes starts from it.
LEMMA ProcessKept ==
  ASSUME TypeInv, Kept, Crash \/ Resume
  PROVE  Kept'
<1> SUFFICES ASSUME "commit" \notin races' PROVE Kept'
  BY DEF Kept
<1> USE DEF locals, files, history
<1>0. "commit" \notin races
  BY DEF Crash, Resume
<1>1. \A t \in Threads : step'[t] = "idle"
  BY DEF Crash, Resume, TypeInv, Ended
<1>2. "idle" \notin Commits /\ "idle" \notin Saving
  BY DEF Commits, Saving
<1>3. Alone' /\ OwnTmp' /\ \A t \in Threads : OwnKept(t)'
  BY <1>1, <1>2 DEF Alone, OwnTmp, OwnKept
<1>4. ASSUME NEW b \in Batches, answers'[b] > 0 PROVE AnswerKept(b)'
  <2>1. AnswerKept(b) /\ UNCHANGED <<saved, journalFile>>
    BY <1>0, <1>4 DEF Crash, Resume, Kept
  <2>2. CASE Crash
    BY <1>1, <1>2, <2>1, <2>2 DEF Crash, AnswerKept
  <2>3. CASE Resume
    <3>1. saved # Missing /\ journalFile # <<>>
      BY <2>1, FilesAssumption DEF AnswerKept, Keeps, LineIn
    <3>2. watermark' = saved.watermark /\ projected' = saved.state
      BY <2>3, <3>1 DEF Resume
    <3> QED
      BY <1>1, <1>2, <2>1, <3>2 DEF AnswerKept
  <2> QED
    BY <2>2, <2>3
<1> QED
  BY <1>3, <1>4 DEF Kept

\* Every step keeps the answers.
LEMMA KeptStep == ASSUME TypeInv, Kept, [Next]_vars PROVE Kept'
<1> SUFFICES ASSUME "commit" \notin races' PROVE Kept'
  BY DEF Kept
<1>0. TypeInv'
  BY TypeStep
<1>1. CASE up /\ \E t \in Threads : Serve(t)
  BY <1>0, <1>1, RegistrationKept, CommitStepKept, FailureKept DEF Serve
<1>2. CASE Crash \/ Resume
  BY <1>2, ProcessKept
<1>3. CASE UNCHANGED vars
  BY <1>3 DEF vars, locals, memory, files, history, Kept, Alone, OwnTmp, OwnKept, AnswerKept
<1> QED
  BY <1>1, <1>2, <1>3 DEF Next

\* An answered registration has its line for good; and while no two commits
\* overlapped, the checkpoint is whole and covers it, for any number of
\* threads, records and process ends.
THEOREM AnswersAreKept == Spec => []AnsweredIsKept
<1>1. Init => TypeInv /\ Contained /\ Kept
  BY TypeInit, ContainedInit, KeptInit
<1>2. TypeInv /\ Contained /\ Kept /\ [Next]_vars => (TypeInv /\ Contained /\ Kept)'
  BY TypeStep, ContainedStep, KeptStep
<1>3. TypeInv /\ Contained /\ Kept => AnsweredIsKept
  BY DEF Contained, Kept, AnswerKept, Keeps, LineIn, AnsweredIsKept
<1> QED
  BY <1>1, <1>2, <1>3, PTL DEF Spec

-----------------------------------------------------------------------------
(* The same batch is not registered twice.                                 *)

\* The registry tells a second registration off: no two of the same batch
\* overlapped, and no restart follows overlapping commits.
Guarded == "batch" \notin races /\ ("commit" \notin races \/ crashes = 0)

\* A thread past the entry has its batch in the registry.
Entered ==
  \A t \in Threads :
    step[t] \notin {"idle", "assign"} /\ batch[t] # NoBatch => batch[t] \in registry

\* No two threads register the same batch, and none registers an answered one.
Alike ==
  /\ \A t, u \in Threads : batch[t] = batch[u] /\ batch[t] # NoBatch => t = u
  /\ \A b \in Batches :
       /\ answers[b] <= 1
       /\ answers[b] > 0 => (up => b \in registry) /\ \A t \in Threads : batch[t] # b

Once == (~ up => crashes > 0) /\ Entered /\ (Guarded => Alike)

\* The types that the proof of each step needs.
LEMMA OnceTypes ==
  ASSUME TypeInv
  PROVE  /\ step \in [Threads -> Steps] /\ batch \in [Threads -> Batches \cup {NoBatch}]
         /\ answers \in [Batches -> Nat] /\ crashes \in Nat /\ NoBatch \notin Batches
  BY BatchesAssumption DEF TypeInv, TypeOK

\* Nothing is registered and nobody registers.
LEMMA OnceInit == Init => Once
  BY BatchesAssumption DEF Init, Once, Entered, Alike

\* A step that registers no other batch and gives no answer keeps the registry.
LEMMA OnceFrame ==
  ASSUME TypeInv, Once, up, UNCHANGED <<up, answers, crashes>>, races \subseteq races',
         registry \subseteq registry',
         \A t \in Threads : batch'[t] \in {batch[t], NoBatch},
         \A t \in Threads : step'[t] \notin {"idle", "assign"} /\ batch'[t] # NoBatch =>
           step[t] \notin {"idle", "assign"} \/ batch[t] \in registry'
  PROVE  Once'
<1>1. Guarded' => Guarded
  BY DEF Guarded
<1>2. Entered'
  BY DEF Once, Entered
<1> QED
  BY <1>1, <1>2, OnceTypes DEF Once, Alike

\* A registration passes the test when nobody else registers the batch.
LEMMA CheckOnce ==
  ASSUME TypeInv, Once, up, NEW t \in Threads, NEW b \in Batches, Check(t, b)
  PROVE  Once'
<1>1. /\ b \notin registry /\ step[t] = "idle"
      /\ step' = [step EXCEPT ![t] = "assign"] /\ batch' = [batch EXCEPT ![t] = b]
      /\ UNCHANGED <<up, registry, answers, crashes>> /\ races \subseteq races'
      /\ (\E u \in Threads : step[u] = "assign" /\ batch[u] = b) => "batch" \in races'
  BY DEF Check, Registrable, Goes, memory
<1>2. Entered'
  BY <1>1, OnceTypes DEF Once, Entered
<1>3. ASSUME Guarded' PROVE Alike'
  <2>1. Guarded
    BY <1>1, <1>3 DEF Guarded
  <2>2. \A u \in Threads : batch[u] # b
    BY <1>1, <1>3, OnceTypes DEF Guarded, Once, Entered, TypeInv, Known
  <2>3. answers[b] = 0
    BY <1>1, <2>1, OnceTypes DEF Once, Alike
  <2> QED
    BY <1>1, <2>1, <2>2, <2>3, OnceTypes DEF Once, Alike
<1> QED
  BY <1>1, <1>2, <1>3 DEF Once

\* An answer is given once, and no other thread registers the same batch.
LEMMA RenameOnce ==
  ASSUME TypeInv, Once, up, NEW t \in Threads, Rename(t)
  PROVE  Once'
<1>1. /\ step[t] = "rename"
      /\ step' = [step EXCEPT ![t] = "idle"] /\ batch' = [batch EXCEPT ![t] = NoBatch]
      /\ answers' = IF batch[t] = NoBatch THEN answers ELSE [answers EXCEPT ![batch[t]] = @ + 1]
      /\ UNCHANGED <<up, registry, crashes, races>>
  BY DEF Rename, memory
<1>2. Entered'
  BY <1>1, OnceTypes DEF Once, Entered
<1>3. ASSUME Guarded PROVE Alike'
  <2>1. Alike
    BY <1>3 DEF Once
  <2>2. \A u, v \in Threads : batch'[u] = batch'[v] /\ batch'[u] # NoBatch => u = v
    BY <1>1, <2>1, OnceTypes DEF Alike
  <2>3. CASE batch[t] = NoBatch
    BY <1>1, <2>1, <2>2, <2>3, OnceTypes DEF Alike
  <2>4. CASE batch[t] # NoBatch
    <3>1. /\ batch[t] \in Batches /\ batch[t] \in registry /\ answers[batch[t]] = 0
          /\ \A u \in Threads \ {t} : batch[u] # batch[t]
      BY <1>1, <2>1, <2>4, OnceTypes DEF Alike, Once, Entered
    <3>2. answers' = [answers EXCEPT ![batch[t]] = 1]
      BY <1>1, <2>4, <3>1, OnceTypes
    <3> QED
      BY <1>1, <2>1, <2>2, <3>1, <3>2, OnceTypes DEF Alike
  <2> QED
    BY <2>3, <2>4
<1>4. Guarded' => Guarded
  BY <1>1 DEF Guarded
<1> QED
  BY <1>1, <1>2, <1>3, <1>4 DEF Once

\* The other steps of a thread register nothing new and answer nothing.
LEMMA OtherOnce ==
  ASSUME TypeInv, Once, up, NEW t \in Threads,
         \/ Enter(t) \/ Number(t) \/ Keep(t) \/ WriteLine(t) \/ Observe(t)
         \/ BeginCommit(t) \/ Target(t) \/ Compare(t) \/ RegressionError(t)
         \/ Advance(t) \/ Value(t) \/ TakeSnapshot(t) \/ SnapshotFails(t)
         \/ OpenTmp(t) \/ WriteTmp(t) \/ RenameFails(t)
  PROVE  Once'
<1> USE DEF Goes, Got, Ends, locals, memory, files, history
<1> USE DEF Enter, Number, Keep, WriteLine, Observe, BeginCommit, Target, Compare,
  RegressionError, Advance, Value, TakeSnapshot, SnapshotFails, OpenTmp, WriteTmp, RenameFails
<1>1. UNCHANGED <<up, answers, crashes>> /\ races \subseteq races' /\ registry \subseteq registry'
  OBVIOUS
<1>2. \A u \in Threads : batch'[u] \in {batch[u], NoBatch}
  BY OnceTypes
<1>3. step[t] = "idle" => batch[t] = NoBatch
  BY DEF TypeInv, Known
<1>4. \A u \in Threads : step'[u] \notin {"idle", "assign"} /\ batch'[u] # NoBatch =>
        step[u] \notin {"idle", "assign"} \/ batch[u] \in registry'
  <2>1. \A u \in Threads \ {t} : step'[u] = step[u]
    BY OnceTypes
  <2>2. step[t] = "assign" => batch[t] \in registry'
    OBVIOUS
  <2>3. step[t] = "idle" => batch'[t] = NoBatch
    BY <1>3, OnceTypes
  <2> HIDE DEF Enter, Number, Keep, WriteLine, Observe, BeginCommit, Target, Compare,
    RegressionError, Advance, Value, TakeSnapshot, SnapshotFails, OpenTmp, WriteTmp, RenameFails
  <2> QED
    BY <1>2, <2>1, <2>2, <2>3
<1> HIDE DEF Enter, Number, Keep, WriteLine, Observe, BeginCommit, Target, Compare,
  RegressionError, Advance, Value, TakeSnapshot, SnapshotFails, OpenTmp, WriteTmp, RenameFails
<1> QED
  BY <1>1, <1>2, <1>4, OnceFrame

\* A resumed process has every answered batch in its registry.
LEMMA ProcessOnce ==
  ASSUME TypeInv, Kept, Once, Crash \/ Resume
  PROVE  Once'
<1>1. /\ \A t \in Threads : step'[t] = "idle" /\ batch'[t] = NoBatch
      /\ UNCHANGED <<answers, races>> /\ crashes' >= crashes /\ crashes' > 0
  BY OnceTypes DEF Crash, Resume, TypeInv, Ended, Known, Once, locals, history
<1>2. Guarded' => Guarded /\ "commit" \notin races
  BY <1>1, OnceTypes DEF Guarded
<1>3. ASSUME Guarded', NEW b \in Batches, answers[b] > 0, up' PROVE b \in registry'
  <2>1. Resume /\ AnswerKept(b)
    BY <1>2, <1>3 DEF Kept, Crash
  <2>2. saved # Missing /\ journalFile # <<>> /\ b \in saved.state
    BY <2>1, FilesAssumption DEF AnswerKept, Keeps, LineIn
  <2> QED
    BY <2>1, <2>2 DEF Resume, Restored
<1>4. Entered' /\ (Guarded' => Alike')
  BY <1>1, <1>2, <1>3, OnceTypes DEF Entered, Alike, Once
<1> QED
  BY <1>1, <1>4 DEF Once

\* Every step keeps the registrations apart.
LEMMA OnceStep == ASSUME TypeInv, Kept, Once, [Next]_vars PROVE Once'
<1>1. CASE up /\ \E t \in Threads : Serve(t)
  BY <1>1, CheckOnce, RenameOnce, OtherOnce DEF Serve
<1>2. CASE Crash \/ Resume
  BY <1>2, ProcessOnce
<1>3. CASE UNCHANGED vars
  BY <1>3 DEF vars, locals, memory, files, history, Once, Entered, Guarded, Alike
<1> QED
  BY <1>1, <1>2, <1>3 DEF Next

\* The only ways past batch.py's "exactly once": a batch is registered once
\* unless two registrations of it overlapped or a restart followed overlapping
\* commits; no retry, crash or restart alone registers it again.
THEOREM BatchRegisteredOnce == Spec => [](Guarded => RegisteredOnce)
<1>1. Init => TypeInv /\ Kept /\ Once
  BY TypeInit, KeptInit, OnceInit
<1>2. TypeInv /\ Kept /\ Once /\ [Next]_vars => (TypeInv /\ Kept /\ Once)'
  BY TypeStep, KeptStep, OnceStep
<1>3. TypeInv /\ Once => (Guarded => RegisteredOnce)
  BY DEF Once, Alike, RegisteredOnce
<1> QED
  BY <1>1, <1>2, <1>3, PTL DEF Spec
=============================================================================
