---------------------------- MODULE JournalProofs ----------------------------
(***************************************************************************)
(* Proofs about Journal, for any kinds, values and bounds.  Two layers:    *)
(* as long as no line is lost (WritesHold) the stream is the file, whatever *)
(* happens to checkpoints; when no checkpoint is lost either (SavesHold)   *)
(* the watermark in memory and the one in the checkpoint keep step, and    *)
(* the files implement CommittedHistory.  Every start resumes.             *)
(***************************************************************************)
EXTENDS Journal, TLAPS, SequenceTheorems

WritesHold == "append" \notin Faults /\ Starts = {"resume"}
SavesHold  == Faults = {} /\ Starts = {"resume"}

-----------------------------------------------------------------------------
(* Operators.                                                              *)

\* A file that is numbered by position is not changed by the sort of a load.
LEMMA LoadKeepsNumberedFile ==
  ASSUME NEW records, \A i \in DOMAIN records : records[i].seq = i,
         DOMAIN records \subseteq Nat
  PROVE  BySeq(records) = records
  BY DEF BySeq

\* The record an append creates is a record and carries its position.
LEMMA NextRecordType ==
  ASSUME TypeOK,
         NEW kind, NEW payload,
         \/ kind \in Kinds /\ payload \in Values
         \/ kind = Tombstone /\ payload \in Nat \ {0}
  PROVE  /\ NextRecord(kind, payload) \in Record
         /\ NextRecord(kind, payload).seq = Len(stream) + 1
         /\ NextRecord(kind, payload).kind = kind
         /\ NextRecord(kind, payload).payload = payload
  BY DEF TypeOK, NextRecord, Record

IsSeq(records) == \E S : records \in Seq(S)

\* The places of a sequence.
LEMMA SeqDomain == ASSUME NEW records, IsSeq(records) PROVE DOMAIN records = 1 .. Len(records)
  BY DEF IsSeq

\* A sequence that is loaded or extended is one again.
LEMMA SeqsStay ==
  ASSUME NEW records, IsSeq(records)
  PROVE  /\ Len(records) \in Nat
         /\ IsSeq(BySeq(records))
         /\ \A record : /\ IsSeq(Append(records, record))
                        /\ Len(Append(records, record)) = Len(records) + 1
                        /\ Append(records, record)[Len(records) + 1] = record
                        /\ \A i \in 1 .. Len(records) :
                             Append(records, record)[i] = records[i]
<1>1. PICK S : records \in Seq(S)
  BY DEF IsSeq
<1>2. IsSeq(BySeq(records))
  <2>1. CASE BySeq(records) = records
    BY <2>1
  <2>2. CASE BySeq(records) # records
    <3> DEFINE order == SetToSortSeq(DOMAIN records, LAMBDA i, j :
                          \/ records[i].seq < records[j].seq
                          \/ records[i].seq = records[j].seq /\ i <= j)
               sorted == [i \in DOMAIN records |-> records[order[i]]]
    <3>1. BySeq(records) = sorted
      BY <2>2 DEF BySeq
    <3> HIDE DEF order
    <3>2. DOMAIN records = 1 .. Len(records) /\ Len(records) \in Nat
      BY <1>1
    <3>3. sorted \in Seq({sorted[i] : i \in DOMAIN records})
      BY <3>2
    <3> QED
      BY <3>1, <3>3 DEF IsSeq
  <2> QED
    BY <2>1, <2>2
<1>3. ASSUME NEW record
      PROVE  /\ IsSeq(Append(records, record))
             /\ Len(Append(records, record)) = Len(records) + 1
             /\ Append(records, record)[Len(records) + 1] = record
             /\ \A i \in 1 .. Len(records) : Append(records, record)[i] = records[i]
  <2>1. records \in Seq(S \cup {record}) /\ record \in S \cup {record}
    BY <1>1
  <2>2. Append(records, record) \in Seq(S \cup {record})
    BY <2>1
  <2> QED
    BY <2>1, <2>2 DEF IsSeq
<1> QED
  BY <1>1, <1>2, <1>3

\* The line of a record adds its target if it is a tombstone, and no other.
LEMMA TargetsOfLine ==
  ASSUME NEW records, IsSeq(records), NEW record
  PROVE  Targets(Append(records, record)) =
           IF IsTombstone(record) THEN Targets(records) \cup {record.payload}
                                  ELSE Targets(records)
<1> DEFINE longer == Append(records, record)
<1>1. /\ DOMAIN records = 1 .. Len(records) /\ DOMAIN longer = 1 .. (Len(records) + 1)
      /\ \A i \in 1 .. Len(records) : longer[i] = records[i]
      /\ longer[Len(records) + 1] = record
      /\ Len(records) \in Nat
  <2>1. IsSeq(longer)
    BY SeqsStay
  <2>2. DOMAIN records = 1 .. Len(records) /\ DOMAIN longer = 1 .. Len(longer)
    BY <2>1, SeqDomain
  <2> QED
    BY <2>2, SeqsStay
<1>2. Targets(records) =
        {records[i].payload : i \in {j \in 1 .. Len(records) : IsTombstone(records[j])}}
  BY <1>1 DEF Targets
<1>3. Targets(longer) =
        {longer[i].payload : i \in {j \in 1 .. (Len(records) + 1) : IsTombstone(longer[j])}}
  BY <1>1 DEF Targets
<1> HIDE DEF longer
<1>4. Targets(longer) =
        IF IsTombstone(record) THEN Targets(records) \cup {record.payload}
                               ELSE Targets(records)
  BY <1>1, <1>2, <1>3
<1> QED
  BY <1>4 DEF longer

\* The same for records of the journal.
LEMMA TargetsOfAppend ==
  ASSUME NEW records \in Seq(Record), NEW record \in Record
  PROVE  Targets(Append(records, record)) =
           IF IsTombstone(record) THEN Targets(records) \cup {record.payload}
                                  ELSE Targets(records)
  BY TargetsOfLine DEF IsSeq

-----------------------------------------------------------------------------
(* Whatever is lost: any write may raise, and starts may be blank.         *)

OpenInv ==
  /\ IsSeq(stream)
  /\ IsSeq(journalFile)
  /\ watermark \in Nat /\ checkpoint.watermark \in Nat
  /\ phase = "rolledback" => watermark = Len(stream)

\* It holds before anything is written.
LEMMA OpenInvInit == Init => OpenInv
<1>1. <<>> \in Seq({})
  OBVIOUS
<1> QED
  BY <1>1 DEF Init, OpenInv, IsSeq

\* A commit moves the watermark to a number that is not below it.
LEMMA OpenInvSave ==
  ASSUME OpenInv, NEW target \in Nat, SaveCheckpoint(target), phase' # "rolledback",
         UNCHANGED <<stream, journalFile>>
  PROVE  OpenInv'
  BY DEF OpenInv, SaveCheckpoint

\* Every step keeps it.
LEMMA OpenInvStep == ASSUME OpenInv, [Next]_vars PROVE OpenInv'
<1> USE SeqsStay DEF OpenInv
<1>1. ASSUME NEW kind \in Kinds, NEW value \in Values, AppendRecord(kind, value)
      PROVE  OpenInv'
  BY <1>1 DEF AppendRecord, WriteLine
<1>2. ASSUME NEW target \in 0 .. MaxRecords, Commit(target)
      PROVE  OpenInv'
  BY <1>2, BoundsAssumption, OpenInvSave DEF Commit
<1>3. ASSUME NEW seq \in 1 .. MaxRecords, Rollback(seq)
      PROVE  OpenInv'
  BY <1>3 DEF Rollback, WriteLine, NextRecord
<1>4. ASSUME NEW seq \in 1 .. MaxRecords, RollbackRaises(seq)
      PROVE  OpenInv'
  BY <1>4 DEF RollbackRaises, WriteLine
<1>5. ASSUME FinishRollback
      PROVE  OpenInv'
  BY <1>5, OpenInvSave DEF FinishRollback
<1>6. ASSUME Crash
      PROVE  OpenInv'
  <2>1. IsSeq(<<>>)
    BY <<>> \in Seq({}) DEF IsSeq
  <2> QED
    BY <1>6, <2>1 DEF Crash, durable
<1>7. ASSUME Resume
      PROVE  OpenInv'
  BY <1>7 DEF Resume, durable
<1>8. ASSUME StartBlank
      PROVE  OpenInv'
  BY <1>8 DEF StartBlank, memory, durable
<1>9. ASSUME UNCHANGED vars
      PROVE  OpenInv'
  BY <1>9 DEF vars, memory, durable
<1> QED
  BY <1>1, <1>2, <1>3, <1>4, <1>5, <1>6, <1>7, <1>8, <1>9 DEF Next

\* While a process is up its watermark never falls, whatever writes raise and
\* however it was started.
THEOREM WatermarkOnward == Spec => WatermarkNeverFalls
<1>1. ASSUME OpenInv, [Next]_vars, phase # "down", phase' # "down"
      PROVE  watermark' >= watermark
  <2> USE <1>1 DEF OpenInv
  <2>1. ASSUME NEW kind \in Kinds, NEW value \in Values, AppendRecord(kind, value)
        PROVE  watermark' >= watermark
    BY <2>1 DEF AppendRecord
  <2>2. ASSUME NEW target \in 0 .. MaxRecords, Commit(target)
        PROVE  watermark' >= watermark
    BY <2>2 DEF Commit, CommitAllowed, SaveCheckpoint
  <2>3. ASSUME NEW seq \in 1 .. MaxRecords, Rollback(seq)
        PROVE  watermark' >= watermark
    BY <2>3 DEF Rollback
  <2>4. ASSUME NEW seq \in 1 .. MaxRecords, RollbackRaises(seq)
        PROVE  watermark' >= watermark
    BY <2>4 DEF RollbackRaises
  <2>5. ASSUME FinishRollback
        PROVE  watermark' >= watermark
    BY <2>5 DEF FinishRollback, SaveCheckpoint
  <2>6. ASSUME Crash \/ Resume \/ StartBlank
        PROVE  watermark' >= watermark
    BY <2>6 DEF Crash, Resume, StartBlank
  <2>7. ASSUME UNCHANGED vars
        PROVE  watermark' >= watermark
    BY <2>7 DEF vars, memory
  <2> QED
    BY <2>1, <2>2, <2>3, <2>4, <2>5, <2>6, <2>7 DEF Next
<1> QED
  BY <1>1, OpenInvInit, OpenInvStep, PTL DEF Spec, WatermarkNeverFalls

-----------------------------------------------------------------------------
(* Whatever is lost, as long as every start resumes.                       *)

\* A process that is up has marked every rollback of the file, and maybe some
\* whose line was not written.
MarkedInv ==
  /\ OneTombstonePerTarget
  /\ phase # "down" => Targets(journalFile) \subseteq tombstones

\* A line whose target, if it has one, was not marked before.
LEMMA MarkedInvLine ==
  ASSUME OpenInv, MarkedInv, phase # "down", NEW record,
         journalFile' = Append(journalFile, record),
         \/ ~ IsTombstone(record) /\ tombstones \subseteq tombstones'
         \/ /\ record.payload \notin tombstones
            /\ tombstones \cup {record.payload} \subseteq tombstones'
  PROVE  MarkedInv'
<1>1. Targets(journalFile') =
        IF IsTombstone(record) THEN Targets(journalFile) \cup {record.payload}
                               ELSE Targets(journalFile)
  BY TargetsOfLine DEF OpenInv
<1>2. /\ DOMAIN journalFile = 1 .. Len(journalFile)
      /\ DOMAIN journalFile' = 1 .. (Len(journalFile) + 1)
      /\ \A i \in 1 .. Len(journalFile) : journalFile'[i] = journalFile[i]
      /\ journalFile'[Len(journalFile) + 1] = record
      /\ Len(journalFile) \in Nat
  <2>1. IsSeq(journalFile')
    BY SeqsStay DEF OpenInv
  <2>2. DOMAIN journalFile = 1 .. Len(journalFile) /\ DOMAIN journalFile' = 1 .. Len(journalFile')
    BY <2>1, SeqDomain DEF OpenInv
  <2> QED
    BY <2>2, SeqsStay DEF OpenInv
<1>3. ASSUME NEW i \in 1 .. Len(journalFile), IsTombstone(journalFile[i]),
             IsTombstone(record)
      PROVE  journalFile[i].payload # record.payload
  <2>1. journalFile[i].payload \in Targets(journalFile)
    BY <1>2, <1>3 DEF Targets
  <2> QED
    BY <1>3, <2>1 DEF MarkedInv
<1>4. OneTombstonePerTarget'
  BY <1>2, <1>3 DEF MarkedInv, OneTombstonePerTarget
<1> QED
  BY <1>1, <1>4 DEF MarkedInv

\* It holds before anything is written.
LEMMA MarkedInvInit == Init => MarkedInv
  BY DEF Init, MarkedInv, OneTombstonePerTarget, Targets

\* Every step keeps it.
LEMMA MarkedInvStep ==
  ASSUME Starts = {"resume"}, OpenInv, MarkedInv, [Next]_vars PROVE MarkedInv'
<1>1. ASSUME UNCHANGED <<journalFile, tombstones>>, phase # "down"
      PROVE  MarkedInv'
  BY <1>1 DEF MarkedInv, OneTombstonePerTarget, Targets, IsTombstone
<1>2. ASSUME NEW kind \in Kinds, NEW value \in Values, AppendRecord(kind, value)
      PROVE  MarkedInv'
  <2>1. ~ IsTombstone(NextRecord(kind, value))
    BY KindsAssumption DEF NextRecord, IsTombstone
  <2> QED
    BY <1>1, <1>2, <2>1, MarkedInvLine DEF AppendRecord, WriteLine
<1>3. ASSUME NEW target \in 0 .. MaxRecords, Commit(target)
      PROVE  MarkedInv'
  BY <1>1, <1>3 DEF Commit
<1>4. ASSUME NEW seq \in 1 .. MaxRecords, Rollback(seq) \/ RollbackRaises(seq)
      PROVE  MarkedInv'
  <2>1. /\ phase = "serving" /\ seq \notin tombstones
        /\ tombstones' = tombstones \cup {seq}
        /\ \/ WriteLine(NextRecord(Tombstone, seq))
           \/ UNCHANGED journalFile
    BY <1>4 DEF Rollback, RollbackRaises, CanRollback
  <2>2. NextRecord(Tombstone, seq).payload = seq
    BY DEF NextRecord
  <2>3. CASE WriteLine(NextRecord(Tombstone, seq))
    BY <2>1, <2>2, <2>3, MarkedInvLine DEF WriteLine
  <2>4. CASE UNCHANGED journalFile
    BY <2>1, <2>4 DEF MarkedInv, OneTombstonePerTarget, Targets, IsTombstone
  <2> QED
    BY <2>1, <2>3, <2>4
<1>5. ASSUME FinishRollback
      PROVE  MarkedInv'
  BY <1>1, <1>5 DEF FinishRollback
<1>6. ASSUME Crash
      PROVE  MarkedInv'
  BY <1>6 DEF Crash, durable, MarkedInv, OneTombstonePerTarget, IsTombstone
<1>7. ASSUME Resume
      PROVE  MarkedInv'
  BY <1>7 DEF Resume, RestoredMarks, durable, MarkedInv, OneTombstonePerTarget, Targets, IsTombstone
<1>8. ASSUME StartBlank
      PROVE  MarkedInv'
  <2>1. journalFile = <<>> /\ journalFile' = <<>>
    BY <1>8 DEF StartBlank, durable
  <2> QED
    BY <2>1 DEF MarkedInv, OneTombstonePerTarget, Targets
<1>9. ASSUME UNCHANGED vars
      PROVE  MarkedInv'
  BY <1>9 DEF vars, memory, durable, MarkedInv, OneTombstonePerTarget, Targets, IsTombstone
<1> QED
  BY <1>2, <1>3, <1>4, <1>5, <1>6, <1>7, <1>8, <1>9 DEF Next

\* No record is rolled back by two tombstones in the file, however often a
\* rollback is cut off or its line is lost, and it is tried again.
THEOREM RolledBackOnce == ASSUME Starts = {"resume"} PROVE Spec => []OneTombstonePerTarget
<1>1. Init => OpenInv /\ MarkedInv
  BY OpenInvInit, MarkedInvInit
<1>2. OpenInv /\ MarkedInv /\ [Next]_vars => OpenInv' /\ MarkedInv'
  BY OpenInvStep, MarkedInvStep
<1>3. MarkedInv => OneTombstonePerTarget
  BY DEF MarkedInv
<1> QED
  BY <1>1, <1>2, <1>3, PTL DEF Spec

-----------------------------------------------------------------------------
(* First layer: no line is lost.                                           *)

FileNumbered == \A i \in DOMAIN journalFile : journalFile[i].seq = i

FileInv ==
  /\ TypeOK
  /\ FileNumbered
  /\ phase # "down" => stream = journalFile
  /\ phase = "down" => stream = <<>>
  /\ MarksMatchJournal
  /\ phase = "down" => tombstones = {}
  /\ OneTombstonePerTarget

\* The first layer holds before anything is written.
LEMMA FileInvInit == Init => FileInv
  BY KindsAssumption
     DEF Init, FileInv, TypeOK, FileNumbered, MarksMatchJournal, Targets,
         OneTombstonePerTarget, CheckpointType

\* A line at the end of the file keeps the numbering, the marks that were
\* extended with it, and one tombstone per target.
LEMMA FileInvAppend ==
  ASSUME FileInv, phase = "serving", phase' # "down",
         NEW kind, NEW payload,
         \/ /\ kind \in Kinds /\ payload \in Values
            /\ tombstones' = tombstones
         \/ /\ kind = Tombstone /\ payload \in Nat \ {0}
            /\ payload \notin tombstones
            /\ tombstones' = tombstones \cup {payload},
         stream' = Append(stream, NextRecord(kind, payload)),
         journalFile' = Append(journalFile, NextRecord(kind, payload))
  PROVE  /\ stream' \in Seq(Record) /\ journalFile' \in Seq(Record)
         /\ tombstones' \subseteq Nat \ {0}
         /\ FileNumbered' /\ stream' = journalFile'
         /\ MarksMatchJournal' /\ OneTombstonePerTarget'
<1> DEFINE record == NextRecord(kind, payload)
<1>1. /\ record \in Record
      /\ record.seq = Len(stream) + 1 /\ record.kind = kind /\ record.payload = payload
  BY NextRecordType DEF FileInv
<1>2. /\ stream = journalFile /\ journalFile \in Seq(Record)
      /\ tombstones = Targets(journalFile)
      /\ tombstones \subseteq Nat \ {0}
  BY DEF FileInv, TypeOK, MarksMatchJournal
<1> HIDE DEF record
<1>3. /\ DOMAIN journalFile = 1 .. Len(journalFile)
      /\ DOMAIN journalFile' = 1 .. (Len(journalFile) + 1)
      /\ \A i \in 1 .. Len(journalFile) : journalFile'[i] = journalFile[i]
      /\ journalFile'[Len(journalFile) + 1] = record
      /\ Len(journalFile) \in Nat
      /\ journalFile' \in Seq(Record)
  BY <1>1, <1>2 DEF record
<1>4. FileNumbered'
  BY <1>1, <1>2, <1>3 DEF FileInv, FileNumbered
<1>5. tombstones' = Targets(journalFile')
  <2>1. Targets(Append(journalFile, record)) =
          IF IsTombstone(record) THEN Targets(journalFile) \cup {record.payload}
                                 ELSE Targets(journalFile)
    BY <1>1, <1>2, TargetsOfAppend
  <2> QED
    BY <1>1, <1>2, <2>1, KindsAssumption DEF IsTombstone, record
<1>6. OneTombstonePerTarget'
  <2>1. ASSUME NEW i \in 1 .. Len(journalFile), IsTombstone(journalFile[i]),
               IsTombstone(record)
        PROVE  journalFile[i].payload # record.payload
    <3>1. journalFile[i].payload \in Targets(journalFile)
      BY <2>1, <1>3 DEF Targets
    <3> QED
      BY <3>1, <2>1, <1>1, <1>2, KindsAssumption DEF IsTombstone
  <2> QED
    BY <2>1, <1>3 DEF FileInv, OneTombstonePerTarget
<1> QED
  BY <1>2, <1>3, <1>4, <1>5, <1>6 DEF MarksMatchJournal, record

\* A commit leaves the stream and the file alone, whether it saves or not.
LEMMA FileInvSave ==
  ASSUME FileInv, NEW target \in Nat, SaveCheckpoint(target), phase # "down",
         phase' # "down", phase' \in {"serving", "rolledback", "down"},
         UNCHANGED <<stream, tombstones, projection, journalFile, crashes>>
  PROVE  FileInv'
<1>1. watermark' \in Nat /\ CheckpointType' /\ reported' \in Nat
  <2>1. Len(stream) \in Nat /\ watermark' = target
    BY DEF SaveCheckpoint, FileInv, TypeOK
  <2>2. CASE /\ checkpoint' = [saved |-> TRUE, watermark |-> target,
                              head |-> Len(stream), state |-> projection]
             /\ reported' = target
    BY <2>1, <2>2 DEF CheckpointType
  <2>3. CASE checkpoint' = checkpoint /\ reported' = reported
    BY <2>1, <2>3 DEF CheckpointType, FileInv, TypeOK
  <2> QED
    BY <2>2, <2>3 DEF SaveCheckpoint
<1>2. MarksMatchJournal'
  BY DEF FileInv, MarksMatchJournal, Targets
<1>3. OneTombstonePerTarget' /\ FileNumbered'
  BY DEF FileInv, OneTombstonePerTarget, FileNumbered, IsTombstone
<1> QED
  BY <1>1, <1>2, <1>3 DEF FileInv, TypeOK

\* Every step keeps the first layer.
LEMMA FileInvStep == ASSUME WritesHold, FileInv, [Next]_vars PROVE FileInv'
<1> USE DEF FileInv
<1>1. ASSUME NEW kind \in Kinds, NEW value \in Values, AppendRecord(kind, value)
      PROVE  FileInv'
  <2>1. /\ stream' = Append(stream, NextRecord(kind, value))
        /\ journalFile' = Append(journalFile, NextRecord(kind, value))
        /\ phase = "serving" /\ phase' = "serving" /\ tombstones' = tombstones
    BY <1>1 DEF AppendRecord, WriteLine, WritesHold
  <2>2. /\ stream' \in Seq(Record) /\ journalFile' \in Seq(Record)
        /\ tombstones' \subseteq Nat \ {0}
        /\ FileNumbered' /\ stream' = journalFile'
        /\ MarksMatchJournal' /\ OneTombstonePerTarget'
    BY <2>1, FileInvAppend
  <2> QED
    BY <1>1, <2>1, <2>2 DEF AppendRecord, TypeOK, CheckpointType
<1>2. ASSUME NEW target \in 0 .. MaxRecords, Commit(target)
      PROVE  FileInv'
  <2>1. target \in Nat
    BY BoundsAssumption
  <2> QED
    BY <1>2, <2>1, FileInvSave DEF Commit, TypeOK
<1>3. ASSUME NEW seq \in 1 .. MaxRecords, Rollback(seq)
      PROVE  FileInv'
  <2>1. /\ stream' = Append(stream, NextRecord(Tombstone, seq))
        /\ journalFile' = Append(journalFile, NextRecord(Tombstone, seq))
        /\ phase = "serving" /\ phase' = "rolledback"
        /\ seq \notin tombstones /\ tombstones' = tombstones \cup {seq}
        /\ watermark' = NextRecord(Tombstone, seq).seq
    BY <1>3 DEF Rollback, WriteLine, CanRollback
  <2>2. seq \in Nat \ {0}
    BY BoundsAssumption
  <2>3. /\ stream' \in Seq(Record) /\ journalFile' \in Seq(Record)
        /\ tombstones' \subseteq Nat \ {0}
        /\ FileNumbered' /\ stream' = journalFile'
        /\ MarksMatchJournal' /\ OneTombstonePerTarget'
    BY <2>1, <2>2, FileInvAppend
  <2>4. watermark' \in Nat
    BY <2>1, <2>2, NextRecordType DEF TypeOK
  <2> QED
    BY <1>3, <2>1, <2>3, <2>4 DEF Rollback, TypeOK, CheckpointType
<1>4. ASSUME NEW seq \in 1 .. MaxRecords, RollbackRaises(seq)
      PROVE  FileInv'
  <2>1. /\ stream' = Append(stream, NextRecord(Tombstone, seq))
        /\ journalFile' = Append(journalFile, NextRecord(Tombstone, seq))
        /\ phase = "serving" /\ phase' = "serving"
        /\ seq \notin tombstones /\ tombstones' = tombstones \cup {seq}
    BY <1>4 DEF RollbackRaises, WriteLine, CanRollback, WritesHold
  <2>2. seq \in Nat \ {0}
    BY BoundsAssumption
  <2>3. /\ stream' \in Seq(Record) /\ journalFile' \in Seq(Record)
        /\ tombstones' \subseteq Nat \ {0}
        /\ FileNumbered' /\ stream' = journalFile'
        /\ MarksMatchJournal' /\ OneTombstonePerTarget'
    BY <2>1, <2>2, FileInvAppend
  <2> QED
    BY <1>4, <2>1, <2>3 DEF RollbackRaises, TypeOK, CheckpointType
<1>5. ASSUME FinishRollback
      PROVE  FileInv'
  <2>1. Len(stream) \in Nat
    BY DEF TypeOK
  <2> QED
    BY <1>5, <2>1, FileInvSave DEF FinishRollback
<1>6. ASSUME Crash
      PROVE  FileInv'
  BY <1>6
     DEF Crash, durable, TypeOK, CheckpointType, FileNumbered,
         MarksMatchJournal, OneTombstonePerTarget
<1>7. ASSUME Resume
      PROVE  FileInv'
  <2>1. BySeq(journalFile) = journalFile
    BY LoadKeepsNumberedFile DEF FileNumbered, TypeOK
  <2>2. /\ stream' = journalFile /\ journalFile' = journalFile
        /\ tombstones' = Targets(journalFile)
        /\ phase' = "serving"
        /\ watermark' \in Nat
        /\ UNCHANGED <<checkpoint, crashes, reported>>
    BY <1>7, <2>1 DEF Resume, RestoredMarks, durable, TypeOK, CheckpointType
  <2>3. Targets(journalFile) \subseteq Nat \ {0}
    BY KindsAssumption DEF Targets, IsTombstone, TypeOK, Record
  <2> QED
    BY <2>2, <2>3
       DEF TypeOK, CheckpointType, FileNumbered, MarksMatchJournal,
           OneTombstonePerTarget
<1>8. ASSUME StartBlank
      PROVE  FileInv'
  <2>1. /\ journalFile = <<>> /\ phase = "down" /\ phase' = "serving"
        /\ UNCHANGED <<memory, durable, crashes, reported>>
    BY <1>8 DEF StartBlank, WritesHold
  <2>2. Targets(<<>>) = {}
    BY DEF Targets
  <2> QED
    BY <2>1, <2>2
       DEF memory, durable, TypeOK, CheckpointType, FileNumbered,
           MarksMatchJournal, OneTombstonePerTarget
<1>9. ASSUME UNCHANGED vars
      PROVE  FileInv'
  BY <1>9
     DEF vars, memory, durable, TypeOK, CheckpointType, FileNumbered,
         MarksMatchJournal, OneTombstonePerTarget, Targets
<1> QED
  BY <1>1, <1>2, <1>3, <1>4, <1>5, <1>6, <1>7, <1>8, <1>9 DEF Next

\* Type correctness: for any number of kinds, values, records and crashes.
THEOREM TypeCorrect == ASSUME WritesHold PROVE Spec => []TypeOK
<1>1. Init => FileInv
  BY FileInvInit
<1>2. FileInv /\ [Next]_vars => FileInv'
  BY FileInvStep
<1>3. FileInv => TypeOK
  BY DEF FileInv
<1> QED
  BY <1>1, <1>2, <1>3, PTL DEF Spec

\* Record numbers are positions, across any number of restarts.
THEOREM NumberedByPosition == ASSUME WritesHold PROVE Spec => []SeqIsPosition
<1>1. Init => FileInv
  BY FileInvInit
<1>2. FileInv /\ [Next]_vars => FileInv'
  BY FileInvStep
<1>3. FileInv => SeqIsPosition
  BY DEF FileInv, FileNumbered, SeqIsPosition
<1> QED
  BY <1>1, <1>2, <1>3, PTL DEF Spec

\* What is committed is on disk: the stream of a running process is the file.
THEOREM CommittedDurable == ASSUME WritesHold PROVE Spec => []CommittedIsDurable
<1>1. Init => FileInv
  BY FileInvInit
<1>2. FileInv /\ [Next]_vars => FileInv'
  BY FileInvStep
<1>3. FileInv => CommittedIsDurable
  BY DEF FileInv, CommittedIsDurable, TypeOK
<1> QED
  BY <1>1, <1>2, <1>3, PTL DEF Spec

\* Exactly the journaled rollbacks are in force while the process is up.
THEOREM RollbacksInForce == ASSUME WritesHold PROVE Spec => []MarksMatchJournal
<1>1. Init => FileInv
  BY FileInvInit
<1>2. FileInv /\ [Next]_vars => FileInv'
  BY FileInvStep
<1>3. FileInv => MarksMatchJournal
  BY DEF FileInv
<1> QED
  BY <1>1, <1>2, <1>3, PTL DEF Spec

-----------------------------------------------------------------------------
(* Watermarks, while checkpoint writes may raise.                          *)

MarkInv ==
  /\ checkpoint.watermark <= Len(journalFile)
  /\ ~ checkpoint.saved => checkpoint.watermark = 0
  /\ phase # "down" => checkpoint.watermark <= watermark /\ watermark <= Len(stream)
  /\ phase = "rolledback" => watermark = Len(stream)
  /\ phase = "down" => watermark = 0
  /\ reported <= checkpoint.watermark

\* It holds before anything is committed.
LEMMA MarkInvInit == Init => MarkInv
  BY DEF Init, MarkInv

\* A commit reports and saves what it has in memory, or raises.
LEMMA MarkInvSave ==
  ASSUME FileInv, MarkInv, phase # "down", phase' = "serving",
         NEW target \in watermark .. Len(stream), SaveCheckpoint(target),
         UNCHANGED <<stream, journalFile>>
  PROVE  MarkInv'
  BY DEF FileInv, TypeOK, CheckpointType, MarkInv, SaveCheckpoint

\* A line more leaves every watermark inside the file.
LEMMA MarkInvLine ==
  ASSUME FileInv, MarkInv, phase = "serving", NEW record \in Record,
         stream' = Append(stream, record), journalFile' = Append(journalFile, record),
         UNCHANGED <<checkpoint, reported>>,
         \/ phase' = "serving" /\ watermark' = watermark
         \/ phase' = "rolledback" /\ watermark' = Len(stream) + 1
  PROVE  MarkInv'
<1>1. /\ Len(journalFile) \in Nat /\ stream = journalFile
      /\ Len(stream') = Len(stream) + 1 /\ Len(journalFile') = Len(journalFile) + 1
  BY DEF FileInv, TypeOK
<1> QED
  BY <1>1 DEF FileInv, TypeOK, CheckpointType, MarkInv

\* Every step keeps it.
LEMMA MarkInvStep == ASSUME WritesHold, FileInv, MarkInv, [Next]_vars PROVE MarkInv'
<1>1. ASSUME NEW kind \in Kinds, NEW value \in Values, AppendRecord(kind, value)
      PROVE  MarkInv'
  <2>1. NextRecord(kind, value) \in Record
    BY NextRecordType DEF FileInv
  <2> QED
    BY <1>1, <2>1, MarkInvLine DEF AppendRecord, WriteLine, WritesHold
<1>2. ASSUME NEW target \in 0 .. MaxRecords, Commit(target)
      PROVE  MarkInv'
  <2>1. target \in watermark .. Len(stream)
    BY <1>2, BoundsAssumption DEF Commit, CommitAllowed, FileInv, TypeOK
  <2> QED
    BY <1>2, <2>1, MarkInvSave DEF Commit
<1>3. ASSUME NEW seq \in 1 .. MaxRecords, Rollback(seq)
      PROVE  MarkInv'
  <2>1. seq \in Nat \ {0}
    BY BoundsAssumption
  <2>2. /\ NextRecord(Tombstone, seq) \in Record
        /\ NextRecord(Tombstone, seq).seq = Len(stream) + 1
    BY <2>1, NextRecordType DEF FileInv
  <2> QED
    BY <1>3, <2>2, MarkInvLine DEF Rollback, WriteLine
<1>4. ASSUME NEW seq \in 1 .. MaxRecords, RollbackRaises(seq)
      PROVE  MarkInv'
  <2>1. phase = "serving" /\ NextRecord(Tombstone, seq).seq < watermark
    BY <1>4 DEF RollbackRaises, WritesHold
  <2>2. watermark <= Len(stream) /\ watermark \in Nat /\ Len(stream) \in Nat
    BY <2>1 DEF MarkInv, FileInv, TypeOK
  <2>3. NextRecord(Tombstone, seq).seq = Len(stream) + 1
    BY DEF NextRecord
  <2> QED
    BY <2>1, <2>2, <2>3
<1>5. ASSUME FinishRollback
      PROVE  MarkInv'
  <2>1. Len(stream) \in watermark .. Len(stream)
    BY <1>5 DEF FinishRollback, MarkInv, FileInv, TypeOK
  <2> QED
    BY <1>5, <2>1, MarkInvSave DEF FinishRollback
<1>6. ASSUME Crash
      PROVE  MarkInv'
  BY <1>6 DEF Crash, durable, MarkInv
<1>7. ASSUME Resume
      PROVE  MarkInv'
  <2>1. BySeq(journalFile) = journalFile
    BY LoadKeepsNumberedFile DEF FileInv, FileNumbered, TypeOK
  <2> QED
    BY <1>7, <2>1 DEF Resume, durable, MarkInv, FileInv, TypeOK, CheckpointType
<1>8. ASSUME StartBlank
      PROVE  MarkInv'
  <2>1. /\ journalFile = <<>> /\ phase = "down" /\ phase' = "serving"
        /\ UNCHANGED <<memory, durable, crashes, reported>>
    BY <1>8 DEF StartBlank, WritesHold
  <2> QED
    BY <2>1 DEF memory, durable, MarkInv, FileInv, TypeOK, CheckpointType
<1>9. ASSUME UNCHANGED vars
      PROVE  MarkInv'
  BY <1>9 DEF vars, memory, durable, MarkInv
<1> QED
  BY <1>1, <1>2, <1>3, <1>4, <1>5, <1>6, <1>7, <1>8, <1>9 DEF Next

\* They hold in every reachable state.
LEMMA MarkLayer == ASSUME WritesHold PROVE Spec => [](FileInv /\ MarkInv)
<1>1. Init => FileInv /\ MarkInv
  BY FileInvInit, MarkInvInit
<1>2. FileInv /\ MarkInv /\ [Next]_vars => FileInv' /\ MarkInv'
  BY FileInvStep, MarkInvStep
<1> QED
  BY <1>1, <1>2, PTL DEF Spec

\* A reported watermark survives every crash, also when checkpoints in between
\* could not be written.
THEOREM ReportedKept == ASSUME WritesHold PROVE Spec => []ReportedIsKept
<1>1. FileInv /\ MarkInv => ReportedIsKept
  BY DEF FileInv, TypeOK, CheckpointType, MarkInv, ReportedIsKept
<1> QED
  BY <1>1, MarkLayer, PTL

-----------------------------------------------------------------------------
(* Second layer: no checkpoint is lost either.                             *)

CommitInv ==
  /\ checkpoint.watermark <= Len(journalFile)
  /\ ~ checkpoint.saved => checkpoint.watermark = 0
  /\ phase = "serving" => watermark = checkpoint.watermark
  /\ phase = "rolledback" => checkpoint.watermark <= watermark
                              /\ watermark = Len(stream)
  /\ phase = "down" => watermark = 0
  /\ reported = checkpoint.watermark
  /\ \A t \in Targets(journalFile) : /\ t \in 1 .. checkpoint.watermark
                                     /\ ~ IsTombstone(journalFile[t])

\* The second layer holds before anything is committed.
LEMMA CommitInvInit == Init => CommitInv
  BY DEF Init, CommitInv, Targets

\* Every step keeps the second layer, on top of the first.
LEMMA CommitInvStep ==
  ASSUME SavesHold, FileInv, FileInv', CommitInv, [Next]_vars PROVE CommitInv'
<1>1. ASSUME NEW kind \in Kinds, NEW value \in Values, AppendRecord(kind, value)
      PROVE  CommitInv'
  <2>1. /\ stream = journalFile /\ journalFile \in Seq(Record)
        /\ journalFile' = Append(journalFile, NextRecord(kind, value))
        /\ stream' = journalFile'
        /\ phase = "serving" /\ phase' = "serving"
        /\ UNCHANGED <<watermark, checkpoint, reported>>
    BY <1>1 DEF AppendRecord, WriteLine, SavesHold, FileInv, TypeOK
  <2>2. /\ NextRecord(kind, value) \in Record
        /\ ~ IsTombstone(NextRecord(kind, value))
    BY NextRecordType, KindsAssumption DEF FileInv, IsTombstone
  <2>3. Targets(journalFile') = Targets(journalFile)
    BY <2>1, <2>2, TargetsOfAppend
  <2>4. /\ Len(journalFile') = Len(journalFile) + 1
        /\ \A i \in 1 .. Len(journalFile) : journalFile'[i] = journalFile[i]
        /\ Len(journalFile) \in Nat
    BY <2>1, <2>2
  <2> QED
    BY <2>1, <2>3, <2>4 DEF CommitInv, FileInv, TypeOK, CheckpointType
<1>2. ASSUME NEW target \in 0 .. MaxRecords, Commit(target)
      PROVE  CommitInv'
  BY <1>2, BoundsAssumption
     DEF Commit, CommitAllowed, SaveCheckpoint, SavesHold, CommitInv, FileInv,
         TypeOK, CheckpointType, IsTombstone
<1>3. ASSUME NEW seq \in 1 .. MaxRecords, Rollback(seq)
      PROVE  CommitInv'
  <2> DEFINE tombstone == NextRecord(Tombstone, seq)
  <2>1. /\ stream = journalFile /\ journalFile \in Seq(Record)
        /\ journalFile' = Append(journalFile, tombstone)
        /\ stream' = journalFile'
        /\ phase = "serving" /\ phase' = "rolledback"
        /\ watermark' = tombstone.seq
        /\ UNCHANGED <<checkpoint, reported>>
        /\ seq \in 1 .. Len(stream) /\ ~ IsTombstone(stream[seq]) /\ seq <= watermark
    BY <1>3 DEF Rollback, WriteLine, CanRollback, FileInv, TypeOK
  <2>2. /\ tombstone \in Record /\ IsTombstone(tombstone)
        /\ tombstone.payload = seq /\ tombstone.seq = Len(stream) + 1
    <3>1. seq \in Nat \ {0}
      BY BoundsAssumption
    <3> QED
      BY <3>1, NextRecordType DEF FileInv, IsTombstone
  <2> HIDE DEF tombstone
  <2>3. Targets(journalFile') = Targets(journalFile) \cup {seq}
    BY <2>1, <2>2, TargetsOfAppend
  <2>4. /\ Len(journalFile') = Len(journalFile) + 1
        /\ \A i \in 1 .. Len(journalFile) : journalFile'[i] = journalFile[i]
        /\ Len(journalFile) \in Nat
    BY <2>1, <2>2
  <2>5. \A t \in Targets(journalFile') : /\ t \in 1 .. checkpoint.watermark
                                         /\ ~ IsTombstone(journalFile'[t])
    BY <2>1, <2>3, <2>4 DEF CommitInv, FileInv, TypeOK, CheckpointType, IsTombstone
  <2> QED
    BY <2>1, <2>2, <2>4, <2>5 DEF CommitInv, FileInv, TypeOK, CheckpointType
<1>4. ASSUME NEW seq \in 1 .. MaxRecords, RollbackRaises(seq)
      PROVE  CommitInv'
  <2>1. phase = "serving" /\ NextRecord(Tombstone, seq).seq < watermark
    BY <1>4 DEF RollbackRaises, SavesHold
  <2>2. watermark <= Len(stream) /\ watermark \in Nat /\ Len(stream) \in Nat
    BY <2>1 DEF CommitInv, FileInv, TypeOK
  <2>3. NextRecord(Tombstone, seq).seq = Len(stream) + 1
    BY DEF NextRecord
  <2> QED
    BY <2>1, <2>2, <2>3
<1>5. ASSUME FinishRollback
      PROVE  CommitInv'
  BY <1>5
     DEF FinishRollback, SaveCheckpoint, SavesHold, CommitInv, FileInv, TypeOK,
         CheckpointType, IsTombstone
<1>6. ASSUME Crash
      PROVE  CommitInv'
  BY <1>6 DEF Crash, durable, CommitInv, IsTombstone
<1>7. ASSUME Resume
      PROVE  CommitInv'
  BY <1>7 DEF Resume, durable, CommitInv, IsTombstone, FileInv, TypeOK
<1>8. ASSUME StartBlank
      PROVE  CommitInv'
  <2>1. /\ journalFile = <<>> /\ phase = "down" /\ phase' = "serving"
        /\ UNCHANGED <<memory, durable, crashes, reported>>
    BY <1>8 DEF StartBlank, SavesHold
  <2> QED
    BY <2>1 DEF memory, durable, CommitInv, IsTombstone, FileInv, TypeOK, CheckpointType
<1>9. ASSUME UNCHANGED vars
      PROVE  CommitInv'
  BY <1>9 DEF vars, memory, durable, CommitInv, IsTombstone
<1> QED
  BY <1>1, <1>2, <1>3, <1>4, <1>5, <1>6, <1>7, <1>8, <1>9 DEF Next

\* Both layers hold in every reachable state.
LEMMA BothLayers == ASSUME SavesHold PROVE Spec => [](FileInv /\ CommitInv)
<1>1. Init => FileInv /\ CommitInv
  BY FileInvInit, CommitInvInit
<1>2. FileInv /\ CommitInv /\ [Next]_vars => FileInv' /\ CommitInv'
  BY FileInvStep, CommitInvStep DEF SavesHold, WritesHold
<1> QED
  BY <1>1, <1>2, PTL DEF Spec

\* Only committed records that are no tombstones are ever rolled back.
THEOREM RolledBackWasCommitted ==
  ASSUME SavesHold PROVE Spec => []OnlyCommittedRolledBack
<1>1. FileInv /\ CommitInv => OnlyCommittedRolledBack
  <2> SUFFICES ASSUME FileInv, CommitInv, NEW t \in tombstones
               PROVE  t <= watermark /\ t \in DOMAIN stream /\ ~ IsTombstone(stream[t])
    BY DEF OnlyCommittedRolledBack
  <2>1. /\ phase # "down" /\ stream = journalFile /\ t \in Targets(journalFile)
        /\ DOMAIN stream = 1 .. Len(stream) /\ Len(stream) \in Nat
    BY DEF FileInv, TypeOK, MarksMatchJournal
  <2>2. /\ t \in 1 .. checkpoint.watermark /\ ~ IsTombstone(journalFile[t])
        /\ checkpoint.watermark <= Len(journalFile)
        /\ checkpoint.watermark \in Nat /\ watermark \in Nat
    BY <2>1 DEF CommitInv, FileInv, TypeOK, CheckpointType
  <2>3. checkpoint.watermark <= watermark
    <3>1. CASE phase = "serving"
      BY <2>2, <3>1 DEF CommitInv
    <3>2. CASE phase = "rolledback"
      BY <3>2 DEF CommitInv
    <3> QED
      BY <2>1, <3>1, <3>2 DEF FileInv, TypeOK
  <2> QED
    BY <2>1, <2>2, <2>3
<1> QED
  BY <1>1, BothLayers, PTL

-----------------------------------------------------------------------------
(* The files implement CommittedHistory.                                   *)

\* A prefix does not see what is appended behind it.
LEMMA PrefixOfAppend ==
  ASSUME NEW S, NEW s \in Seq(S), NEW e \in S, NEW n \in 0 .. Len(s)
  PROVE  SubSeq(Append(s, e), 1, n) = SubSeq(s, 1, n)
<1>1. /\ SubSeq(Append(s, e), 1, n) \in Seq(S) /\ SubSeq(s, 1, n) \in Seq(S)
      /\ Len(SubSeq(Append(s, e), 1, n)) = n /\ Len(SubSeq(s, 1, n)) = n
      /\ \A i \in 1 .. n : SubSeq(Append(s, e), 1, n)[i] = SubSeq(s, 1, n)[i]
  OBVIOUS
<1> QED
  BY <1>1, SeqEqual

\* Cutting a longer prefix gives the shorter one.
LEMMA PrefixOfPrefix ==
  ASSUME NEW S, NEW s \in Seq(S), NEW n \in Nat, NEW m \in Nat, n <= m, m <= Len(s)
  PROVE  /\ Len(SubSeq(s, 1, m)) = m
         /\ Len(SubSeq(s, 1, n)) = n
         /\ \A i \in 1 .. n : SubSeq(s, 1, n)[i] = s[i]
         /\ SubSeq(SubSeq(s, 1, m), 1, n) = SubSeq(s, 1, n)
<1>1. /\ SubSeq(s, 1, m) \in Seq(S) /\ Len(SubSeq(s, 1, m)) = m
      /\ SubSeq(s, 1, n) \in Seq(S) /\ Len(SubSeq(s, 1, n)) = n
      /\ \A i \in 1 .. m : SubSeq(s, 1, m)[i] = s[i]
      /\ \A i \in 1 .. n : SubSeq(s, 1, n)[i] = s[i]
  OBVIOUS
<1> DEFINE p == SubSeq(s, 1, m)
<1>2. /\ SubSeq(p, 1, n) \in Seq(S) /\ Len(SubSeq(p, 1, n)) = n
      /\ \A i \in 1 .. n : SubSeq(p, 1, n)[i] = p[i]
  <2> HIDE DEF p
  <2>1. p \in Seq(S) /\ Len(p) = m
    BY <1>1 DEF p
  <2> QED
    BY <2>1
<1>3. SubSeq(p, 1, n) = SubSeq(s, 1, n)
  <2> HIDE DEF p
  <2>1. \A i \in 1 .. n : p[i] = s[i]
    BY <1>1 DEF p
  <2> QED
    BY <1>1, <1>2, <2>1, SeqEqual
<1> QED
  BY <1>1, <1>3 DEF p

publishedLog == SubSeq(journalFile, 1, checkpoint.watermark)

\* A commit at `target` publishes the records up to it, or none.
LEMMA SavePublishes ==
  ASSUME SavesHold, FileInv, CommitInv, phase # "down",
         NEW target \in Nat, checkpoint.watermark <= target, target <= Len(stream),
         SaveCheckpoint(target), UNCHANGED journalFile
  PROVE  [Published!Next]_<<publishedLog, Targets(journalFile)>>
<1>1. /\ journalFile \in Seq(Record) /\ checkpoint.watermark \in Nat
      /\ stream = journalFile /\ checkpoint'.watermark = target
      /\ Targets(journalFile') = Targets(journalFile)
      /\ publishedLog' = SubSeq(journalFile, 1, target)
  BY DEF SavesHold, SaveCheckpoint, FileInv, TypeOK, CheckpointType, publishedLog, Targets
<1>2. /\ Len(publishedLog') = target /\ Len(publishedLog) = checkpoint.watermark
      /\ SubSeq(publishedLog', 1, Len(publishedLog)) = publishedLog
  BY <1>1, PrefixOfPrefix DEF publishedLog
<1>3. CASE target = checkpoint.watermark
  BY <1>1, <1>3 DEF publishedLog
<1>4. CASE target > checkpoint.watermark
  BY <1>1, <1>2, <1>4 DEF Published!Next, Published!Publish, publishedLog
<1> QED
  BY <1>1, <1>3, <1>4

\* Every step publishes records behind the log, drops one published record, or
\* changes nothing a reader of the two files sees.
LEMMA StepPublishes ==
  ASSUME SavesHold, FileInv, CommitInv, [Next]_vars
  PROVE  [Published!Next]_<<publishedLog, Targets(journalFile)>>
<1>1. ASSUME NEW kind \in Kinds, NEW value \in Values, AppendRecord(kind, value)
      PROVE  UNCHANGED <<publishedLog, Targets(journalFile)>>
  <2>1. /\ journalFile \in Seq(Record) /\ checkpoint' = checkpoint
        /\ journalFile' = Append(journalFile, NextRecord(kind, value))
        /\ checkpoint.watermark \in 0 .. Len(journalFile)
    BY <1>1 DEF AppendRecord, WriteLine, SavesHold, FileInv, TypeOK, CheckpointType,
                CommitInv
  <2>2. /\ NextRecord(kind, value) \in Record
        /\ ~ IsTombstone(NextRecord(kind, value))
    BY NextRecordType, KindsAssumption DEF FileInv, IsTombstone
  <2> QED
    BY <2>1, <2>2, TargetsOfAppend, PrefixOfAppend DEF publishedLog
<1>2. ASSUME NEW target \in 0 .. MaxRecords, Commit(target)
      PROVE  [Published!Next]_<<publishedLog, Targets(journalFile)>>
  <2>1. target \in Nat /\ checkpoint.watermark <= target /\ target <= Len(stream)
    BY <1>2, BoundsAssumption DEF Commit, CommitAllowed, CommitInv, FileInv, TypeOK,
                                  CheckpointType
  <2> QED
    BY <1>2, <2>1, SavePublishes DEF Commit
<1>3. ASSUME NEW seq \in 1 .. MaxRecords, Rollback(seq)
      PROVE  Published!Next
  <2> DEFINE tombstone == NextRecord(Tombstone, seq)
  <2>1. /\ stream = journalFile /\ journalFile \in Seq(Record)
        /\ tombstones = Targets(journalFile) /\ seq \notin tombstones
        /\ journalFile' = Append(journalFile, tombstone)
        /\ checkpoint' = checkpoint /\ watermark = checkpoint.watermark
        /\ checkpoint.watermark \in 0 .. Len(journalFile)
        /\ seq \in 1 .. checkpoint.watermark /\ ~ IsTombstone(journalFile[seq])
    BY <1>3 DEF Rollback, WriteLine, CanRollback, FileInv, TypeOK, CheckpointType,
                CommitInv, MarksMatchJournal
  <2>2. /\ tombstone \in Record /\ IsTombstone(tombstone) /\ tombstone.payload = seq
    <3>1. seq \in Nat \ {0}
      BY BoundsAssumption
    <3> QED
      BY <3>1, NextRecordType DEF FileInv, IsTombstone
  <2> HIDE DEF tombstone
  <2>3. Targets(journalFile') = Targets(journalFile) \cup {seq}
    BY <2>1, <2>2, TargetsOfAppend
  <2>4. publishedLog' = publishedLog
    BY <2>1, <2>2, PrefixOfAppend DEF publishedLog
  <2>5. Len(publishedLog) = checkpoint.watermark /\ publishedLog[seq] = journalFile[seq]
    BY <2>1, PrefixOfPrefix DEF publishedLog
  <2>6. Published!Drop(seq)
    BY <2>1, <2>3, <2>4, <2>5 DEF Published!Drop, publishedLog, IsTombstone
  <2> QED
    BY <2>1, <2>5, <2>6 DEF Published!Next, publishedLog
<1>4. ASSUME NEW seq \in 1 .. MaxRecords, RollbackRaises(seq)
      PROVE  FALSE
  <2>1. phase = "serving" /\ NextRecord(Tombstone, seq).seq < watermark
    BY <1>4 DEF RollbackRaises, SavesHold
  <2>2. watermark <= Len(stream) /\ watermark \in Nat /\ Len(stream) \in Nat
    BY <2>1 DEF CommitInv, FileInv, TypeOK
  <2>3. NextRecord(Tombstone, seq).seq = Len(stream) + 1
    BY DEF NextRecord
  <2> QED
    BY <2>1, <2>2, <2>3
<1>5. ASSUME FinishRollback
      PROVE  [Published!Next]_<<publishedLog, Targets(journalFile)>>
  <2>1. Len(stream) \in Nat /\ checkpoint.watermark <= Len(stream)
    BY <1>5 DEF FinishRollback, CommitInv, FileInv, TypeOK, CheckpointType
  <2> QED
    BY <1>5, <2>1, SavePublishes DEF FinishRollback
<1>6. ASSUME \/ Crash \/ Resume \/ StartBlank \/ UNCHANGED vars
      PROVE  UNCHANGED <<publishedLog, Targets(journalFile)>>
  BY <1>6 DEF Crash, Resume, StartBlank, vars, memory, durable, publishedLog, Targets
<1> QED
  BY <1>1, <1>2, <1>3, <1>4, <1>5, <1>6 DEF Next

\* The two files, read together, never show a reader anything but a history
\* that is extended in order and whose records are dropped at most once.
THEOREM FilesImplementHistory == ASSUME SavesHold PROVE Spec => PublishedSpec
<1>1. Init => Published!Init
  <2>1. ASSUME Init PROVE SubSeq(journalFile, 1, checkpoint.watermark) = <<>>
    BY <2>1 DEF Init
  <2> QED
    BY <2>1 DEF Init, Published!Init, Targets
<1>2. FileInv /\ CommitInv /\ [Next]_vars
        => [Published!Next]_<<SubSeq(journalFile, 1, checkpoint.watermark),
                              Targets(journalFile)>>
  BY StepPublishes DEF publishedLog
<1> QED
  BY <1>1, <1>2, BothLayers, PTL DEF Spec, PublishedSpec, Published!Spec
=============================================================================
