------------------------------ MODULE Journal ------------------------------
(***************************************************************************)
(* The record journal of the control service: the in-memory stream, the    *)
(* commit watermark, the tombstones of rolled back records, the projection *)
(* every append folds into, and the two files that survive a restart.      *)
(*                                                                         *)
(* One request at a time is served here; JournalThreads lifts that.  A     *)
(* request appends records and then commits; one that is refused half way  *)
(* leaves its records pending, which is why Append and Commit are separate *)
(* actions.  A crash can fall between any two file writes.                 *)
(***************************************************************************)
EXTENDS Naturals, Sequences, SequencesExt

CONSTANTS
  Kinds,        \* record kinds; each writes one field of the projection
  Values,       \* what a record can write there
  Unset,        \* a field no record has written
  Tombstone,    \* TOMBSTONE_KIND, the kind of a rollback record
  MaxRecords,   \* bound: longest stream
  MaxCrashes,   \* bound: process ends
  Starts,       \* how a process may start: "resume" (--resume) or "blank"
  Faults        \* which file writes may raise StoreError: "append", "save"

ASSUME KindsAssumption  == Tombstone \notin Kinds
ASSUME BoundsAssumption == MaxRecords \in Nat /\ MaxCrashes \in Nat
ASSUME StartsAssumption == Starts \subseteq {"resume", "blank"} /\ Starts # {}
ASSUME FaultsAssumption == Faults \subseteq {"append", "save"}

VARIABLES
  phase,        \* "serving", "rolledback" (inside Services.rollback), "down"
  stream,       \* RecordStream._records
  watermark,    \* Watermark._value
  tombstones,   \* TombstoneIndex._targets
  projection,   \* Services.projection
  journalFile,  \* journal.jsonl, one record per line
  checkpoint,   \* checkpoint.json; saved = FALSE when there is no such file
  crashes,      \* how often the process ended
  reported      \* history variable: the highest watermark a call returned

memory  == <<stream, watermark, tombstones, projection>>
durable == <<journalFile, checkpoint>>
vars    == <<phase, memory, durable, crashes, reported>>

Record == [seq : Nat \ {0}, kind : Kinds, payload : Values]
            \cup [seq : Nat \ {0}, kind : {Tombstone}, payload : Nat \ {0}]

IsTombstone(record) == record.kind = Tombstone

-----------------------------------------------------------------------------
(* The projection: a last-writer-wins field per record kind, the list of   *)
(* rolled back records and the number of records applied.                  *)

Blank == [field |-> [k \in Kinds |-> Unset], tombstones |-> <<>>, applied |-> 0]

Apply(state, record) ==
  [ field      |-> IF IsTombstone(record) THEN state.field
                   ELSE [state.field EXCEPT ![record.kind] = record.payload],
    tombstones |-> IF IsTombstone(record) THEN Append(state.tombstones, record.payload)
                   ELSE state.tombstones,
    applied    |-> state.applied + 1 ]

\* The loop over the records that project() and replay() share: those at the
\* places in `counted` are applied in order, the others are skipped.
Fold(state, records, counted) ==
  LET after[n \in 0 .. Len(records)] ==
        IF n = 0 THEN state
        ELSE IF n \in counted THEN Apply(after[n - 1], records[n])
        ELSE after[n - 1]
  IN  after[Len(records)]

\* The places before the first record above the limit: project() breaks there.
UpTo(records, limit) ==
  {i \in DOMAIN records : \A j \in 1 .. i : records[j].seq <= limit}

\* The places of records that are not rolled back.
Kept(records, dropped) == {i \in DOMAIN records : records[i].seq \notin dropped}

\* Services.project: the state a reader of the history sees at `limit`.
Project(records, dropped, limit) ==
  Fold(Blank, records, UpTo(records, limit) \cap Kept(records, dropped))

\* journal.replay: committed, not rolled back records above `since`.
Replay(state, records, dropped, since, limit) ==
  Fold(state, records, {i \in Kept(records, dropped) : /\ records[i].seq > since
                                                       /\ records[i].seq <= limit})

History(limit) == Project(stream, tombstones, limit)

\* RecordStream.load: a stable sort by sequence number.
BySeq(records) ==
  LET InOrder(i, j) == \/ records[i].seq < records[j].seq
                       \/ records[i].seq = records[j].seq /\ i <= j
      order         == SetToSortSeq(DOMAIN records, InOrder)
  IN  IF \A i, j \in DOMAIN records : i <= j => records[i].seq <= records[j].seq
      THEN records
      ELSE [i \in DOMAIN records |-> records[order[i]]]

\* The targets the tombstones among `records` name.
Targets(records) ==
  {records[i].payload : i \in {j \in DOMAIN records : IsTombstone(records[j])}}

\* What a restart marks: every tombstone line, committed or not.
RestoredMarks_committedOnly(records) ==
  Targets(SelectSeq(records, LAMBDA r : r.seq <= checkpoint.watermark))

RestoredMarks(records) == Targets(records)

-----------------------------------------------------------------------------
NextRecord_offByOne(kind, payload) ==
  [seq |-> Len(stream), kind |-> kind, payload |-> payload]

NextRecord(kind, payload) ==
  [seq |-> Len(stream) + 1, kind |-> kind, payload |-> payload]

\* The line of a record reaches journal.jsonl.
WriteLine_lost(record) == UNCHANGED journalFile

WriteLine(record) == journalFile' = Append(journalFile, record)

\* Services.rebuild: the projection starts over from the committed records.
Rebuild_skipped == projection' = Apply(projection, Last(stream'))

Rebuild == projection' = Project(stream', tombstones', watermark')

Init ==
  /\ phase = "serving"
  /\ stream = <<>> /\ watermark = 0 /\ tombstones = {} /\ projection = Blank
  /\ journalFile = <<>>
  /\ checkpoint = [saved |-> FALSE, watermark |-> 0, head |-> 0, state |-> Blank]
  /\ crashes = 0
  /\ reported = 0

\* A handler appends one record: memory, then the file, then the observer.
\* When the file write raises, the record stays in memory.
AppendRecord(kind, value) ==
  /\ phase = "serving"
  /\ Len(stream) < MaxRecords
  /\ stream' = Append(stream, NextRecord(kind, value))
  /\ \/ /\ WriteLine(NextRecord(kind, value))
        /\ projection' = Apply(projection, NextRecord(kind, value))
     \/ /\ "append" \in Faults
        /\ UNCHANGED <<journalFile, projection>>
  /\ UNCHANGED <<phase, watermark, tombstones, checkpoint, crashes, reported>>

SaveCheckpoint_stale(target) ==
  /\ watermark' = target
  /\ checkpoint' = [saved |-> TRUE, watermark |-> watermark,
                    head |-> Len(stream), state |-> projection]
  /\ reported' = target

\* The end of Services.commit: the watermark is in memory, the checkpoint is
\* written, and the call returns; when the write raises it does not return.
SaveCheckpoint(target) ==
  /\ watermark' = target
  /\ \/ /\ checkpoint' = [saved |-> TRUE, watermark |-> target,
                          head |-> Len(stream), state |-> projection]
        /\ reported' = target
     \/ /\ "save" \in Faults
        /\ UNCHANGED <<checkpoint, reported>>

CommitAllowed_noRegressionCheck(target) == target <= Len(stream)

\* CommitController.commit and Watermark.advance_to refuse anything else.
CommitAllowed(target) == target <= Len(stream) /\ target >= watermark

\* Services.commit(seq), the last call of every handler and POST
\* /api/journal/commit.
Commit(target) ==
  /\ phase = "serving"
  /\ CommitAllowed(target)
  /\ SaveCheckpoint(target)
  /\ UNCHANGED <<phase, stream, tombstones, projection, journalFile, crashes>>

CanRollback_uncommitted(seq) ==
  /\ seq \in 1 .. Len(stream)
  /\ ~ IsTombstone(stream[seq])
  /\ seq \notin tombstones

CanRollback_twice(seq) ==
  /\ seq \in 1 .. Len(stream)
  /\ ~ IsTombstone(stream[seq])
  /\ seq <= watermark

\* RollbackService.rollback refuses a target that is unknown, a tombstone, not
\* committed or rolled back already.
CanRollback(seq) ==
  /\ seq \in 1 .. Len(stream)
  /\ ~ IsTombstone(stream[seq])
  /\ seq <= watermark
  /\ seq \notin tombstones

\* Services.rollback up to its own commit: the index is marked, the tombstone
\* appended, the watermark moved over it and the projection rebuilt.
Rollback(seq) ==
  LET tombstone == NextRecord(Tombstone, seq)
  IN  /\ phase = "serving"
      /\ Len(stream) < MaxRecords
      /\ CanRollback(seq)
      /\ tombstones' = tombstones \cup {seq}
      /\ stream' = Append(stream, tombstone)
      /\ WriteLine(tombstone)
      /\ tombstone.seq >= watermark
      /\ watermark' = tombstone.seq
      /\ Rebuild
      /\ phase' = "rolledback"
      /\ UNCHANGED <<checkpoint, crashes, reported>>

\* A rollback that raises: the tombstone was not written, or the commit over
\* it was below the watermark.  The index stays marked either way.
RollbackRaises(seq) ==
  LET tombstone == NextRecord(Tombstone, seq)
  IN  /\ phase = "serving"
      /\ Len(stream) < MaxRecords
      /\ CanRollback(seq)
      /\ tombstones' = tombstones \cup {seq}
      /\ stream' = Append(stream, tombstone)
      /\ \/ /\ "append" \in Faults
            /\ UNCHANGED <<journalFile, projection>>
         \/ /\ tombstone.seq < watermark
            /\ WriteLine(tombstone)
            /\ projection' = Apply(projection, tombstone)
      /\ UNCHANGED <<phase, watermark, checkpoint, crashes, reported>>

\* The commit that ends Services.rollback; its target is the head.
FinishRollback ==
  /\ phase = "rolledback"
  /\ SaveCheckpoint(Len(stream))
  /\ phase' = "serving"
  /\ UNCHANGED <<stream, tombstones, projection, journalFile, crashes>>

\* The process ends; only the files are left.
Crash ==
  /\ phase # "down"
  /\ crashes < MaxCrashes
  /\ phase' = "down"
  /\ stream' = <<>> /\ watermark' = 0 /\ tombstones' = {} /\ projection' = Blank
  /\ crashes' = crashes + 1
  /\ UNCHANGED <<durable, reported>>

\* Services.restore on a journal that has records.
Resume ==
  /\ phase = "down"
  /\ "resume" \in Starts
  /\ journalFile # <<>>
  /\ phase' = "serving"
  /\ stream' = BySeq(journalFile)
  /\ tombstones' = RestoredMarks(journalFile)
  /\ IF checkpoint.saved
     THEN /\ watermark' = checkpoint.watermark
          /\ projection' = Replay(checkpoint.state, stream', tombstones',
                                  checkpoint.watermark, watermark')
     ELSE /\ watermark' = 0
          /\ projection' = Project(stream', tombstones', 0)
  /\ UNCHANGED <<durable, crashes, reported>>

\* A start without --resume, or one that finds no record to restore.
StartBlank ==
  /\ phase = "down"
  /\ "blank" \in Starts \/ journalFile = <<>>
  /\ phase' = "serving"
  /\ UNCHANGED <<memory, durable, crashes, reported>>

Next ==
  \/ \E kind \in Kinds, value \in Values : AppendRecord(kind, value)
  \/ \E target \in 0 .. MaxRecords : Commit(target)
  \/ \E seq \in 1 .. MaxRecords : Rollback(seq)
  \/ \E seq \in 1 .. MaxRecords : RollbackRaises(seq)
  \/ FinishRollback
  \/ Crash
  \/ Resume
  \/ StartBlank

Spec == Init /\ [][Next]_vars

-----------------------------------------------------------------------------
(* Properties.                                                             *)

CheckpointType ==
  /\ checkpoint.saved \in BOOLEAN
  /\ checkpoint.watermark \in Nat
  /\ checkpoint.head \in Nat

\* The variables hold what their comments say.  The projections are left to
\* the functions that build them.
TypeOK ==
  /\ phase \in {"serving", "rolledback", "down"}
  /\ stream \in Seq(Record) /\ journalFile \in Seq(Record)
  /\ watermark \in Nat /\ reported \in Nat /\ crashes \in Nat
  /\ tombstones \subseteq Nat \ {0}
  /\ CheckpointType

\* Position i of the stream holds record number i: RecordStream.get and the
\* numbering of the next append both rely on it, across restarts.
SeqIsPosition == \A i \in DOMAIN stream : stream[i].seq = i

\* Every record below the watermark is a line of the journal file
\* (watermark.py: "Highest record sequence considered durable").
CommittedIsDurable ==
  \A i \in DOMAIN stream : stream[i].seq <= watermark =>
    \E j \in DOMAIN journalFile : journalFile[j] = stream[i]

\* A watermark that a call returned is kept: by the checkpoint at any moment,
\* and by the process whenever it is up, however often it restarted.
ReportedIsKept ==
  /\ reported <= checkpoint.watermark
  /\ phase # "down" => reported <= watermark

\* A rollback whose tombstone reached the file is in force after any restart,
\* and nothing else is marked.
MarksMatchJournal == phase # "down" => tombstones = Targets(journalFile)

\* Only committed records that are no tombstones are rolled back, and a crash
\* in the middle of a rollback does not change that.
OnlyCommittedRolledBack ==
  \A t \in tombstones : /\ t <= watermark
                        /\ t \in DOMAIN stream
                        /\ ~ IsTombstone(stream[t])

\* A record has at most one tombstone in the file, also when a failed or
\* interrupted rollback is tried again after a restart.
OneTombstonePerTarget ==
  \A i, j \in DOMAIN journalFile :
    /\ IsTombstone(journalFile[i]) /\ IsTombstone(journalFile[j])
    /\ journalFile[i].payload = journalFile[j].payload
    => i = j

\* Until the first process ends: whenever the watermark is at the head, the live
\* state, folded record by record or rebuilt by a rollback, is the history at the
\* watermark (test_judgement_semantics.py: "current state matches history at
\* current watermark"), and so is the state of a checkpoint whose watermark is
\* its head.  A watermark below the head says nothing of the state: records above
\* it act at once, and are in the checkpoint.
LiveIsHistory ==
  phase = "serving" /\ crashes = 0 =>
    /\ watermark = Len(stream) => projection = History(watermark)
    /\ checkpoint.saved /\ checkpoint.watermark = checkpoint.head =>
         checkpoint.state = History(checkpoint.watermark)

\* The watermark of a running process never moves backwards, neither by a
\* commit nor by a rollback, also after failed writes.
WatermarkNeverFalls ==
  [][phase # "down" /\ phase' # "down" => watermark' >= watermark]_vars

\* A live field has a value only if a record that still counts wrote it.
NoEffectOfRolledBack ==
  phase = "serving" =>
    \A k \in Kinds : projection.field[k] # Unset =>
      \E i \in DOMAIN stream :
        /\ stream[i].kind = k /\ stream[i].payload = projection.field[k]
        /\ stream[i].seq \notin tombstones

\* What the history shows at a committed watermark changes only when a record
\* is rolled back: no append, commit or restart rewrites it.
HistoryIsStable ==
  [][ \A limit \in 0 .. checkpoint.watermark :
        Targets(journalFile') = Targets(journalFile) =>
          Project(BySeq(journalFile'), Targets(journalFile), limit)
            = Project(BySeq(journalFile), Targets(journalFile), limit) ]_vars

(* The files implement the history that CommittedHistory promises: records *)
(* are published in order and never change, and a published record is      *)
(* dropped at most once.                                                   *)
Published == INSTANCE CommittedHistory
  WITH log     <- SubSeq(journalFile, 1, checkpoint.watermark),
       dropped <- Targets(journalFile)

PublishedSpec == Published!Spec
=============================================================================
