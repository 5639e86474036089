----------------------------- MODULE Versioning -----------------------------
(***************************************************************************)
(* Versioned documents: the generation registry, the confirmation sheets   *)
(* of valve persists and gauge switches, the baseline of every tank, the   *)
(* snapshots and the configuration revision in force, with what a rollback *)
(* and a restart rebuild of them from the record journal.                  *)
(*                                                                         *)
(* An action is a whole request, which commits the records it appends.     *)
(* Only the records that carry a generation are kept here; a rollback      *)
(* appends one more, which changes none of this and is left out.           *)
(* A unit of time is many ticks of the clock, so a request takes none.     *)
(***************************************************************************)
EXTENDS Naturals, Sequences

CONSTANTS
  Tanks,        \* TANKS
  Process,      \* PROCESS_TANK
  StartAge,     \* maximum age of a document the process is started with
  Ages,         \* maximum ages a revision may set; 0 disables expiry
  MaxTime,      \* bound: largest time
  MaxRecords,   \* bound: records that carry a generation
  MaxSnapshots  \* bound: snapshots of a process

ASSUME ProcessAssumption == Process \in Tanks
ASSUME AgesAssumption    == StartAge \in Nat /\ Ages \subseteq Nat
ASSUME BoundsAssumption ==
  MaxTime \in Nat /\ MaxRecords \in Nat /\ MaxSnapshots \in Nat

VARIABLES
  now,        \* LogicalClock._value
  registry,   \* GenerationRegistry._numbers
  active,     \* ConfigRevisions._active: its generation and its maximum age
  sheets,     \* SheetBook._sheets, by number
  spent,      \* the sheets that are not open: consumed, or found expired
  baselines,  \* BaselineBook._baselines
  snapshots,  \* SnapshotBook._snapshots, by number
  confirmed,  \* tank -> LevelState.confirmed
  pending,    \* tank -> LevelState.pending_sheet, 0 for none
  records,    \* the committed records that carry a generation
  dropped     \* the positions of those that are rolled back

paper   == <<sheets, spent>>
books   == <<paper, baselines, snapshots>>
gauges  == <<confirmed, pending>>
journal == <<records, dropped>>
vars    == <<now, registry, active, books, gauges, journal>>

-----------------------------------------------------------------------------
(* Markers: a scope and a key, for which generations are counted.          *)

Config      == <<"config", "control">>
Persist     == <<"valve.persist", "all-valves">>
Snapshot    == <<"journal.snapshot", "latest">>
Gauge(t)    == <<"level.gauge", t>>
Baseline(t) == <<"level.baseline", t>>

Markers == {Config, Persist, Snapshot}
             \cup {Gauge(t) : t \in Tanks} \cup {Baseline(t) : t \in Tanks}

-----------------------------------------------------------------------------
(* Documents.                                                              *)

\* A document of a marker, as the registry stands after the step.
Issue(marker, generation, config, age) ==
  [marker |-> marker, generation |-> generation, config |-> config,
   issued |-> now', age |-> age]

\* ExpiryPolicy.expired
Expired(document) ==
  document.age > 0 /\ now - document.issued > document.age

\* GenerationRegistry.require, for the configuration and for the subject.
Current(document) ==
  /\ document.config = registry[Config]
  /\ document.generation = registry[document.marker]

\* BaselineBook.validate and SnapshotBook.validate
Accepted(document) == Current(document) /\ ~ Expired(document)

\* SheetBook.consume: the tests.
AcceptedSheet(s) == s \notin spent /\ Accepted(sheets[s])

Bump_forgotten(marker) == registry' = registry

\* GenerationRegistry.bump
Bump(marker) == registry' = [registry EXCEPT ![marker] = @ + 1]

\* The sheet of a marker that was just bumped; it expires by the age the
\* process was started with, whatever revisions say.
IssueSheet(marker) ==
  /\ sheets' = Append(sheets,
       Issue(marker, registry'[marker], registry'[Config], StartAge))
  /\ UNCHANGED spent

Record(marker, value) ==
  records' = Append(records, [marker |-> marker, generation |-> registry'[marker],
                              value |-> value])

\* Consumption of a sheet that is open and current; an expired one is marked
\* as such, which ends its use just the same.
Consume(s) ==
  /\ s \notin spent /\ Current(sheets[s])
  /\ spent' = spent \cup {s}
  /\ UNCHANGED sheets

-----------------------------------------------------------------------------
(* What a rollback or a restart makes of the records that still count.     *)

Visible(marker, gone) ==
  {i \in DOMAIN records : records[i].marker = marker /\ i \notin gone}

\* The newest of them: what the projection knows of the marker.
Newest(marker, gone) ==
  records[CHOOSE i \in Visible(marker, gone) :
            \A j \in Visible(marker, gone) : j <= i]

Known(marker, gone) == Visible(marker, gone) # {}

RestoredNumber_lower(number, marker, gone) ==
  IF Known(marker, gone) THEN Newest(marker, gone).generation ELSE number

\* GenerationRegistry.restore: a number is never lowered.
RestoredNumber(number, marker, gone) ==
  IF Known(marker, gone) /\ Newest(marker, gone).generation >= number
  THEN Newest(marker, gone).generation
  ELSE number

\* LevelService.seed: the baseline of a tank no record knows.
SeedBaseline(t) == Issue(Baseline(t), 0, registry'[Config], StartAge)

RestoredRevision_kept(revision, gone) == revision

\* Services._restore_config: without a record that counts, whatever revision is
\* in force stays in force, also one that was just rolled back.
RestoredRevision(revision, gone) ==
  IF Known(Config, gone)
  THEN [generation |-> Newest(Config, gone).generation, age |-> Newest(Config, gone).value]
  ELSE revision

\* Services._apply_projection, on a registry and a configuration found so.
Rebuild(numbers, revision, gone) ==
  /\ registry' = [m \in Markers |-> RestoredNumber(numbers[m], m, gone)]
  /\ active' = RestoredRevision(revision, gone)
  /\ confirmed' = [t \in Tanks |->
       Known(Gauge(t), gone) => Newest(Gauge(t), gone).value = 1]
  /\ pending' = [t \in Tanks |-> 0]
  \* The projection never fills baseline_generation, which reads as 0.
  /\ baselines' = [t \in Tanks |->
       IF Known(Baseline(t), gone)
       THEN Issue(Baseline(t), 0, active'.generation, active'.age)
       ELSE SeedBaseline(t)]

-----------------------------------------------------------------------------
FirstNumbers_unactivated == [m \in Markers |-> 0]

\* The registry of a process that has just started: its configuration is
\* generation 1.
FirstNumbers == [m \in Markers |-> IF m = Config THEN 1 ELSE 0]

FirstRevision == [generation |-> 1, age |-> StartAge]

Init ==
  /\ now = 0
  /\ registry = FirstNumbers /\ active = FirstRevision
  /\ sheets = <<>> /\ spent = {} /\ snapshots = <<>>
  /\ baselines = [t \in Tanks |->
       [marker |-> Baseline(t), generation |-> 0, config |-> 1, issued |-> 0,
        age |-> StartAge]]
  /\ confirmed = [t \in Tanks |-> TRUE] /\ pending = [t \in Tanks |-> 0]
  /\ records = <<>> /\ dropped = {}

\* The ticks of the requests and of POST /api/clock/tick.
PassTime ==
  /\ now < MaxTime /\ now' = now + 1
  /\ UNCHANGED <<registry, active, books, gauges, journal>>

MayRecord == Len(records) < MaxRecords /\ UNCHANGED <<now, dropped>>

PersistValves ==
  /\ MayRecord
  /\ Bump(Persist) /\ IssueSheet(Persist) /\ Record(Persist, 0)
  /\ UNCHANGED <<active, baselines, snapshots, gauges>>

\* A gauge switch leaves the level unconfirmed until its sheet comes back.
SwitchGauge(t) ==
  /\ MayRecord
  /\ Bump(Gauge(t)) /\ IssueSheet(Gauge(t)) /\ Record(Gauge(t), 0)
  /\ confirmed' = [confirmed EXCEPT ![t] = FALSE]
  /\ pending' = [pending EXCEPT ![t] = Len(sheets')]
  /\ UNCHANGED <<active, baselines, snapshots>>

Awaiting_anyOpen(t, s) == sheets[s].marker = Gauge(t)

\* The gauge of the tank waits for this sheet.
Awaiting(t, s) == sheets[s].marker = Gauge(t) /\ pending[t] = s

ConfirmGauge_stillPending(t, s) ==
  /\ MayRecord
  /\ Awaiting(t, s) /\ AcceptedSheet(s) /\ Consume(s)
  /\ confirmed' = [confirmed EXCEPT ![t] = TRUE]
  /\ UNCHANGED registry /\ Record(Gauge(t), 1)
  /\ UNCHANGED <<active, baselines, snapshots, pending>>

\* LevelService.confirm_gauge when it succeeds.
ConfirmGauge(t, s) ==
  /\ MayRecord
  /\ Awaiting(t, s) /\ AcceptedSheet(s) /\ Consume(s)
  /\ confirmed' = [confirmed EXCEPT ![t] = TRUE]
  /\ pending' = [pending EXCEPT ![t] = 0]
  /\ UNCHANGED registry /\ Record(Gauge(t), 1)
  /\ UNCHANGED <<active, baselines, snapshots>>

\* What else POST /api/level/confirm does to a sheet: it is consumed before it
\* is compared with the pending one, so one that no gauge waits for, also that
\* of a persist, is used up; an expired one is marked.
WasteSheet(s) ==
  /\ \A t \in Tanks : ~ (Awaiting(t, s) /\ AcceptedSheet(s))
  /\ Consume(s)
  /\ UNCHANGED <<now, registry, active, baselines, snapshots, gauges, journal>>

\* The start gate, as far as it looks at documents: the baseline of the
\* process tank, then the sheet.
StartPump(s) ==
  /\ sheets[s].marker = Persist
  /\ confirmed[Process] /\ Accepted(baselines[Process])
  /\ Consume(s)
  /\ UNCHANGED <<now, registry, active, baselines, snapshots, gauges, journal>>

Recalibrate(t) ==
  /\ MayRecord
  /\ Bump(Baseline(t)) /\ Record(Baseline(t), 0)
  /\ baselines' = [baselines EXCEPT ![t] =
       Issue(Baseline(t), registry'[Baseline(t)], registry'[Config], StartAge)]
  /\ UNCHANGED <<active, paper, snapshots, gauges>>

ReviseConfig(age) ==
  /\ MayRecord
  /\ Bump(Config) /\ Record(Config, age)
  /\ active' = [generation |-> registry'[Config], age |-> age]
  /\ UNCHANGED <<books, gauges>>

\* No record is appended; the snapshot names the generation of the revision
\* in force, which after a rollback may be lower than the registry's.
CaptureSnapshot ==
  /\ Len(snapshots) < MaxSnapshots
  /\ Bump(Snapshot)
  /\ UNCHANGED <<now, active, paper, baselines, gauges, journal>>
  /\ snapshots' = Append(snapshots,
       Issue(Snapshot, registry'[Snapshot], active.generation, active.age))

Rollback(i) ==
  /\ i \in DOMAIN records \ dropped
  /\ dropped' = dropped \cup {i}
  /\ UNCHANGED now
  /\ Rebuild(registry, active, dropped')
  /\ UNCHANGED <<paper, snapshots, records>>

\* The process ends and a new one resumes: clock, books and registry start
\* over, and the journal is replayed.
Restart ==
  /\ now' = 0
  /\ sheets' = <<>> /\ spent' = {} /\ snapshots' = <<>>
  /\ Rebuild(FirstNumbers, FirstRevision, dropped)
  /\ UNCHANGED journal

Next ==
  \/ PassTime
  \/ PersistValves
  \/ \E t \in Tanks : SwitchGauge(t) \/ Recalibrate(t)
  \/ \E s \in DOMAIN sheets :
       (\E t \in Tanks : ConfirmGauge(t, s)) \/ WasteSheet(s) \/ StartPump(s)
  \/ \E age \in Ages : ReviseConfig(age)
  \/ CaptureSnapshot
  \/ \E i \in DOMAIN records : Rollback(i)
  \/ Restart

Spec == Init /\ [][Next]_vars

-----------------------------------------------------------------------------
(* Properties.                                                             *)

Documents ==
  [marker : Markers, generation : Nat, config : Nat \ {0}, issued : Nat, age : Nat]

\* The variables hold what their comments say.
TypeOK ==
  /\ now \in Nat
  /\ registry \in [Markers -> Nat]
  /\ active \in [generation : Nat \ {0}, age : Nat]
  /\ sheets \in Seq(Documents) /\ spent \subseteq DOMAIN sheets
  /\ snapshots \in Seq(Documents) /\ baselines \in [Tanks -> Documents]
  /\ confirmed \in [Tanks -> BOOLEAN] /\ pending \in [Tanks -> Nat]
  /\ records \in Seq([marker : Markers, generation : Nat, value : Nat])
  /\ dropped \subseteq DOMAIN records

\* The registry covers what a document names.
Issued(document) ==
  /\ document.generation <= registry[document.marker]
  /\ document.config <= registry[Config]

\* No document of this process is ahead of the registry, so that require()
\* never answers UnknownGenerationError: a rollback or a restart never lowers
\* a number below a document that is still held.
NeverAhead ==
  /\ \A s \in DOMAIN sheets : Issued(sheets[s])
  /\ \A s \in DOMAIN snapshots : Issued(snapshots[s])
  /\ \A t \in Tanks : Issued(baselines[t])

\* generation.py: "Every bump invalidates documents that carry the earlier
\* number": a sheet or snapshot that is refused once is refused for good,
\* whatever is rolled back afterwards, until the process ends.
RefusedForGood ==
  [][Restart \/
       ( /\ \A s \in DOMAIN sheets : ~ AcceptedSheet(s) => ~ AcceptedSheet(s)'
         /\ \A s \in DOMAIN snapshots :
              ~ Accepted(snapshots[s]) => ~ Accepted(snapshots[s])' )]_vars

\* Of the sheets that were issued for one subject at most one is good at any
\* moment, however switches, persists, rollbacks and restarts alternate.
OneGoodSheet ==
  \A r, s \in DOMAIN sheets :
    AcceptedSheet(r) /\ AcceptedSheet(s) /\ sheets[r].marker = sheets[s].marker => r = s

\* A level that waits for a sheet waits for that of the newest switch, is not
\* confirmed meanwhile, and can be confirmed unless the sheet expired or the
\* configuration changed.
PendingIsNewest ==
  \A t \in Tanks : pending[t] # 0 =>
    /\ ~ confirmed[t]
    /\ sheets[pending[t]].marker = Gauge(t)
    /\ sheets[pending[t]].generation = registry[Gauge(t)]
    /\ pending[t] \in spent => ~ Accepted(sheets[pending[t]])

\* A request confirms a gauge only with the sheet it waits for, while that is
\* good; a rollback in between leaves no other way than a new switch.
ConfirmedBySheet ==
  [][ \A t \in Tanks :
        ~ confirmed[t] /\ confirmed'[t] =>
          \/ Restart \/ dropped' # dropped
          \/ pending[t] # 0 /\ AcceptedSheet(pending[t]) ]_vars

\* The revision in force is the newest one that counts, if any does; and it
\* falls behind the registry, so that snapshots are refused as soon as they are
\* taken, only when a revision was rolled back.
RevisionInForce ==
  /\ Known(Config, dropped) =>
       /\ active.generation = Newest(Config, dropped).generation
       /\ active.age = Newest(Config, dropped).value
  /\ active.generation # registry[Config] =>
       \E i \in dropped : records[i].marker = Config

(* sheet.py: "every sheet may be used at most once"; generation.py: "every *)
(* bump invalidates documents that carry the earlier number".  Registry,   *)
(* books, revisions, rollbacks and restarts together are a SheetLedger.    *)
Subjects == {Persist} \cup {Gauge(t) : t \in Tanks}

goodSheets ==
  [marker \in Subjects |->
     {s \in DOMAIN sheets : sheets[s].marker = marker /\ AcceptedSheet(s)}]

Ledger == INSTANCE SheetLedger
  WITH issued <- Len(sheets), good <- goodSheets, time <- now,
       revision <- registry[Config]

\* Whatever happens to generations, a subject has at most one good sheet, its
\* newest.  It is refused only when it was used, is too old, was replaced, or
\* the configuration was revised: no rollback, calibration or snapshot, and no
\* persist or switch for another subject, takes it.  And nothing revives it.
LedgerSpec == Ledger!Spec

\* judgement/history.py: records fold into "the state a tank farm had at a
\* given watermark": a baseline that is good is still good after a rollback of
\* another record or a restart.
RebuildKeepsBaselines ==
  [][ \A t \in Tanks :
        Accepted(baselines[t]) /\ (Restart \/ dropped' # dropped)
          => \/ Accepted(baselines[t])'
             \/ \E i \in dropped' \ dropped : records[i].marker \in {Config, Baseline(t)} ]_vars
=============================================================================
