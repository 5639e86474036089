------------------------------ MODULE Transfer ------------------------------
(***************************************************************************)
(* The tank transfer: the sequence machine and its gates, the valves and   *)
(* their durable marks, the confirmation sheets of a persist, the pumps,   *)
(* the overfill trip, and what a restart or a rollback makes of all that.  *)
(*                                                                         *)
(* The console serves every request on a thread of its own and takes no    *)
(* lock.  A request is a program: the list of steps its handler still has  *)
(* to take, one for each test of a shared value, each change of a device   *)
(* and each record appended.  Threads are switched between steps only.     *)
(***************************************************************************)
EXTENDS Naturals, Sequences, FiniteSets

CONSTANTS
  Threads,         \* threads of the HTTP server
  Pumps,           \* PUMPS
  New, Old, Esd,   \* valve-tank-new, valve-tank-old, valve-esd
  MaxGeneration,   \* bound: persists that reach the journal
  MaxRestarts,     \* bound: process ends
  MaxFailures,     \* bound: appends whose line raises StoreError
  MaxRollbacks     \* bound: rollbacks

ASSUME PumpsAssumption  == IsFiniteSet(Pumps)
ASSUME ValvesAssumption == Cardinality({New, Old, Esd}) = 3
ASSUME LimitsAssumption ==
  /\ MaxGeneration \in Nat /\ MaxRestarts \in Nat
  /\ MaxFailures \in Nat /\ MaxRollbacks \in Nat
\* One kind of fault at a time: memory and file have the same lines after a
\* restart.
ASSUME FaultsAssumption == MaxFailures = 0 \/ MaxRestarts = 0

VARIABLES
  todo,        \* thread -> the steps its request still has to take
  stage,       \* SequenceMachine._stage, as its index in STAGE_ORDER
  facts,       \* the facts that hold in SequenceMachine._facts
  open,        \* the valves whose position is open
  durable,     \* the valves whose persisted mark is set
  running,     \* the pumps that run
  latched,     \* the overfill latch
  level,       \* what the gauge of the process tank says: "room", "limit", or
               \* "unknown" while it is not confirmed
  sheets,      \* the persist sheets of this process, by number
  vouching,    \* history variable: the sheets since whose issue no valve moved
  generation,  \* generation of the valve positions
  journal,     \* Services.projection
  stream,      \* what all records of the stream say, folded alike
  saved,       \* the projection in checkpoint.json
  restarts,
  failures,
  rollbacks,
  jumped,      \* history variable: the rebuild of a rollback moved the plant
  undone,      \* history variable: rollbacks changed what the records say of these
  past         \* history variable: the furthest stage and generation and all
               \* pumps that a record ever put in

sequence == <<stage, facts>>
valves  == <<open, durable>>
plant   == <<running, latched, level>>
papers  == <<sheets, vouching, generation>>
logged  == <<journal, stream, past>>
bounds  == <<restarts, failures, rollbacks, jumped, undone>>
vars    == <<todo, sequence, valves, plant, papers, logged, saved, bounds>>

Idle          == 0   \* STAGE_ORDER
ValvesSaved   == 1
NewTankOpen   == 2
OldTankClosed == 3
PumpRunning   == 4

\* STAGE_GATES: the facts a stage demands.
Gates(target) ==
  CASE target = ValvesSaved   -> {}
    [] target = NewTankOpen   -> {"persisted"}
    [] target = OldTankClosed -> {"newOpen"}
    [] target = PumpRunning   -> {"persisted", "oldClosed"}

\* ValveRegistry order; the valves left out behave like any other.
ValveOrder == <<Esd, New, Old>>
Valves     == {New, Old, Esd}

\* What a program that has written nothing finds in the projection.
Unwritten == [stage |-> Idle, open |-> {}, running |-> {}, latched |-> FALSE,
              level |-> "room", generation |-> 0]

\* A set with or without an element.
Put(set, element, in) == IF in THEN set \cup {element} ELSE set \ {element}

\* StateProjection.apply, for the records that the model tells apart.
Apply(projection, record) ==
  CASE record.kind = "stage" -> [projection EXCEPT !.stage = record.value]
    [] record.kind = "valve" -> [projection EXCEPT !.open = Put(@, record.of, record.value)]
    [] record.kind = "pump"  -> [projection EXCEPT !.running = Put(@, record.of, record.value)]
    [] record.kind = "latch" -> [projection EXCEPT !.latched = record.value]
    [] record.kind = "level" -> [projection EXCEPT !.level = record.value]
    [] record.kind = "persisted" -> [projection EXCEPT !.generation = record.value]
    [] OTHER -> projection

Entry(kind, value)          == [kind |-> kind, value |-> value]
EntryOf(kind, which, value) == [kind |-> kind, of |-> which, value |-> value]

\* A record whose content the model does not tell apart.
Other == Entry("note", 0)

-----------------------------------------------------------------------------
(* Programs.                                                               *)

Do(op)         == [op |-> op]
Check(target)  == [op |-> "check", target |-> target]
Enter(target)  == [op |-> "enter", target |-> target]
Fact(name)     == [op |-> "fact", name |-> name]
Move(v, to)    == [op |-> "move", valve |-> v, to |-> to]
Ensure(v, to)  == [op |-> "ensure", valve |-> v, to |-> to]
Save(v)        == [op |-> "save", valve |-> v]
Verify(s)      == [op |-> "verify", sheet |-> s]
Use(s)         == [op |-> "use", sheet |-> s]
Energise(p, s) == [op |-> "energise", pump |-> p, sheet |-> s]
Stop(p)        == [op |-> "stop", pump |-> p]
Off(p)         == [op |-> "off", pump |-> p]
StopEach(left) == [op |-> "stopEach", left |-> left]
SetLevel(to)   == [op |-> "level", to |-> to]
Latch(active)  == [op |-> "latch", active |-> active]
Write(record)  == [op |-> "write", record |-> record]

Note == Write(Other)

\* Services.persist_valves and ValvePersister.persist
PersistProgram ==
  [i \in DOMAIN ValveOrder |-> Save(ValveOrder[i])]
    \o <<Do("issue"), Fact("persisted"), Do("ifIdle"), Do("commit")>>

ChangeProgram_oldFirst ==
  << Check(NewTankOpen), Enter(NewTankOpen),
     Move(Old, FALSE), Note, Fact("newOpen"),
     Check(OldTankClosed), Enter(OldTankClosed),
     Move(New, TRUE), Note, Fact("oldClosed"), Do("commit") >>

\* Services.change_tank and Handoff
ChangeProgram ==
  << Check(NewTankOpen), Enter(NewTankOpen),
     Move(New, TRUE), Note, Fact("newOpen"),
     Check(OldTankClosed), Enter(OldTankClosed),
     Move(Old, FALSE), Note, Fact("oldClosed"), Do("commit") >>

\* Services.start_pump
StartProgram(p, s) ==
  << Check(PumpRunning), Verify(s), Use(s),
     Check(PumpRunning), Enter(PumpRunning), Energise(p, s), Do("commit") >>

ActProgram_uncommitted ==
  <<Latch(TRUE), Move(Esd, FALSE), StopEach(Pumps), Note, Do("evaluate")>>

\* TripController._act, then evaluate_interlocks and commit
ActProgram ==
  <<Latch(TRUE), Move(Esd, FALSE), StopEach(Pumps), Note, Do("evaluate"), Do("commit")>>

\* Requests of which the model tells apart only that they commit and evaluate:
\* batches, gauge work, fills and draws that cross no limit, refused fills.
OtherPrograms ==
  {<<Note>>, <<Do("commit")>>, <<Note, Do("commit")>>,
   <<Note, Do("evaluate"), Do("commit")>>}

-----------------------------------------------------------------------------
Init ==
  /\ todo = [t \in Threads |-> <<>>]
  /\ stage = Idle /\ facts = {}
  /\ open = {} /\ durable = {}
  /\ running = {} /\ latched = FALSE /\ level = "room"
  /\ sheets = <<>> /\ vouching = {} /\ generation = 0
  /\ journal = Unwritten /\ saved = Unwritten
  /\ stream = Unwritten
  /\ restarts = 0 /\ failures = 0 /\ rollbacks = 0
  /\ jumped = FALSE /\ undone = {}
  /\ past = [stage |-> Idle, generation |-> 0, pumps |-> {}]

(* Requests: what a thread takes up when it is free, if the tests at the   *)
(* head of the handler pass.                                               *)

Begin(t, program) ==
  /\ todo[t] = <<>>
  /\ todo' = [todo EXCEPT ![t] = program]
  /\ UNCHANGED <<sequence, valves, plant, papers, logged, saved, bounds>>

PersistValves(t) == generation < MaxGeneration /\ Begin(t, PersistProgram)

ChangeTank(t) == Begin(t, ChangeProgram)

\* Handoff.retry: the movements that are missing, in the same order.
RetryChangeTank(t) ==
  /\ stage \in {NewTankOpen, OldTankClosed}
  /\ Begin(t, <<Ensure(New, TRUE), Ensure(Old, FALSE), Do("commit")>>)

MoveValve(t, v, to) == Begin(t, <<Move(v, to), Do("commit")>>)

StartPump(t, p, s) == Begin(t, StartProgram(p, s))

StopPump(t, p) == p \in running /\ Begin(t, <<Stop(p), Do("commit")>>)

\* fill_inlet and draw_level: the level reaches or leaves the limit.
ChangeLevel(t, to) ==
  /\ level # "unknown" /\ to \notin {level, "unknown"}
  /\ Begin(t, <<SetLevel(to), Do("evaluate"), Do("commit")>>)

\* switch_gauge, confirm_gauge and revise_config change what the level means
\* and evaluate nothing.
Reassess(t, to) == to # level /\ Begin(t, <<SetLevel(to), Do("commit")>>)

TripEsd(t) ==
  /\ level # "unknown"
  /\ Begin(t, IF level = "limit" THEN ActProgram ELSE <<Do("evaluate"), Do("commit")>>)

\* A retrip of a plant that is safe already changes nothing.
RetripEsd(t) ==
  /\ level # "unknown"
  /\ Begin(t, IF level = "limit" /\ ~ (latched /\ Esd \notin open /\ running = {})
              THEN ActProgram
              ELSE <<Do("evaluate"), Do("commit")>>)

TestEsd(t) == Begin(t, <<Latch(TRUE), Note, Do("commit")>>)

ResetEsd(t) ==
  /\ ~ (latched /\ Esd \in open)
  /\ level = "room"
  /\ Begin(t, <<Latch(FALSE), Note, Do("evaluate"), Do("commit")>>)

\* Handlers.interlock_evaluate: no commit follows.
EvaluateInterlocks(t) == Begin(t, <<Do("evaluate")>>)

OtherRequest(t) == \E program \in OtherPrograms : Begin(t, program)

-----------------------------------------------------------------------------
(* Steps.                                                                  *)

At(t, op) == todo[t] # <<>> /\ Head(todo[t]).op = op
Step(t)   == Head(todo[t])

Proceed(t) == todo' = [todo EXCEPT ![t] = Tail(@)]
Raise(t)   == todo' = [todo EXCEPT ![t] = <<>>]
Instead(t, steps) == todo' = [todo EXCEPT ![t] = steps \o Tail(@)]

\* The device has changed; its record is appended next.
Report(t, record) == Instead(t, <<Write(record)>>)

Larger(m, n) == IF m > n THEN m ELSE n

\* What the records put in at any time, once one more is among them.
Extend(record) ==
  CASE record.kind = "stage"     -> [past EXCEPT !.stage = Larger(@, record.value)]
    [] record.kind = "persisted" -> [past EXCEPT !.generation = Larger(@, record.value)]
    [] record.kind = "pump"      ->
         [past EXCEPT !.pumps = IF record.value THEN @ \cup {record.of} ELSE @]
    [] OTHER -> past

\* JournalWriter.append: the projection follows a line that was written; a
\* line that was not ends the request, and what it did before stays, the record
\* in the stream included.
AppendRecord(t) ==
  LET record == Step(t).record IN
  /\ At(t, "write")
  /\ stream' = Apply(stream, record) /\ past' = Extend(record)
  /\ \/ journal' = Apply(journal, record) /\ Proceed(t) /\ UNCHANGED failures
     \/ /\ failures < MaxFailures /\ failures' = failures + 1
        /\ UNCHANGED journal /\ Raise(t)
  /\ UNCHANGED <<sequence, valves, plant, papers, saved, restarts, rollbacks, jumped, undone>>

\* SequenceMachine.check
MayEnter(target) == target = stage + 1 /\ Gates(target) \subseteq facts

CheckStage(t) ==
  /\ At(t, "check")
  /\ IF MayEnter(Step(t).target) THEN Proceed(t) ELSE Raise(t)
  /\ UNCHANGED <<sequence, valves, plant, papers, logged, saved, bounds>>

\* SequenceMachine.advance behind its check.
EnterStage(t) ==
  /\ At(t, "enter")
  /\ stage' = Step(t).target
  /\ Report(t, Entry("stage", Step(t).target))
  /\ UNCHANGED <<facts, valves, plant, papers, logged, saved, bounds>>

SetFact(t) ==
  /\ At(t, "fact")
  /\ facts' = facts \cup {Step(t).name}
  /\ Proceed(t)
  /\ UNCHANGED <<stage, valves, plant, papers, logged, saved, bounds>>

\* Only a first persist advances the sequence.
AdvanceIfIdle(t) ==
  /\ At(t, "ifIdle")
  /\ Instead(t, IF stage = Idle THEN <<Check(ValvesSaved), Enter(ValvesSaved)>> ELSE <<>>)
  /\ UNCHANGED <<sequence, valves, plant, papers, logged, saved, bounds>>

\* Valve.move_to: a valve that moved is not durable any more.
Unmark(v) == durable \ {v}

\* ValveSwitcher._move
SwitchValve(t) ==
  LET v == Step(t).valve IN
  /\ At(t, "move")
  /\ open' = Put(open, v, Step(t).to)
  /\ durable' = Unmark(v)
  /\ vouching' = {}
  /\ Report(t, EntryOf("valve", v, Step(t).to))
  /\ UNCHANGED <<sequence, plant, sheets, generation, logged, saved, bounds>>

EnsureValve(t) ==
  LET v == Step(t).valve IN
  /\ At(t, "ensure")
  /\ Instead(t, IF (v \in open) = Step(t).to THEN <<>>
                ELSE <<Move(v, Step(t).to), Note>>)
  /\ UNCHANGED <<sequence, valves, plant, papers, logged, saved, bounds>>

\* ValvePersister.persist: the mark is set before the line is written.
SaveValve(t) ==
  LET v == Step(t).valve IN
  /\ At(t, "save")
  /\ durable' = durable \cup {v}
  /\ Report(t, EntryOf("valve", v, v \in open))
  /\ UNCHANGED <<sequence, open, plant, papers, logged, saved, bounds>>

NextGeneration_old == generation

\* GenerationRegistry.bump
NextGeneration == generation + 1

\* The sheet remembers, for the properties only, how often it was consumed.
IssueSheet(t) ==
  /\ At(t, "issue")
  /\ generation < MaxGeneration
  /\ generation' = NextGeneration
  /\ sheets' = Append(sheets, [generation |-> generation', uses |-> 0])
  /\ vouching' = vouching \cup {Len(sheets')}
  /\ Report(t, Entry("persisted", generation'))
  /\ UNCHANGED <<sequence, valves, plant, logged, saved, bounds>>

Accepted_anyGeneration(s) == sheets[s].uses = 0

\* SheetBook.consume: the tests.
Accepted(s) == sheets[s].uses = 0 /\ sheets[s].generation = generation

GateOpen_noLatch == durable = Valves /\ level = "room"

\* PumpStartGate.verify up to the sheet.
GateOpen == durable = Valves /\ ~ latched /\ level = "room"

\* The age of the sheet, a baseline or the blanket's latch may refuse the start too.
VerifySheet(t) ==
  /\ At(t, "verify")
  /\ \/ GateOpen /\ Accepted(Step(t).sheet) /\ Proceed(t)
     \/ Raise(t)
  /\ UNCHANGED <<sequence, valves, plant, papers, logged, saved, bounds>>

UseSheet(t) ==
  /\ At(t, "use")
  /\ sheets' = [sheets EXCEPT ![Step(t).sheet].uses = @ + 1]
  /\ Proceed(t)
  /\ UNCHANGED <<sequence, valves, plant, vouching, generation, logged, saved, bounds>>

\* start_pump: the pump runs before its record is appended.
EnergisePump(t) ==
  LET p == Step(t).pump IN
  /\ At(t, "energise")
  /\ IF p \in running
     THEN Raise(t) /\ UNCHANGED running
     ELSE /\ running' = running \cup {p}
          /\ Report(t, EntryOf("pump", p, TRUE))
  /\ UNCHANGED <<sequence, valves, latched, level, papers, logged, saved, bounds>>

StopSteps_pumpOnly(p) == <<Off(p)>>

\* stop_pump: the emergency valve first.
StopSteps(p) == IF Esd \in open THEN <<Move(Esd, FALSE), Off(p)>> ELSE <<Off(p)>>

StopOne(t) ==
  /\ At(t, "stop")
  /\ IF Step(t).pump \in running THEN Instead(t, StopSteps(Step(t).pump)) ELSE Raise(t)
  /\ UNCHANGED <<sequence, valves, plant, papers, logged, saved, bounds>>

\* stop_all_pumps, one pump after the other; in which order is left open.
StopNext(t) ==
  LET left == Step(t).left IN
  /\ At(t, "stopEach")
  /\ \/ left = {} /\ Proceed(t)
     \/ \E p \in left :
          Instead(t, (IF p \in running THEN StopSteps(p) ELSE <<>>) \o <<StopEach(left \ {p})>>)
  /\ UNCHANGED <<sequence, valves, plant, papers, logged, saved, bounds>>

SwitchOff(t) ==
  LET p == Step(t).pump IN
  /\ At(t, "off")
  /\ running' = running \ {p}
  /\ Report(t, EntryOf("pump", p, FALSE))
  /\ UNCHANGED <<sequence, valves, latched, level, papers, logged, saved, bounds>>

MoveLevel(t) ==
  /\ At(t, "level")
  /\ level' = Step(t).to
  /\ Report(t, Entry("level", Step(t).to))
  /\ UNCHANGED <<sequence, valves, running, latched, papers, logged, saved, bounds>>

ApplyLatch(t) ==
  /\ At(t, "latch")
  /\ latched' = Step(t).active
  /\ Report(t, Entry("latch", Step(t).active))
  /\ UNCHANGED <<sequence, valves, running, level, papers, logged, saved, bounds>>

MayClear_esdIgnored == level = "room" /\ running = {}

\* OVERFILL_RULE, clear_when
MayClear == level = "room" /\ running = {} /\ Esd \notin open

\* evaluate_interlocks: the context is read first, the latch changed after.
Evaluate(t) ==
  /\ At(t, "evaluate")
  /\ Instead(t, CASE level = "limit" /\ ~ latched -> <<Latch(TRUE)>>
                  [] latched /\ MayClear         -> <<Latch(FALSE)>>
                  [] OTHER                       -> <<>>)
  /\ UNCHANGED <<sequence, valves, plant, papers, logged, saved, bounds>>

\* Services.commit: the checkpoint holds the projection of that moment.
Commit(t) ==
  /\ At(t, "commit")
  /\ saved' = journal
  /\ Proceed(t)
  /\ UNCHANGED <<sequence, valves, plant, papers, logged, bounds>>

\* The facts SequenceMachine.restore infers from a stage.
FactsOf(reached) ==
  {name \in {"persisted", "newOpen", "oldClosed"} :
     reached >= CASE name = "persisted" -> 1 [] name = "newOpen" -> 2 [] OTHER -> 3}

Levels == {"room", "limit", "unknown"}

\* A rolled back revision of the configuration stays in force until the process
\* ends: what the level means then is not what the journal says.
LevelsOf(projection) == IF "level" \in undone THEN Levels ELSE {projection.level}

RestoredStage_idle == Idle
RestoredStage == saved.stage

\* The process ends and a new one resumes from the checkpoint.  The book of
\* sheets and the durable marks start over.
Restart ==
  /\ restarts < MaxRestarts
  /\ restarts' = restarts + 1
  /\ todo' = [t \in Threads |-> <<>>]
  /\ stage' = RestoredStage /\ facts' = FactsOf(stage')
  /\ open' = saved.open /\ durable' = {}
  /\ running' = saved.running /\ latched' = saved.latched
  /\ level' \in LevelsOf(saved)
  /\ sheets' = <<>> /\ vouching' = {} /\ generation' = saved.generation
  /\ journal' = saved
  /\ UNCHANGED <<stream, past, saved, failures, rollbacks, jumped, undone>>

\* The record a rollback takes back no longer counts: its field has the value of
\* an earlier record, or none.  Which one is left open, but for the stages,
\* generations and pumps that no record put in.  What the level is after a record
\* of it, or of a configuration, is rolled back LevelsOf leaves open.
Undoable ==
  {Entry("stage", n) : n \in Idle .. past.stage}
    \cup {Entry("persisted", n) : n \in 0 .. past.generation}
    \cup {EntryOf("pump", p, on) : p \in past.pumps, on \in BOOLEAN}
    \cup {EntryOf("valve", v, to) : v \in Valves, to \in BOOLEAN}
    \cup {Entry("latch", active) : active \in BOOLEAN}
    \cup {Entry("level", stream.level)}
    \cup {Other}

\* RollbackService.rollback: the mark is set before the line of the tombstone
\* is written.
UndoRecord(t) ==
  /\ At(t, "undo")
  /\ \E record \in Undoable :
       /\ stream' = Apply(stream, record)
       /\ undone' = undone \cup {kind \in {"stage", "persisted", "level"} :
                                 kind = record.kind /\ (stream' # stream \/ kind = "level")}
  /\ \/ Proceed(t) /\ UNCHANGED failures
     \/ failures < MaxFailures /\ failures' = failures + 1 /\ Raise(t)
  /\ UNCHANGED <<sequence, valves, plant, papers, journal, past, saved,
                 restarts, rollbacks, jumped>>

\* Services.rebuild folds the projection again from all records, those included
\* that a process left behind its last checkpoint, and every device is what it
\* says; nothing is evaluated.  No valve is durable then; the sheets stay, and
\* the registry keeps the larger generation.
Rebuild(t) ==
  /\ At(t, "rebuild")
  /\ journal' = stream
  /\ stage' = stream.stage /\ facts' = FactsOf(stage')
  /\ open' = stream.open /\ durable' = {} /\ vouching' = {}
  /\ running' = stream.running /\ latched' = stream.latched
  /\ level' \in LevelsOf(stream)
  /\ generation' = Larger(generation, stream.generation)
  /\ jumped' = (jumped \/ stream # journal)
  /\ Proceed(t)
  /\ UNCHANGED <<stream, past, saved, sheets, restarts, failures, rollbacks, undone>>

\* Services.rollback of any record that is committed.
Rollback(t) ==
  /\ rollbacks < MaxRollbacks
  /\ todo[t] = <<>>
  /\ todo' = [todo EXCEPT ![t] = <<Do("undo"), Do("rebuild"), Do("commit")>>]
  /\ rollbacks' = rollbacks + 1
  /\ UNCHANGED <<sequence, valves, plant, papers, logged, saved,
                 restarts, failures, jumped, undone>>

Request(t) ==
  \/ PersistValves(t)
  \/ ChangeTank(t)
  \/ RetryChangeTank(t)
  \/ \E v \in Valves, to \in BOOLEAN : MoveValve(t, v, to)
  \/ \E p \in Pumps, s \in DOMAIN sheets : StartPump(t, p, s)
  \/ \E p \in Pumps : StopPump(t, p)
  \/ \E to \in Levels : ChangeLevel(t, to) \/ Reassess(t, to)
  \/ TripEsd(t)
  \/ RetripEsd(t)
  \/ TestEsd(t)
  \/ ResetEsd(t)
  \/ EvaluateInterlocks(t)
  \/ OtherRequest(t)
  \/ Rollback(t)

Advance(t) ==
  \/ CheckStage(t) \/ EnterStage(t) \/ SetFact(t) \/ AdvanceIfIdle(t)
  \/ SwitchValve(t) \/ EnsureValve(t) \/ SaveValve(t)
  \/ IssueSheet(t) \/ VerifySheet(t) \/ UseSheet(t)
  \/ EnergisePump(t) \/ StopOne(t) \/ StopNext(t) \/ SwitchOff(t)
  \/ MoveLevel(t) \/ ApplyLatch(t) \/ Evaluate(t)
  \/ AppendRecord(t) \/ Commit(t) \/ UndoRecord(t) \/ Rebuild(t)

Next == Restart \/ \E t \in Threads : (todo[t] = <<>> /\ Request(t)) \/ Advance(t)

Spec == Init /\ [][Next]_vars

-----------------------------------------------------------------------------
(* Properties.                                                             *)

Projections ==
  [stage : Idle .. PumpRunning, open : SUBSET Valves, running : SUBSET Pumps,
   latched : BOOLEAN, level : Levels, generation : Nat]

Sheets == [generation : Nat \ {0}, uses : Nat]

\* The variables hold what their comments say.
TypeOK ==
  /\ stage \in Idle .. PumpRunning
  /\ facts \subseteq {"persisted", "newOpen", "oldClosed"}
  /\ open \subseteq Valves /\ durable \subseteq Valves
  /\ running \subseteq Pumps /\ latched \in BOOLEAN /\ level \in Levels
  /\ sheets \in Seq(Sheets) /\ vouching \subseteq DOMAIN sheets /\ generation \in Nat
  /\ \A projection \in {journal, stream, saved} : projection \in Projections
  /\ restarts \in Nat /\ failures \in Nat /\ rollbacks \in Nat
  /\ jumped \in BOOLEAN /\ undone \subseteq {"stage", "persisted", "level"}
  /\ past \in [stage : Idle .. PumpRunning, generation : Nat, pumps : SUBSET Pumps]

\* A step of a handler that decides for itself: neither a restart nor the
\* rebuild of a rollback, which repeat what the journal says.
Decides ==
  restarts' = restarts /\ \A t \in Threads : At(t, "rebuild") => todo'[t] = todo[t]

\* A pump starts on a sheet that vouches for the positions the valves have at
\* that moment: none moved since the sheet was issued.
StartsOnCurrentEvidence ==
  [][\A t \in Threads :
       At(t, "energise") /\ Step(t).pump \in running' \ running /\ Decides
         => Step(t).sheet \in vouching]_vars

\* persist.py: "Writes every valve position before an action depends on it":
\* when a pump starts, the journal file knows the positions of the valves.
StartsOnWrittenPositions ==
  [][running' \ running # {} /\ Decides => journal.open = open]_vars

\* No pump starts while the latch is set or another pump feeds the header.  Once
\* the record of a stage was rolled back, the sequence may stand before a stage
\* in which a pump runs, and reach it again with another pump.
StartsAlone ==
  [][running' \ running # {} /\ Decides
       => /\ ~ latched /\ stage = PumpRunning
          /\ running = {} \/ "stage" \in undone]_vars

\* A pump runs only at the end of the sequence, whatever a crash cut off, a
\* restart restored or a rollback took back, but for the rollback of a stage; and
\* it runs alone, unless a rollback brought back another one.
RunsAtLastStage ==
  running # {} =>
    /\ stage = PumpRunning \/ "stage" \in undone
    /\ Cardinality(running) = 1 \/ jumped

\* The step that closes the old tank in a handover or in its repetition; valves
\* moved by hand have no record of the handover behind theirs.
ClosesOld(t) ==
  /\ At(t, "move") /\ Step(t) = Move(Old, FALSE)
  /\ Head(Tail(todo[t])) = Note

\* The handover never leaves the plant without a path: whoever finds it past its
\* middle, and whoever finds its old tank closed, first time or repeated, finds
\* in the journal that the new tank was opened before.
NewOpensFirst ==
  [][Decides /\ (\/ stage = NewTankOpen /\ stage' = OldTankClosed
                 \/ \E t \in Threads : ClosesOld(t) /\ todo'[t] # todo[t])
       => New \in journal.open]_vars

\* A pump is switched off only behind a closed emergency valve.
EsdBeforeOff ==
  [][running \ running' # {} /\ Decides => Esd \notin open]_vars

\* The latch is released, by a reset or by an evaluation, only behind a closed
\* emergency valve.
LatchOutlivesOpenEsd ==
  [][latched /\ ~ latched' /\ Decides => Esd \notin open]_vars

\* Between requests the checkpoint knows the plant: the positions of these
\* valves and the pumps, and the stage, the generation and the level but where
\* the rollback of a record of that kind parts them.  An evaluation that nobody
\* asked to commit is the other exception: a latch that only memory has means
\* that the level is at the limit still, one that only the checkpoint has that
\* the plant is safe still.
IdleIsSaved ==
  (\A t \in Threads : todo[t] = <<>>) =>
    /\ saved.open = open /\ saved.running = running
    /\ saved.stage = stage \/ "stage" \in undone
    /\ saved.generation = generation \/ "persisted" \in undone
    /\ saved.level = level \/ "level" \in undone
    /\ latched /\ ~ saved.latched => level = "limit"
    /\ ~ latched /\ saved.latched => MayClear

\* sheet.py: "every sheet may be used at most once".
SheetUsedOnce == \A s \in DOMAIN sheets : sheets[s].uses <= 1
=============================================================================
