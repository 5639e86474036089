----------------------------- MODULE Interlock -----------------------------
(***************************************************************************)
(* The interlocks of the process tank: its level gauge and high limit, the *)
(* blanket gas of every tank, the two latches and their rules, the trip,   *)
(* test and reset of the emergency shutdown, the vent and the inlet.       *)
(*                                                                         *)
(* An action is a whole request.  Most requests end with an evaluation of  *)
(* the latch rules and a commit; those that only commit leave the latches  *)
(* as they are until the next one that evaluates, and one, POST            *)
(* /api/interlock/evaluate, evaluates without a commit.  A rollback        *)
(* rebuilds the plant from the journal, and evaluates nothing either.      *)
(***************************************************************************)
EXTENDS Naturals, FiniteSets

CONSTANTS
  Tanks,         \* TANKS
  Process,       \* PROCESS_TANK, the one the latch rules look at
  MaxReading,    \* the fullest level, in steps
  SeedReading,   \* TANK_LEVEL_SEED of the process tank
  Limits,        \* high limits a configuration may set
  Pressures,     \* blanket pressures
  SeedPressure,  \* INERT_SEED_KPA
  Windows        \* blanket windows a configuration may set

ASSUME TanksAssumption  == Process \in Tanks
ASSUME LevelsAssumption ==
  MaxReading \in Nat /\ SeedReading \in 0 .. MaxReading /\ Limits \subseteq Nat \ {0}
ASSUME BlanketAssumption ==
  /\ Pressures \subseteq Nat /\ SeedPressure \in Pressures
  /\ \A w \in Windows : w.low \in Nat /\ w.high \in Nat /\ w.low < w.high

VARIABLES
  reading,        \* level of the process tank
  gaugeConfirmed, \* LevelState.confirmed of the process tank
  pending,        \* a gauge sheet is out that confirm_gauge would accept
  limit,          \* LevelLimits
  window,         \* BlanketLimits
  pressure,       \* tank -> InertState.pressure
  alarm,          \* tank -> InertState.alarm
  gasConfirmed,   \* tank -> InertState.confirmed, as last refreshed
  overfill,       \* the two latches
  blanket,
  pumping,        \* a transfer pump runs
  esdOpen,        \* valve-esd is open
  ventOpen,       \* valve-vent is open
  inletOpen,      \* valve-inlet is open (InletState.open is only reported)
  journalled,     \* the latches and the inlet valve as their records have them
  rolledBack,     \* history variable: a rollback since the last evaluation
  saved           \* the checkpoint, as far as it may lag behind the plant

level   == <<reading, gaugeConfirmed, pending>>
limits  == <<limit, window>>
gas     == <<pressure, alarm, gasConfirmed>>
latches == <<overfill, blanket>>
shut    == <<pumping, esdOpen>>
log     == <<journalled, rolledBack>>
vars    == <<level, limits, gas, latches, shut, ventOpen, inletOpen, log, saved>>

-----------------------------------------------------------------------------
(* Rules.                                                                  *)

AtHigh_above == reading > limit

\* Threshold.at_or_above
AtHigh == reading >= limit

\* ControlContext.level_overfilled: an unconfirmed gauge counts as not high.
Overfilled == gaugeConfirmed /\ AtHigh

OverfillSet == Overfilled /\ gaugeConfirmed

OverfillClear == ~ Overfilled /\ gaugeConfirmed /\ ~ pumping /\ ~ esdOpen

BlanketSet   == alarm[Process]
BlanketClear == ~ alarm[Process] /\ gasConfirmed[Process]

\* InterlockEngine.evaluate for one latch.
Rule(active, set, clear) == IF active THEN ~ clear ELSE set

\* The records of a request that left the latches at `over` and `blank` and
\* wrote those of `own` itself; an evaluation writes the latches it changes.
Records(own, over, blank) ==
  LET now     == [overfill |-> overfill', blanket |-> blanket', inlet |-> inletOpen']
      before  == [overfill |-> over, blanket |-> blank, inlet |-> inletOpen']
      changed == {f \in DOMAIN now : now[f] # before[f]}
  IN  journalled' = [f \in DOMAIN now |->
                       IF f \in own \cup changed THEN now[f] ELSE journalled[f]]

\* evaluate_interlocks at the end of such a request.
Evaluate(over, blank) ==
  /\ overfill' = Rule(over, OverfillSet', OverfillClear')
  /\ blanket'  = Rule(blank, BlanketSet', BlanketClear')
  /\ rolledBack' = FALSE

\* Services.commit: the checkpoint catches up with the plant.
Commit ==
  saved' = [overfill |-> overfill', blanket |-> blanket', inlet |-> inletOpen',
            rolledBack |-> rolledBack']

EvaluateAndCommit(own, over, blank) ==
  Evaluate(over, blank) /\ Records(own, over, blank) /\ Commit

CommitOnly(own) ==
  /\ UNCHANGED <<latches, rolledBack>>
  /\ Records(own, overfill, blanket) /\ Commit

InWindow(p) == window.low <= p /\ p <= window.high

\* InertService._refresh
Confirmed(p, alarmed) == ~ alarmed /\ InWindow(p)

Init ==
  /\ reading = SeedReading /\ gaugeConfirmed = TRUE /\ pending = FALSE
  /\ limit \in Limits /\ window \in Windows
  /\ pressure = [t \in Tanks |-> SeedPressure]
  /\ alarm = [t \in Tanks |-> FALSE]
  /\ gasConfirmed = [t \in Tanks |-> Confirmed(SeedPressure, FALSE)]
  /\ overfill = FALSE /\ blanket = FALSE
  /\ pumping = FALSE /\ esdOpen = FALSE /\ ventOpen = FALSE
  /\ inletOpen = FALSE
  /\ journalled = [overfill |-> FALSE, blanket |-> FALSE, inlet |-> FALSE]
  /\ rolledBack = FALSE
  /\ saved = [overfill |-> FALSE, blanket |-> FALSE, inlet |-> FALSE,
              rolledBack |-> FALSE]

-----------------------------------------------------------------------------
(* Inlet and level.                                                        *)

\* InletController.open: what it demands.
InletAllowed == ~ blanket /\ gasConfirmed[Process]

OpenInlet ==
  /\ InletAllowed
  /\ inletOpen' = TRUE
  /\ UNCHANGED <<level, limits, gas, shut, ventOpen>>
  /\ EvaluateAndCommit({"inlet"}, overfill, blanket)

\* FillingController.fill opens the inlet and adds to the level.
FillInlet(amount) ==
  /\ InletAllowed
  /\ reading + amount <= MaxReading
  /\ reading' = reading + amount
  /\ inletOpen' = TRUE
  /\ UNCHANGED <<gaugeConfirmed, pending, limits, gas, shut, ventOpen>>
  /\ EvaluateAndCommit({"inlet"}, overfill, blanket)

\* An amount that is not positive is refused when the inlet is open already;
\* nothing is evaluated or committed.
FillNothing ==
  /\ InletAllowed
  /\ inletOpen' = TRUE
  /\ journalled' = [journalled EXCEPT !.inlet = TRUE]
  /\ UNCHANGED <<level, limits, gas, latches, shut, ventOpen, rolledBack, saved>>

ReleaseInlet_notEvaluated ==
  /\ blanket' = FALSE
  /\ UNCHANGED <<level, limits, gas, overfill, shut, ventOpen, inletOpen, log, saved>>

\* InletController.release: the latch goes, the valve stays where it is.
ReleaseInlet ==
  /\ UNCHANGED <<level, limits, gas, shut, ventOpen, inletOpen>>
  /\ EvaluateAndCommit(IF blanket THEN {"blanket"} ELSE {}, overfill, FALSE)

DrawLevel_unclamped(amount) ==
  /\ reading' = reading - amount
  /\ UNCHANGED <<gaugeConfirmed, pending, limits, gas, shut, ventOpen, inletOpen>>
  /\ EvaluateAndCommit({}, overfill, blanket)

\* A draw stops at an empty tank.
DrawLevel(amount) ==
  /\ reading' = IF amount > reading THEN 0 ELSE reading - amount
  /\ UNCHANGED <<gaugeConfirmed, pending, limits, gas, shut, ventOpen, inletOpen>>
  /\ EvaluateAndCommit({}, overfill, blanket)

\* A gauge switch leaves the level unconfirmed and issues a sheet.
SwitchGauge ==
  /\ gaugeConfirmed' = FALSE /\ pending' = TRUE
  /\ UNCHANGED <<reading, limits, gas, shut, ventOpen, inletOpen>>
  /\ CommitOnly({})

ConfirmGauge ==
  /\ pending
  /\ gaugeConfirmed' = TRUE /\ pending' = FALSE
  /\ UNCHANGED <<reading, limits, gas, shut, ventOpen, inletOpen>>
  /\ CommitOnly({})

\* revise_config: the sheets that are out belong to the old configuration;
\* the confirmations of the blanket are not refreshed.
ReviseConfig(high, band) ==
  /\ limit' = high /\ window' = band
  /\ pending' = FALSE
  /\ UNCHANGED <<reading, gaugeConfirmed, gas, shut, ventOpen, inletOpen>>
  /\ CommitOnly({})

-----------------------------------------------------------------------------
(* Blanket gas.                                                            *)

SetPressure(t, p) ==
  /\ pressure' = [pressure EXCEPT ![t] = p]
  /\ gasConfirmed' = [gasConfirmed EXCEPT ![t] = Confirmed(p, alarm[t])]
  /\ UNCHANGED <<level, limits, alarm, shut, ventOpen, inletOpen>>
  /\ EvaluateAndCommit({}, overfill, blanket)

RaiseAlarm(t) ==
  /\ alarm' = [alarm EXCEPT ![t] = TRUE]
  /\ gasConfirmed' = [gasConfirmed EXCEPT ![t] = FALSE]
  /\ ventOpen' = TRUE
  /\ UNCHANGED <<level, limits, pressure, shut, inletOpen>>
  /\ EvaluateAndCommit({}, overfill, blanket)

\* InertService.clear_alarm hands the vent the state of this tank only.
ClearAlarm(t) ==
  /\ alarm' = [alarm EXCEPT ![t] = FALSE]
  /\ gasConfirmed' = [gasConfirmed EXCEPT ![t] = Confirmed(pressure[t], FALSE)]
  /\ ventOpen' = FALSE
  /\ UNCHANGED <<level, limits, pressure, shut, inletOpen>>
  /\ EvaluateAndCommit({}, overfill, blanket)

-----------------------------------------------------------------------------
(* Pumps and the emergency shutdown.                                       *)

\* The interlock part of the start gate; the others are in Transfer.
StartPump ==
  /\ ~ pumping
  /\ ~ overfill /\ ~ blanket
  /\ gaugeConfirmed /\ ~ AtHigh
  /\ pumping' = TRUE
  /\ UNCHANGED <<level, limits, gas, esdOpen, ventOpen, inletOpen>>
  /\ CommitOnly({})

StopPump ==
  /\ pumping
  /\ pumping' = FALSE /\ esdOpen' = FALSE
  /\ UNCHANGED <<level, limits, gas, ventOpen, inletOpen>>
  /\ CommitOnly({})

\* TripController._act: latch, emergency valve, then the pumps.
Act ==
  /\ esdOpen' = FALSE /\ pumping' = FALSE
  /\ UNCHANGED <<level, limits, gas, ventOpen, inletOpen>>
  /\ EvaluateAndCommit({"overfill"}, TRUE, blanket)

ActNot ==
  /\ UNCHANGED <<level, limits, gas, shut, ventOpen, inletOpen>>
  /\ EvaluateAndCommit({}, overfill, blanket)

\* Both refuse an unconfirmed gauge.
TripEsd == gaugeConfirmed /\ IF AtHigh THEN Act ELSE ActNot

NothingToDo_pumpsForgotten == overfill /\ ~ esdOpen
NothingToDo == overfill /\ ~ esdOpen /\ ~ pumping

RetripEsd == gaugeConfirmed /\ IF AtHigh /\ ~ NothingToDo THEN Act ELSE ActNot

\* A trip test sets the latch and evaluates nothing.
TestEsd ==
  /\ overfill' = TRUE
  /\ UNCHANGED <<level, limits, gas, blanket, shut, ventOpen, inletOpen, rolledBack>>
  /\ Records({"overfill"}, TRUE, blanket) /\ Commit

ResetAllowed_valveForgotten == gaugeConfirmed /\ ~ AtHigh

\* TestController.reset: what it demands.
ResetAllowed == ~ (overfill /\ esdOpen) /\ gaugeConfirmed /\ ~ AtHigh

ResetEsd ==
  /\ ResetAllowed
  /\ UNCHANGED <<level, limits, gas, shut, ventOpen, inletOpen>>
  /\ EvaluateAndCommit({"overfill"}, FALSE, blanket)

\* open_valve and close_valve reach every valve of the manifold.
MoveValve(esd, vent, inletValve, own) ==
  /\ esdOpen' = esd /\ ventOpen' = vent /\ inletOpen' = inletValve
  /\ UNCHANGED <<level, limits, gas, pumping>>
  /\ CommitOnly(own)

MoveEsd(to)   == MoveValve(to, ventOpen, inletOpen, {})
MoveVent(to)  == MoveValve(esdOpen, to, inletOpen, {})
MoveInlet(to) == MoveValve(esdOpen, ventOpen, to, {"inlet"})

\* Handlers.interlock_evaluate: the latches change in memory and in the
\* journal, and no commit follows.
EvaluateInterlocks ==
  /\ UNCHANGED <<level, limits, gas, shut, ventOpen, inletOpen, saved>>
  /\ Evaluate(overfill, blanket) /\ Records({}, overfill, blanket)

Refreshed_fromPressure == [t \in Tanks |-> Confirmed(pressure[t], FALSE)]

\* InertService.apply_pressure and apply_alarm, after the window is restored.
Refreshed == [t \in Tanks |-> Confirmed(pressure[t], alarm[t])]

\* The process ends between requests and resumes: the latches and the inlet
\* valve are the committed ones, sheets are gone, and the blanket is refreshed
\* from pressure, alarm and window.  Nothing is evaluated.
Restart ==
  /\ pending' = FALSE
  /\ overfill' = saved.overfill /\ blanket' = saved.blanket
  /\ inletOpen' = saved.inlet /\ rolledBack' = saved.rolledBack
  /\ UNCHANGED <<reading, gaugeConfirmed, limits, pressure, alarm, shut, ventOpen,
                 journalled, saved>>
  /\ gasConfirmed' = Refreshed'

\* Services.rebuild and the commit after it: devices are what the journal says,
\* records behind the last checkpoint of an earlier process included.
Rebuild ==
  /\ pending' = FALSE
  /\ overfill' = journalled'.overfill /\ blanket' = journalled'.blanket
  /\ inletOpen' = journalled'.inlet
  /\ gasConfirmed' = Refreshed'
  /\ rolledBack' = TRUE
  /\ Commit

\* What the record rolled back had set falls back to what an older record of it
\* says, or to the seed: here to any value, as the model keeps no older ones.
\* All else stays.  The record may be one of a latch or of the inlet valve, ...
UndoLogged ==
  /\ \E f \in DOMAIN journalled, value \in BOOLEAN :
       journalled' = [journalled EXCEPT ![f] = value]
  /\ UNCHANGED <<reading, gaugeConfirmed, limits, pressure, alarm, shut, ventOpen>>

\* ... of the level or its gauge, ...
UndoLevel ==
  /\ \/ reading' \in 0 .. MaxReading /\ UNCHANGED gaugeConfirmed
     \/ gaugeConfirmed' \in BOOLEAN /\ UNCHANGED reading
  /\ UNCHANGED <<limits, pressure, alarm, shut, ventOpen, journalled>>

\* ... of a configuration, ...
UndoConfig ==
  /\ limit' \in Limits /\ window' \in Windows
  /\ UNCHANGED <<reading, gaugeConfirmed, pressure, alarm, shut, ventOpen, journalled>>

\* ... of the blanket of a tank, ...
UndoGas(t) ==
  /\ \/ /\ \E p \in Pressures : pressure' = [pressure EXCEPT ![t] = p]
        /\ UNCHANGED alarm
     \/ /\ \E to \in BOOLEAN : alarm' = [alarm EXCEPT ![t] = to]
        /\ UNCHANGED pressure
  /\ UNCHANGED <<reading, gaugeConfirmed, limits, shut, ventOpen, journalled>>

\* ... or of a pump, the emergency valve or the vent.  One that sets nothing
\* here, such as a batch, is among them: the value it falls back to is the same.
UndoDevice ==
  /\ \/ pumping' \in BOOLEAN /\ UNCHANGED <<esdOpen, ventOpen>>
     \/ esdOpen' \in BOOLEAN /\ UNCHANGED <<pumping, ventOpen>>
     \/ ventOpen' \in BOOLEAN /\ UNCHANGED shut
  /\ UNCHANGED <<reading, gaugeConfirmed, limits, pressure, alarm, journalled>>

\* Services.rollback: nothing is evaluated.
Rollback ==
  /\ UndoLogged \/ UndoLevel \/ UndoConfig \/ (\E t \in Tanks : UndoGas(t)) \/ UndoDevice
  /\ Rebuild

Next ==
  \/ OpenInlet \/ FillNothing \/ ReleaseInlet
  \/ \E amount \in 1 .. MaxReading : FillInlet(amount) \/ DrawLevel(amount)
  \/ SwitchGauge \/ ConfirmGauge
  \/ \E high \in Limits, band \in Windows : ReviseConfig(high, band)
  \/ \E t \in Tanks, p \in Pressures : SetPressure(t, p)
  \/ \E t \in Tanks : RaiseAlarm(t) \/ ClearAlarm(t)
  \/ StartPump \/ StopPump
  \/ TripEsd \/ RetripEsd \/ TestEsd \/ ResetEsd
  \/ \E to \in BOOLEAN : MoveEsd(to) \/ MoveVent(to) \/ MoveInlet(to)
  \/ EvaluateInterlocks
  \/ Restart
  \/ Rollback

Spec == Init /\ [][Next]_vars

-----------------------------------------------------------------------------
(* Properties.                                                             *)

\* The variables hold what their comments say.
TypeOK ==
  /\ reading \in 0 .. MaxReading /\ limit \in Limits /\ window \in Windows
  /\ pressure \in [Tanks -> Pressures]
  /\ alarm \in [Tanks -> BOOLEAN] /\ gasConfirmed \in [Tanks -> BOOLEAN]
  /\ \A flag \in {gaugeConfirmed, pending, overfill, blanket, pumping, esdOpen,
                  ventOpen, inletOpen} : flag \in BOOLEAN
  /\ rolledBack \in BOOLEAN
  /\ journalled \in [overfill : BOOLEAN, blanket : BOOLEAN, inlet : BOOLEAN]
  /\ saved \in [overfill : BOOLEAN, blanket : BOOLEAN, inlet : BOOLEAN,
                rolledBack : BOOLEAN]

\* While the process tank is in alarm its latch is set: no operator release of
\* the inlet and no restart leaves it off.  Only a rollback may, and the next
\* request that evaluates sets it again.
AlarmIsLatched == alarm[Process] => blanket \/ rolledBack

\* No tank counts as blanketed while it is in alarm, whatever pressures are
\* reported meanwhile.
AlarmIsUnconfirmed == \A t \in Tanks : alarm[t] => ~ gasConfirmed[t]

\* When a request other than a rollback moves the level, or is the first that
\* evaluates after a rollback moved it, and a confirmed gauge then shows the
\* limit or more, the overfill latch is set at the end of that request, whatever
\* the latch, the configuration and the gauge went through before.
HighLevelLatched ==
  [][(reading' # reading \/ rolledBack) /\ ~ rolledBack' /\ gaugeConfirmed' /\ reading' >= limit'
       => overfill']_vars

\* No request but a rollback releases the overfill latch unless a confirmed
\* gauge shows room and the emergency valve is closed.
LatchReleasedSafely ==
  [][overfill /\ ~ overfill' =>
       Restart \/ Rollback \/ (gaugeConfirmed' /\ reading' < limit' /\ ~ esdOpen')]_vars

\* After a trip or a retrip at high level the plant is shut, also when the
\* retrip found nothing to do.
TripShuts ==
  [][(TripEsd \/ RetripEsd) /\ reading >= limit =>
       overfill' /\ ~ pumping' /\ ~ esdOpen']_vars

\* The tank is never filled into an alarm, not even when the latch of the alarm
\* was released or rolled back.  (A rollback may move the recorded level up.)
NoFillInAlarm == [][reading' > reading => ~ alarm[Process] \/ Rollback]_vars

\* inert/latch.py: "The vent stays open until the alarm clears": an alarm that
\* is cleared does not close it on a tank that is still in alarm.
VentServesEveryAlarm ==
  [][ \A t \in Tanks : ClearAlarm(t) /\ ventOpen /\ ~ ventOpen' =>
        \A u \in Tanks : ~ alarm'[u] ]_vars
=============================================================================
