--------------------------- MODULE InterlockProofs ---------------------------
(***************************************************************************)
(* Proofs about Interlock, for any tanks, limits, pressures and windows    *)
(* and for the rollback of any record.                                     *)
(* An alarm is latched because four things hold together in every          *)
(* reachable state: an alarm switches the confirmation of its tank off,    *)
(* the rule of the blanket latch looks at both, every request that touches *)
(* either ends with an evaluation, and an alarm is not committed without   *)
(* its latch.  A rollback evaluates nothing; what it commits is marked.    *)
(***************************************************************************)
EXTENDS Interlock, TLAPS

\* What a restart would resume from has the latch of an alarm too, and knows of
\* every rollback since the last evaluation.
SavedIsLatched ==
  /\ alarm[Process] => saved.blanket \/ saved.rolledBack
  /\ rolledBack => saved.rolledBack

Lines == [overfill : BOOLEAN, blanket : BOOLEAN, inlet : BOOLEAN]
Saves == [overfill : BOOLEAN, blanket : BOOLEAN, inlet : BOOLEAN, rolledBack : BOOLEAN]

\* What every request keeps besides the latches and the checkpoint: the types
\* of all that it does not evaluate, and no confirmed blanket in alarm.
Plant ==
  /\ reading \in 0 .. MaxReading /\ limit \in Limits /\ window \in Windows
  /\ pressure \in [Tanks -> Pressures]
  /\ alarm \in [Tanks -> BOOLEAN] /\ gasConfirmed \in [Tanks -> BOOLEAN]
  /\ gaugeConfirmed \in BOOLEAN /\ pending \in BOOLEAN /\ pumping \in BOOLEAN
  /\ esdOpen \in BOOLEAN /\ ventOpen \in BOOLEAN
  /\ inletOpen \in BOOLEAN
  /\ AlarmIsUnconfirmed

\* What an evaluation establishes, and what a commit does.
Latched   == /\ overfill \in BOOLEAN /\ blanket \in BOOLEAN /\ rolledBack \in BOOLEAN
             /\ AlarmIsLatched
Committed == saved \in Saves /\ SavedIsLatched

\* What the journal has is what latches can be.
Journalled == journalled \in Lines

\* The inductive invariant.
AlarmInv == Plant /\ Latched /\ Committed /\ Journalled

\* It implies the three invariants of the model.
LEMMA AlarmInvImplies == AlarmInv => TypeOK /\ AlarmIsLatched /\ AlarmIsUnconfirmed
  BY DEF AlarmInv, Plant, Latched, Committed, Saves, Journalled, Lines, TypeOK

\* A pressure is confirmed or it is not.
LEMMA ConfirmedIsBoolean ==
  ASSUME NEW p, NEW alarmed PROVE Confirmed(p, alarmed) \in BOOLEAN
  BY DEF Confirmed, InWindow

\* The initial states satisfy the invariant.
LEMMA AlarmInvInit == Init => AlarmInv
<1> SUFFICES ASSUME Init PROVE AlarmInv
  OBVIOUS
<1>1. Plant
  BY LevelsAssumption, BlanketAssumption, ConfirmedIsBoolean
     DEF Init, Plant, AlarmIsUnconfirmed
<1>2. Latched /\ Committed /\ Journalled
  BY TanksAssumption
     DEF Init, Latched, Committed, Saves, Journalled, Lines, AlarmIsLatched, SavedIsLatched
<1> QED
  BY <1>1, <1>2 DEF AlarmInv

\* What an evaluation makes of the latches, whatever the request left them at:
\* both are Booleans and the blanket latch of a tank in alarm is set.
LEMMA EvaluationLatches ==
  ASSUME NEW over \in BOOLEAN, NEW blank \in BOOLEAN, Evaluate(over, blank),
         OverfillSet' \in BOOLEAN, OverfillClear' \in BOOLEAN,
         BlanketSet' \in BOOLEAN, BlanketClear' \in BOOLEAN
  PROVE  /\ overfill' \in BOOLEAN /\ blanket' \in BOOLEAN /\ rolledBack' \in BOOLEAN
         /\ AlarmIsLatched'
<1>1. overfill' \in BOOLEAN
  BY DEF Evaluate, Rule
<1>2. blanket' \in BOOLEAN
  BY DEF Evaluate, Rule
<1>3. AlarmIsLatched'
  <2>1. SUFFICES ASSUME alarm[Process]' PROVE blanket'
    BY DEF AlarmIsLatched
  <2>2. BlanketSet' /\ ~ BlanketClear'
    BY <2>1 DEF BlanketSet, BlanketClear
  <2> QED
    BY <2>2, Zenon DEF Evaluate, Rule
<1>4. rolledBack' \in BOOLEAN
  BY DEF Evaluate
<1> QED
  BY <1>1, <1>2, <1>3, <1>4

\* A request that keeps the plant and evaluates gets the latches right.
LEMMA EvaluatedLatches ==
  ASSUME Plant', NEW over \in BOOLEAN, NEW blank \in BOOLEAN, Evaluate(over, blank)
  PROVE  Latched'
<1>1. /\ OverfillSet' \in BOOLEAN /\ OverfillClear' \in BOOLEAN
      /\ BlanketSet' \in BOOLEAN /\ BlanketClear' \in BOOLEAN
  BY TanksAssumption
     DEF Plant, OverfillSet, OverfillClear, BlanketSet, BlanketClear, Overfilled, AtHigh
<1> QED
  BY <1>1, EvaluationLatches DEF Latched

\* The records of a request that keeps the plant are of the right type.
LEMMA RecordsKeep ==
  ASSUME Plant, Plant', Latched', Journalled, NEW own, NEW over \in BOOLEAN,
         NEW blank \in BOOLEAN, Records(own, over, blank)
  PROVE  Journalled'
<1> DEFINE now     == [overfill |-> overfill', blanket |-> blanket', inlet |-> inletOpen']
           before  == [overfill |-> over, blanket |-> blank, inlet |-> inletOpen']
           changed == {f \in DOMAIN now : now[f] # before[f]}
           lines   == [f \in DOMAIN now |->
                         IF f \in own \cup changed THEN now[f] ELSE journalled[f]]
<1>1. journalled' = lines
  BY DEF Records
<1>2. now \in Lines /\ before \in Lines /\ journalled \in Lines
  BY DEF Latched, Plant, Journalled, Lines
<1>3. /\ DOMAIN now = {"overfill", "blanket", "inlet"}
      /\ \A f \in {"overfill", "blanket", "inlet"} :
           now[f] \in BOOLEAN /\ before[f] \in BOOLEAN /\ journalled[f] \in BOOLEAN
  BY <1>2 DEF Lines
<1> HIDE DEF now, before
<1>4. lines \in Lines
  <2>1. lines = [overfill |-> lines.overfill, blanket |-> lines.blanket, inlet |-> lines.inlet]
    BY <1>3
  <2>2. \A f \in {"overfill", "blanket", "inlet"} : lines[f] \in BOOLEAN
    BY <1>3
  <2>3. lines.overfill \in BOOLEAN /\ lines.blanket \in BOOLEAN /\ lines.inlet \in BOOLEAN
    BY <2>2
  <2> HIDE DEF lines
  <2> QED
    BY <2>1, <2>3 DEF Lines
<1> QED
  BY <1>1, <1>4 DEF Journalled

\* A commit brings the checkpoint in line.
LEMMA CommitKeeps ==
  ASSUME Plant', Latched', Journalled', Commit
  PROVE  AlarmInv'
<1>1. Committed'
  BY DEF Commit, Committed, Saves, SavedIsLatched, Latched, AlarmIsLatched, Plant
<1> QED
  BY <1>1 DEF AlarmInv

\* A request that keeps the plant, evaluates and commits keeps the invariant.
LEMMA EvaluatedInv ==
  ASSUME AlarmInv, Plant', NEW own, NEW over \in BOOLEAN, NEW blank \in BOOLEAN,
         EvaluateAndCommit(own, over, blank)
  PROVE  AlarmInv'
<1>1. Latched'
  BY EvaluatedLatches DEF EvaluateAndCommit
<1>2. Journalled'
  BY <1>1, RecordsKeep DEF EvaluateAndCommit, AlarmInv
<1> QED
  BY <1>1, <1>2, CommitKeeps DEF EvaluateAndCommit

\* A request that only commits keeps the invariant if it keeps the plant and
\* the alarms.
LEMMA CommittedInv ==
  ASSUME AlarmInv, Plant', NEW own, CommitOnly(own), UNCHANGED alarm
  PROVE  AlarmInv'
<1>1. Latched' /\ overfill \in BOOLEAN /\ blanket \in BOOLEAN
  BY DEF AlarmInv, Latched, AlarmIsLatched, CommitOnly, latches
<1>2. Journalled'
  BY <1>1, RecordsKeep DEF CommitOnly, AlarmInv
<1> QED
  BY <1>1, <1>2, CommitKeeps DEF CommitOnly

\* What a restart or a rebuild makes of the blanket confirmations.
LEMMA RefreshedBlanket ==
  ASSUME alarm' \in [Tanks -> BOOLEAN], gasConfirmed' = Refreshed'
  PROVE  gasConfirmed' \in [Tanks -> BOOLEAN] /\ AlarmIsUnconfirmed'
<1>1. \A t \in Tanks : /\ Confirmed(pressure[t], alarm[t])' \in BOOLEAN
                       /\ alarm'[t] => ~ Confirmed(pressure[t], alarm[t])'
  BY DEF Confirmed, InWindow
<1> QED
  BY <1>1 DEF Refreshed, AlarmIsUnconfirmed

\* Whatever a rolled-back record sets, levels, limits, pressures, alarms, pumps,
\* valves and the journal keep their types.
LEMMA UndoKeeps ==
  ASSUME Plant, Journalled,
         UndoLogged \/ UndoLevel \/ UndoConfig \/ (\E t \in Tanks : UndoGas(t)) \/ UndoDevice
  PROVE  /\ reading' \in 0 .. MaxReading /\ limit' \in Limits /\ window' \in Windows
         /\ pressure' \in [Tanks -> Pressures] /\ alarm' \in [Tanks -> BOOLEAN]
         /\ gaugeConfirmed' \in BOOLEAN /\ pumping' \in BOOLEAN
         /\ esdOpen' \in BOOLEAN /\ ventOpen' \in BOOLEAN
         /\ Journalled'
<1> USE DEF Plant, limits, shut
<1>1. CASE UndoLogged
  <2>1. PICK f \in DOMAIN journalled, value \in BOOLEAN :
          journalled' = [journalled EXCEPT ![f] = value]
    BY <1>1 DEF UndoLogged
  <2>2. Journalled'
    BY <2>1 DEF Journalled, Lines
  <2> QED
    BY <1>1, <2>2 DEF UndoLogged
<1>2. CASE UndoLevel
  BY <1>2 DEF UndoLevel, Journalled
<1>3. CASE UndoConfig
  BY <1>3 DEF UndoConfig, Journalled
<1>4. ASSUME NEW t \in Tanks, UndoGas(t)
      PROVE  /\ pressure' \in [Tanks -> Pressures] /\ alarm' \in [Tanks -> BOOLEAN]
             /\ UNCHANGED <<reading, gaugeConfirmed, limits, shut, ventOpen, journalled>>
  BY <1>4 DEF UndoGas
<1>5. CASE UndoDevice
  BY <1>5 DEF UndoDevice, Journalled
<1> QED
  BY <1>1, <1>2, <1>3, <1>4, <1>5 DEF Journalled

\* A rollback keeps the invariant.
LEMMA RollbackInv ==
  ASSUME AlarmInv, Rollback
  PROVE  AlarmInv'
<1>1. /\ reading' \in 0 .. MaxReading /\ limit' \in Limits /\ window' \in Windows
      /\ pressure' \in [Tanks -> Pressures] /\ alarm' \in [Tanks -> BOOLEAN]
      /\ gaugeConfirmed' \in BOOLEAN /\ pumping' \in BOOLEAN
      /\ esdOpen' \in BOOLEAN /\ ventOpen' \in BOOLEAN
      /\ Journalled'
  BY UndoKeeps DEF Rollback, AlarmInv
<1>2. Rebuild
  BY DEF Rollback
<1>3. /\ journalled'.overfill \in BOOLEAN /\ journalled'.blanket \in BOOLEAN
      /\ journalled'.inlet \in BOOLEAN
  BY <1>1 DEF Journalled, Lines
<1>4. gasConfirmed' \in [Tanks -> BOOLEAN] /\ AlarmIsUnconfirmed'
  BY <1>1, <1>2, RefreshedBlanket DEF Rebuild
<1>5. Plant'
  BY <1>1, <1>2, <1>3, <1>4 DEF Plant, Rebuild
<1>6. Latched'
  BY <1>2, <1>3 DEF Latched, AlarmIsLatched, Rebuild
<1> QED
  BY <1>1, <1>2, <1>5, <1>6, CommitKeeps DEF Rebuild

\* Every step keeps the invariant.
LEMMA AlarmInvStep == ASSUME AlarmInv, [Next]_vars PROVE AlarmInv'
<1> USE DEF level, limits, gas, shut
<1>0. /\ Plant /\ overfill \in BOOLEAN /\ blanket \in BOOLEAN /\ rolledBack \in BOOLEAN
      /\ AlarmIsLatched /\ Committed /\ Journalled
  BY DEF AlarmInv, Latched
<1>1. CASE OpenInlet
  <2>1. Plant'
    BY <1>0, <1>1 DEF OpenInlet, Plant, AlarmIsUnconfirmed
  <2> QED
    BY <1>0, <1>1, <2>1, EvaluatedInv DEF OpenInlet
<1>2. CASE FillNothing
  <2>1. Plant' /\ UNCHANGED <<overfill, blanket, rolledBack, saved, alarm>>
    BY <1>0, <1>2 DEF FillNothing, Plant, AlarmIsUnconfirmed, latches
  <2>2. Journalled'
    BY <1>0, <1>2 DEF FillNothing, Journalled, Lines
  <2> QED
    BY <1>0, <2>1, <2>2 DEF AlarmInv, Latched, Committed, AlarmIsLatched, SavedIsLatched
<1>3. CASE ReleaseInlet
  <2>1. Plant'
    BY <1>0, <1>3 DEF ReleaseInlet, Plant, AlarmIsUnconfirmed
  <2> QED
    BY <1>0, <1>3, <2>1, EvaluatedInv DEF ReleaseInlet
<1>4. ASSUME NEW amount \in 1 .. MaxReading, FillInlet(amount)
      PROVE  AlarmInv'
  <2>1. Plant'
    BY <1>0, <1>4, LevelsAssumption DEF FillInlet, Plant, AlarmIsUnconfirmed
  <2> QED
    BY <1>0, <1>4, <2>1, EvaluatedInv DEF FillInlet
<1>5. ASSUME NEW amount \in 1 .. MaxReading, DrawLevel(amount)
      PROVE  AlarmInv'
  <2>1. Plant'
    BY <1>0, <1>5, LevelsAssumption DEF DrawLevel, Plant, AlarmIsUnconfirmed
  <2> QED
    BY <1>0, <1>5, <2>1, EvaluatedInv DEF DrawLevel
<1>6. CASE SwitchGauge
  <2>1. Plant' /\ UNCHANGED alarm
    BY <1>0, <1>6 DEF SwitchGauge, Plant, AlarmIsUnconfirmed
  <2> QED
    BY <1>6, <2>1, CommittedInv DEF SwitchGauge
<1>7. CASE ConfirmGauge
  <2>1. Plant' /\ UNCHANGED alarm
    BY <1>0, <1>7 DEF ConfirmGauge, Plant, AlarmIsUnconfirmed
  <2> QED
    BY <1>7, <2>1, CommittedInv DEF ConfirmGauge
<1>8. ASSUME NEW high \in Limits, NEW band \in Windows, ReviseConfig(high, band)
      PROVE  AlarmInv'
  <2>1. Plant' /\ UNCHANGED alarm
    BY <1>0, <1>8 DEF ReviseConfig, Plant, AlarmIsUnconfirmed
  <2> QED
    BY <1>8, <2>1, CommittedInv DEF ReviseConfig
<1>9. ASSUME NEW t \in Tanks, NEW p \in Pressures, SetPressure(t, p)
      PROVE  AlarmInv'
  <2>1. alarm[t] => ~ Confirmed(p, alarm[t])
    BY DEF Confirmed
  <2>2. Plant'
    BY <1>0, <1>9, <2>1, ConfirmedIsBoolean DEF SetPressure, Plant, AlarmIsUnconfirmed
  <2> QED
    BY <1>0, <1>9, <2>2, EvaluatedInv DEF SetPressure
<1>10. ASSUME NEW t \in Tanks, RaiseAlarm(t)
       PROVE  AlarmInv'
  <2>1. Plant'
    BY <1>0, <1>10 DEF RaiseAlarm, Plant, AlarmIsUnconfirmed
  <2> QED
    BY <1>0, <1>10, <2>1, EvaluatedInv DEF RaiseAlarm
<1>11. ASSUME NEW t \in Tanks, ClearAlarm(t)
       PROVE  AlarmInv'
  <2>1. Plant'
    BY <1>0, <1>11, ConfirmedIsBoolean DEF ClearAlarm, Plant, AlarmIsUnconfirmed
  <2> QED
    BY <1>0, <1>11, <2>1, EvaluatedInv DEF ClearAlarm
<1>12. CASE StartPump \/ StopPump
  <2>1. Plant' /\ UNCHANGED alarm /\ CommitOnly({})
    BY <1>0, <1>12 DEF StartPump, StopPump, Plant, AlarmIsUnconfirmed
  <2> QED
    BY <2>1, CommittedInv
<1>13. ASSUME Act PROVE AlarmInv'
  <2>1. Plant'
    BY <1>0, <1>13 DEF Act, Plant, AlarmIsUnconfirmed
  <2> QED
    BY <1>0, <1>13, <2>1, EvaluatedInv DEF Act
<1>14. ASSUME ActNot PROVE AlarmInv'
  <2>1. Plant'
    BY <1>0, <1>14 DEF ActNot, Plant, AlarmIsUnconfirmed
  <2> QED
    BY <1>0, <1>14, <2>1, EvaluatedInv DEF ActNot
<1>15. CASE TripEsd \/ RetripEsd
  BY <1>13, <1>14, <1>15 DEF TripEsd, RetripEsd
<1>16. CASE TestEsd
  <2>1. /\ Plant' /\ UNCHANGED <<blanket, alarm, rolledBack>>
        /\ overfill' \in BOOLEAN /\ Commit
    BY <1>0, <1>16 DEF TestEsd, Plant, AlarmIsUnconfirmed
  <2>2. Latched'
    BY <1>0, <2>1 DEF Latched, AlarmIsLatched
  <2>3. Journalled'
    BY <1>0, <1>16, <2>1, <2>2, RecordsKeep DEF TestEsd
  <2> QED
    BY <2>1, <2>2, <2>3, CommitKeeps
<1>17. CASE ResetEsd
  <2>1. Plant'
    BY <1>0, <1>17 DEF ResetEsd, Plant, AlarmIsUnconfirmed
  <2> QED
    BY <1>0, <1>17, <2>1, EvaluatedInv DEF ResetEsd
<1>18. ASSUME NEW to \in BOOLEAN, MoveEsd(to) \/ MoveVent(to) \/ MoveInlet(to)
       PROVE  AlarmInv'
  <2>1. Plant' /\ UNCHANGED alarm /\ (CommitOnly({}) \/ CommitOnly({"inlet"}))
    BY <1>0, <1>18
       DEF MoveEsd, MoveVent, MoveInlet, MoveValve, Plant, AlarmIsUnconfirmed
  <2> QED
    BY <2>1, CommittedInv
<1>19. CASE Restart
  <2>1. gasConfirmed' \in [Tanks -> BOOLEAN] /\ AlarmIsUnconfirmed'
    BY <1>0, <1>19, RefreshedBlanket DEF Restart, Plant
  <2>2. Plant'
    BY <1>0, <1>19, <2>1 DEF Restart, Plant, Committed, Saves
  <2>3. Latched' /\ Committed'
    BY <1>0, <1>19
       DEF Restart, Committed, Saves, SavedIsLatched, Latched, AlarmIsLatched
  <2>4. Journalled'
    BY <1>0, <1>19 DEF Restart, Journalled
  <2> QED
    BY <2>2, <2>3, <2>4 DEF AlarmInv
<1>20. CASE EvaluateInterlocks
  <2>1. Plant' /\ UNCHANGED <<saved, alarm>>
    BY <1>0, <1>20 DEF EvaluateInterlocks, Plant, AlarmIsUnconfirmed
  <2>2. Latched'
    BY <1>0, <1>20, <2>1, EvaluatedLatches DEF EvaluateInterlocks
  <2>3. Journalled'
    BY <1>0, <1>20, <2>1, <2>2, RecordsKeep DEF EvaluateInterlocks
  <2>4. rolledBack' = FALSE
    BY <1>20 DEF EvaluateInterlocks, Evaluate
  <2> QED
    BY <1>0, <2>1, <2>2, <2>3, <2>4 DEF AlarmInv, Committed, SavedIsLatched
<1>21. CASE UNCHANGED vars
  <2>1. /\ Plant'
        /\ UNCHANGED <<overfill, blanket, rolledBack, journalled, saved, alarm>>
    BY <1>0, <1>21 DEF vars, Plant, AlarmIsUnconfirmed, latches, log
  <2> QED
    BY <1>0, <2>1 DEF AlarmInv, Latched, Committed, Journalled, AlarmIsLatched, SavedIsLatched
<1>22. CASE Rollback
  BY <1>22, RollbackInv
<1> QED
  BY <1>1, <1>2, <1>3, <1>4, <1>5, <1>6, <1>7, <1>8, <1>9, <1>10, <1>11, <1>12,
     <1>15, <1>16, <1>17, <1>18, <1>19, <1>20, <1>21, <1>22 DEF Next

\* The invariant holds in every reachable state.
LEMMA AlarmInvAlways == Spec => []AlarmInv
<1> QED
  BY AlarmInvInit, AlarmInvStep, PTL DEF Spec

\* Type correctness, for any number of tanks and any limits.
THEOREM InterlockTypeCorrect == Spec => []TypeOK
<1>1. AlarmInv => TypeOK
  BY AlarmInvImplies
<1> QED
  BY <1>1, AlarmInvAlways, PTL

\* The blanket latch is set whenever the process tank is in alarm, across
\* releases, pressure reports, revisions and restarts, but for what a rollback
\* took back since the last evaluation.
THEOREM AlarmAlwaysLatched == Spec => []AlarmIsLatched
<1>1. AlarmInv => AlarmIsLatched
  BY AlarmInvImplies
<1> QED
  BY <1>1, AlarmInvAlways, PTL

\* No tank in alarm counts as blanketed.
THEOREM AlarmNeverConfirmed == Spec => []AlarmIsUnconfirmed
<1>1. AlarmInv => AlarmIsUnconfirmed
  BY AlarmInvImplies
<1> QED
  BY <1>1, AlarmInvAlways, PTL

-----------------------------------------------------------------------------
(* What a step may never do.                                               *)

\* An evaluation releases the overfill latch of a request that left it set
\* only with a confirmed gauge below the limit and the valve closed.
LEMMA EvaluationReleases ==
  ASSUME NEW blank, Evaluate(TRUE, blank), Plant', ~ overfill'
  PROVE  gaugeConfirmed' /\ ~ AtHigh' /\ ~ esdOpen'
<1>1. OverfillClear' \in BOOLEAN
  BY DEF OverfillClear, Overfilled, AtHigh, Plant
<1>2. OverfillClear'
  BY <1>1 DEF Evaluate, Rule
<1> QED
  BY <1>2, Zenon DEF OverfillClear, Overfilled

\* One request releases the overfill latch only safely.
LEMMA ReleaseStep ==
  ASSUME AlarmInv, AlarmInv', Next, ~ Restart, ~ Rollback, overfill, ~ overfill'
  PROVE  gaugeConfirmed' /\ ~ AtHigh' /\ ~ esdOpen'
<1> DEFINE Safe == gaugeConfirmed' /\ ~ AtHigh' /\ ~ esdOpen'
<1>1. Plant' /\ overfill = TRUE
  BY DEF AlarmInv, Latched
<1>2. ASSUME NEW blank, Evaluate(overfill, blank) PROVE Safe
  <2>1. Evaluate(TRUE, blank)
    BY <1>1, <1>2
  <2> QED
    BY <1>1, <2>1, EvaluationReleases
<1>3. ASSUME NEW blank, Evaluate(TRUE, blank) PROVE Safe
  BY <1>1, <1>3, EvaluationReleases
<1>4. ASSUME overfill' = overfill PROVE FALSE
  BY <1>4
<1>5. CASE OpenInlet \/ ReleaseInlet \/ \E amount \in 1 .. MaxReading : FillInlet(amount)
                                                              \/ DrawLevel(amount)
  BY <1>2, <1>5 DEF OpenInlet, ReleaseInlet, FillInlet, DrawLevel, EvaluateAndCommit
<1>6. CASE \/ FillNothing \/ SwitchGauge \/ ConfirmGauge \/ StartPump \/ StopPump
           \/ \E high \in Limits, band \in Windows : ReviseConfig(high, band)
           \/ \E to \in BOOLEAN : MoveEsd(to) \/ MoveVent(to) \/ MoveInlet(to)
  BY <1>4, <1>6
     DEF FillNothing, SwitchGauge, ConfirmGauge, StartPump, StopPump, ReviseConfig,
         MoveEsd, MoveVent, MoveInlet, MoveValve, CommitOnly, latches
<1>7. CASE \/ \E t \in Tanks, p \in Pressures : SetPressure(t, p)
           \/ \E t \in Tanks : RaiseAlarm(t) \/ ClearAlarm(t)
           \/ EvaluateInterlocks
  BY <1>2, <1>7 DEF SetPressure, RaiseAlarm, ClearAlarm, EvaluateInterlocks, EvaluateAndCommit
<1>8. CASE TripEsd \/ RetripEsd
  BY <1>2, <1>3, <1>8 DEF TripEsd, RetripEsd, Act, ActNot, EvaluateAndCommit
<1>9. CASE TestEsd
  BY <1>9 DEF TestEsd
<1>10. CASE ResetEsd
  BY <1>10 DEF ResetEsd, ResetAllowed, AtHigh, level, limits, shut
<1> QED
  BY <1>5, <1>6, <1>7, <1>8, <1>9, <1>10 DEF Next

\* No request but a rollback releases the overfill latch except on a confirmed gauge below the
\* limit and behind a closed emergency valve, for any levels, limits and tanks.
THEOREM LatchFallsSafely == Spec => LatchReleasedSafely
<1>1. AlarmInv /\ AlarmInv' /\ [Next]_vars =>
        [overfill /\ ~ overfill' =>
           Restart \/ Rollback \/ (gaugeConfirmed' /\ reading' < limit' /\ ~ esdOpen')]_vars
  <2>1. ASSUME AlarmInv, AlarmInv', Next, ~ Restart, ~ Rollback, overfill, ~ overfill'
        PROVE  gaugeConfirmed' /\ reading' < limit' /\ ~ esdOpen'
    <3>1. gaugeConfirmed' /\ ~ AtHigh' /\ ~ esdOpen'
      BY <2>1, ReleaseStep
    <3>2. reading' \in Nat /\ limit' \in Nat
      BY <2>1, LevelsAssumption DEF AlarmInv, Plant
    <3> QED
      BY <3>1, <3>2 DEF AtHigh
  <2> QED
    BY <2>1
<1> QED
  BY <1>1, AlarmInvAlways, PTL DEF Spec, LatchReleasedSafely

\* The level of the process tank rises only while it is not in alarm, but for a
\* rollback, which moves what is recorded of it.
THEOREM NeverFilledInAlarm == Spec => NoFillInAlarm
<1>1. AlarmInv /\ [Next]_vars => [reading' > reading => ~ alarm[Process] \/ Rollback]_vars
  <2> SUFFICES ASSUME AlarmInv, Next, ~ Rollback, reading' > reading PROVE ~ alarm[Process]
    OBVIOUS
  <2> USE DEF level, limits, gas, shut
  <2>1. reading \in Nat /\ \A t \in Tanks : alarm[t] => ~ gasConfirmed[t]
    BY LevelsAssumption DEF AlarmInv, Plant, AlarmIsUnconfirmed
  <2>2. CASE \E amount \in 1 .. MaxReading : FillInlet(amount)
    BY <2>1, <2>2, TanksAssumption DEF FillInlet, InletAllowed
  <2>3. CASE \E amount \in 1 .. MaxReading : DrawLevel(amount)
    BY <2>1, <2>3, LevelsAssumption DEF DrawLevel
  <2>4. ASSUME reading' = reading PROVE FALSE
    BY <2>1, <2>4
  <2>5. CASE \/ OpenInlet \/ FillNothing \/ ReleaseInlet \/ SwitchGauge \/ ConfirmGauge
             \/ StartPump \/ StopPump \/ TripEsd \/ RetripEsd \/ TestEsd \/ ResetEsd
             \/ EvaluateInterlocks \/ Restart
             \/ \E high \in Limits, band \in Windows : ReviseConfig(high, band)
             \/ \E t \in Tanks, p \in Pressures : SetPressure(t, p)
             \/ \E t \in Tanks : RaiseAlarm(t) \/ ClearAlarm(t)
             \/ \E to \in BOOLEAN : MoveEsd(to) \/ MoveVent(to) \/ MoveInlet(to)
    BY <2>4, <2>5
       DEF OpenInlet, FillNothing, ReleaseInlet, SwitchGauge, ConfirmGauge, StartPump,
           StopPump, TripEsd, RetripEsd, Act, ActNot, TestEsd, ResetEsd,
           EvaluateInterlocks, Restart, ReviseConfig, SetPressure, RaiseAlarm,
           ClearAlarm, MoveEsd, MoveVent, MoveInlet, MoveValve
  <2> QED
    BY <2>2, <2>3, <2>5 DEF Next
<1> QED
  BY <1>1, AlarmInvAlways, PTL DEF Spec, NoFillInAlarm

\* An evaluation on a confirmed gauge at the limit leaves the overfill latch
\* set, whatever it was before.
LEMMA HighEvaluates ==
  ASSUME NEW over \in BOOLEAN, NEW blank, Evaluate(over, blank),
         gaugeConfirmed' = TRUE, AtHigh' = TRUE
  PROVE  overfill' = TRUE
<1>1. Overfilled' = TRUE
  BY DEF Overfilled
<1>2. OverfillSet' = TRUE /\ OverfillClear' = FALSE
  BY <1>1 DEF OverfillSet, OverfillClear
<1> QED
  BY <1>2 DEF Evaluate, Rule

\* Every request that moves the level to the limit under a confirmed gauge, but
\* a rollback, and every first one that evaluates after a rollback did so, ends
\* with the overfill latch set.
THEOREM HighLevelAlwaysLatched == Spec => HighLevelLatched
<1>1. AlarmInv /\ AlarmInv' /\ [Next]_vars =>
        [(reading' # reading \/ rolledBack) /\ ~ rolledBack' /\ gaugeConfirmed'
         /\ reading' >= limit' => overfill']_vars
  <2> SUFFICES ASSUME AlarmInv, AlarmInv', Next, reading' # reading \/ rolledBack,
                      ~ rolledBack', gaugeConfirmed', reading' >= limit'
               PROVE  overfill'
    OBVIOUS
  <2> USE DEF level, limits, gas, shut
  <2>1. /\ gaugeConfirmed' = TRUE /\ AtHigh' = TRUE /\ overfill \in BOOLEAN
        /\ rolledBack' = FALSE /\ (rolledBack => saved.rolledBack)
    BY DEF AlarmInv, Plant, Latched, AtHigh, Committed, SavedIsLatched
  <2>2. ASSUME NEW over \in BOOLEAN, NEW blank, Evaluate(over, blank) PROVE overfill'
    BY <2>1, <2>2, HighEvaluates
  <2>3. CASE \/ OpenInlet \/ ReleaseInlet \/ EvaluateInterlocks
             \/ \E amount \in 1 .. MaxReading : FillInlet(amount) \/ DrawLevel(amount)
             \/ \E t \in Tanks, p \in Pressures : SetPressure(t, p)
             \/ \E t \in Tanks : RaiseAlarm(t) \/ ClearAlarm(t)
    BY <2>1, <2>2, <2>3
       DEF OpenInlet, ReleaseInlet, EvaluateInterlocks, FillInlet, DrawLevel, SetPressure,
           RaiseAlarm, ClearAlarm, EvaluateAndCommit
  <2>4. CASE TripEsd \/ RetripEsd \/ ResetEsd
    BY <2>1, <2>2, <2>4
       DEF TripEsd, RetripEsd, Act, ActNot, ResetEsd, EvaluateAndCommit
  <2>5. CASE \/ FillNothing \/ SwitchGauge \/ ConfirmGauge \/ StartPump \/ StopPump
             \/ TestEsd \/ Restart
             \/ \E high \in Limits, band \in Windows : ReviseConfig(high, band)
             \/ \E to \in BOOLEAN : MoveEsd(to) \/ MoveVent(to) \/ MoveInlet(to)
    BY <2>1, <2>5
       DEF FillNothing, SwitchGauge, ConfirmGauge, StartPump, StopPump, TestEsd, Restart,
           ReviseConfig, MoveEsd, MoveVent, MoveInlet, MoveValve, CommitOnly
  <2>6. CASE Rollback
    BY <2>1, <2>6 DEF Rollback, Rebuild
  <2> QED
    BY <2>3, <2>4, <2>5, <2>6 DEF Next
<1> QED
  BY <1>1, AlarmInvAlways, PTL DEF Spec, HighLevelLatched

\* A trip or retrip at high level leaves the plant latched, its pumps off and
\* its emergency valve closed.
THEOREM TripAlwaysShuts == Spec => TripShuts
<1>1. AlarmInv /\ AlarmInv' /\ [Next]_vars =>
        [(TripEsd \/ RetripEsd) /\ reading >= limit =>
           overfill' /\ ~ pumping' /\ ~ esdOpen']_vars
  <2> SUFFICES ASSUME AlarmInv, AlarmInv', TripEsd \/ RetripEsd, reading >= limit
               PROVE  overfill' /\ ~ pumping' /\ ~ esdOpen'
    OBVIOUS
  <2> USE DEF level, limits, gas, shut
  <2>1. /\ gaugeConfirmed = TRUE /\ AtHigh = TRUE /\ overfill \in BOOLEAN
        /\ gaugeConfirmed' \in BOOLEAN
    BY DEF AlarmInv, Plant, Latched, TripEsd, RetripEsd, AtHigh
  <2>2. CASE Act
    <3>1. gaugeConfirmed' = TRUE /\ AtHigh' = TRUE /\ Evaluate(TRUE, blanket)
      BY <2>1, <2>2 DEF Act, AtHigh, EvaluateAndCommit
    <3> QED
      BY <2>2, <3>1, HighEvaluates DEF Act
  <2>3. CASE ActNot /\ NothingToDo
    <3>1. gaugeConfirmed' = TRUE /\ AtHigh' = TRUE /\ Evaluate(overfill, blanket)
      BY <2>1, <2>3 DEF ActNot, AtHigh, EvaluateAndCommit
    <3> QED
      BY <2>1, <2>3, <3>1, HighEvaluates DEF ActNot, NothingToDo
  <2> QED
    BY <2>1, <2>2, <2>3 DEF TripEsd, RetripEsd
<1> QED
  BY <1>1, AlarmInvAlways, PTL DEF Spec, TripShuts
=============================================================================
