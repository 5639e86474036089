--------------------------- MODULE SetpointsProofs ---------------------------
(***************************************************************************)
(* Proofs about Setpoints, for any threads, pumps, targets, step and       *)
(* number of steps: types, where a ramp ends, and what the header shows.   *)
(* RampEnds is a liveness property and stays with TLC.                     *)
(***************************************************************************)
EXTENDS Setpoints, TLAPS

\* A thread that serves a request knows its pump.
Asked == \A t \in Threads : at[t] # "idle" => request[t].pump \in Pumps

TypeInv == TypeOK /\ Asked

\* The local variables of a thread, one by one.
LEMMA LocalTypes ==
  ASSUME NEW r \in Locals
  PROVE  /\ r.pump \in Pumps \cup {NoPump} /\ r.ramp \in BOOLEAN /\ r.target \in Nat
         /\ r.start \in Nat /\ r.direction \in {-1, 0, 1} /\ r.left \in Nat /\ r.value \in Nat
  BY DEF Locals

\* An idle thread has local variables, too.
LEMMA IdleType == Idle \in Locals
  BY DEF Idle, Locals

\* The initial states have the right types.
LEMMA TypeInit == Init => TypeInv
  BY IdleType DEF Init, TypeInv, TypeOK, Asked, Places

\* A request that arrives has the right types.
LEMMA ArrivalTypes ==
  ASSUME TypeInv, NEW t \in Threads, NEW p \in Pumps, NEW target \in Targets,
         SetSetpoint(t, p, target) \/ RampPump(t, p, target)
  PROVE  TypeInv'
<1>0. target \in Nat /\ MaxSteps \in Nat /\ setpoint[p] \in Nat
  BY TargetsAssumption, RampAssumption DEF TypeInv, TypeOK
<1>1. \E to \in {"pump", "commit", "test"}, asked \in Locals :
        asked.pump = p /\ Arrives(t, to, asked)
  <2>1. CASE SetSetpoint(t, p, target)
    <3> DEFINE asked == [Idle EXCEPT !.pump = p, !.target = target, !.value = target]
    <3>1. asked \in Locals /\ asked.pump = p
      BY <1>0 DEF Locals, Idle
    <3> QED
      BY <2>1, <3>1 DEF SetSetpoint
  <2>2. CASE RampPump(t, p, target)
    <3> DEFINE asked == [Idle EXCEPT !.pump = p, !.ramp = TRUE, !.target = target,
                           !.start = setpoint[p], !.left = Budget,
                           !.direction = IF target > setpoint[p] THEN 1 ELSE -1]
    <3>1. asked \in Locals /\ asked.pump = p
      BY <1>0 DEF Locals, Idle, Budget
    <3>2. Arrives(t, IF target = setpoint[p] THEN "commit" ELSE "test", asked)
      BY <2>2 DEF RampPump
    <3> HIDE DEF asked
    <3> QED
      BY <3>1, <3>2
  <2> QED
    BY <2>1, <2>2
<1>2. PICK to \in {"pump", "commit", "test"}, asked \in Locals :
        asked.pump = p /\ Arrives(t, to, asked)
  BY <1>1
<1> QED
  BY <1>2 DEF Arrives, Goes, Overlap, TypeInv, TypeOK, Asked, Places, shared, journal

\* The next value of a pump on a ramp is a number, on its way down as well.
LEMMA StepType ==
  ASSUME TypeInv, NEW t \in Threads, at[t] # "idle"
  PROVE  Clamped(setpoint[Pump(t)] + request[t].direction * Step,
                 request[t].direction, request[t].target) \in Nat
<1>1. setpoint[Pump(t)] \in Nat /\ Step \in Nat
  BY RampAssumption DEF TypeInv, TypeOK, Asked, Pump
<1>2. request[t].target \in Nat /\ request[t].direction \in {-1, 0, 1}
  BY LocalTypes DEF TypeInv, TypeOK
<1>3. CASE request[t].direction = 1
  BY <1>1, <1>2, <1>3 DEF Clamped
<1>4. CASE request[t].direction = 0
  BY <1>1, <1>2, <1>4 DEF Clamped
<1>5. CASE request[t].direction = -1
  BY <1>1, <1>2, <1>5 DEF Clamped
<1> QED
  BY <1>2, <1>3, <1>4, <1>5

\* The loop counts down to zero only.
Counted == \A t \in Threads : at[t] = "step" => request[t].left > 0

\* A step of a thread keeps the types.
LEMMA ServeTypes ==
  ASSUME TypeInv, Counted, NEW t \in Threads, Serve(t)
  PROVE  TypeInv' /\ Counted'
<1> USE DEF TypeInv, TypeOK, Asked, Counted, Goes, Places, shared, journal, threads
<1>0. request[t] \in Locals /\ \A u \in Threads : request[u] \in Locals
  OBVIOUS
<1>1. CASE Test(t)
  <2>1. ~ Arrived(t) => request[t].left > 0
    BY <1>0, LocalTypes DEF Arrived
  <2> QED
    BY <1>1, <2>1 DEF Test
<1>2. CASE TakeStep(t)
  <2> DEFINE value == Clamped(setpoint[Pump(t)] + request[t].direction * Step,
                              request[t].direction, request[t].target)
  <2>1. value \in Nat
    BY <1>2, StepType DEF TakeStep
  <2>2. request' = [request EXCEPT ![t].value = value, ![t].left = LeftAfter(request[t].left)]
    BY <1>2 DEF TakeStep
  <2> HIDE DEF value
  <2>3. LeftAfter(request[t].left) \in Nat
    BY <1>0, <1>2, LocalTypes DEF TakeStep, LeftAfter
  <2>4. request' \in [Threads -> Locals] /\ \A u \in Threads : request'[u].pump = request[u].pump
    BY <1>0, <2>1, <2>2, <2>3 DEF Locals
  <2> QED
    BY <1>2, <2>2, <2>4 DEF TakeStep
<1>3. CASE SetPump(t)
  <2>1. request[t].value \in Nat
    BY <1>0, LocalTypes
  <2> QED
    BY <1>3, <2>1 DEF SetPump
<1>4. CASE WriteHeader(t)
  <2>1. request[t].value \in Nat /\ Pump(t) \in Pumps
    BY <1>0, <1>4, LocalTypes DEF WriteHeader, Pump
  <2> QED
    BY <1>4, <2>1 DEF WriteHeader, Arbitrated
<1>5. CASE RecordHeader(t)
  <2>1. request' \in [Threads -> Locals] /\ \A u \in Threads : request'[u].pump = request[u].pump
    BY <1>5 DEF RecordHeader, Locals
  <2>2. at' \in [Threads -> Places] /\ at'[t] # "step" /\ at[t] # "idle"
        /\ \A u \in Threads \ {t} : at'[u] = at[u] /\ request'[u] = request[u]
    BY <1>5 DEF RecordHeader
  <2> QED
    BY <1>5, <2>1, <2>2 DEF RecordHeader
<1>6. CASE Commit(t)
  BY <1>6, IdleType DEF Commit, Save
<1> QED
  BY <1>1, <1>2, <1>3, <1>4, <1>5, <1>6 DEF Serve

\* Every step keeps the types.
LEMMA TypeStep == ASSUME TypeInv, Counted, [Next]_vars PROVE TypeInv' /\ Counted'
<1>1. ASSUME NEW t \in Threads, NEW p \in Pumps, NEW target \in Targets,
             SetSetpoint(t, p, target) \/ RampPump(t, p, target)
      PROVE  TypeInv' /\ Counted'
  <2>1. Counted'
    BY <1>1 DEF SetSetpoint, RampPump, Arrives, Goes, Counted, TypeInv, TypeOK
  <2> QED
    BY <1>1, <2>1, ArrivalTypes
<1>2. CASE Rollback \/ OtherCommit
  BY <1>2 DEF Rollback, OtherCommit, Save, Overlap, threads, shared, TypeInv, TypeOK, Asked,
    Counted
<1>3. CASE Restart
  BY <1>3, IdleType DEF Restart, TypeInv, TypeOK, Asked, Counted, Places
<1>4. CASE UNCHANGED vars
  BY <1>4 DEF vars, threads, shared, journal, TypeInv, TypeOK, Asked, Counted
<1> QED
  BY <1>1, <1>2, <1>3, <1>4, ServeTypes DEF Next

\* Types and counts hold in every reachable state.
LEMMA TypesAlways == Spec => [](TypeInv /\ Counted)
<1>1. Init => TypeInv /\ Counted
  BY TypeInit DEF Init, Counted
<1> QED
  BY <1>1, TypeStep, PTL DEF Spec

\* Type correctness; no set point is negative, whatever ramps meet.
THEOREM SetpointsTypeCorrect == Spec => []TypeOK
<1>1. TypeInv => TypeOK
  BY DEF TypeInv
<1> QED
  BY <1>1, TypesAlways, PTL

-----------------------------------------------------------------------------
(* One request at a time.                                                  *)

\* Without an overlap at most one thread is busy.
Single == overlaps = 0 => \A t, u \in Threads : at[t] # "idle" /\ at[u] # "idle" => t = u

\* What the steps of a single request may change, and what they leave.
LEMMA ServeFrame ==
  ASSUME TypeInv, NEW t \in Threads, Serve(t)
  PROVE  /\ at[t] # "idle" /\ at' = [at EXCEPT ![t] = at'[t]] /\ overlaps' = overlaps
         /\ request' = [request EXCEPT ![t] = request'[t]]
  BY DEF Serve, Test, TakeStep, SetPump, WriteHeader, RecordHeader, Commit, Goes, threads,
    TypeInv, TypeOK

\* A request that arrives while another is served counts as an overlap.
LEMMA SingleStep ==
  ASSUME TypeInv, Single, [Next]_vars PROVE Single'
<1>0. overlaps \in Nat /\ at \in [Threads -> Places]
  BY DEF TypeInv, TypeOK
<1>1. ASSUME NEW t \in Threads, NEW p \in Pumps, NEW target \in Targets,
             SetSetpoint(t, p, target) \/ RampPump(t, p, target)
      PROVE  Single'
  <2>1. Overlap /\ at' = [at EXCEPT ![t] = at'[t]]
    BY <1>0, <1>1 DEF SetSetpoint, RampPump, Arrives, Goes
  <2> QED
    BY <1>0, <2>1 DEF Overlap, Busy, Single
<1>2. ASSUME NEW t \in Threads, Serve(t) PROVE Single'
  BY <1>0, <1>2, ServeFrame DEF Single
<1>3. CASE Rollback \/ OtherCommit
  BY <1>0, <1>3 DEF Rollback, OtherCommit, threads, Overlap, Single
<1>4. CASE Restart
  BY <1>4 DEF Restart, Single
<1>5. CASE UNCHANGED vars
  BY <1>5 DEF vars, threads, Single
<1> QED
  BY <1>1, <1>2, <1>3, <1>4, <1>5 DEF Next

\* How far n steps lead.
Way(start, target, n) ==
  IF start <= target
  THEN IF start + n * Step < target THEN start + n * Step ELSE target
  ELSE IF start - n * Step > target THEN start - n * Step ELSE target

\* Multiples of the step, as the way uses them.
LEMMA Multiples ==
  /\ 0 * Step = 0
  /\ \A n \in Nat : n * Step \in Nat /\ (n + 1) * Step = n * Step + Step
  /\ \A m, n \in Nat : m <= n => m * Step <= n * Step
<1>0. Step \in Nat
  BY RampAssumption
<1>1. \A n \in Nat : n * Step \in Nat /\ (n + 1) * Step = n * Step + Step
  BY <1>0
<1>2. ASSUME NEW m \in Nat, NEW n \in Nat, m <= n PROVE m * Step <= n * Step
  <2>1. PICK d \in Nat : n = m + d
    <3>1. n - m \in Nat /\ n = m + (n - m)
      BY <1>2
    <3> QED
      BY <3>1
  <2>2. n * Step = m * Step + d * Step /\ d * Step \in Nat /\ m * Step \in Nat
    BY <1>0, <2>1
  <2> QED
    BY <2>2
<1> QED
  BY <1>0, <1>1, <1>2

\* A step leads from the end of n steps to the end of n + 1.
LEMMA WayStep ==
  ASSUME NEW start \in Nat, NEW target \in Nat, NEW n \in Nat, NEW direction,
         start # target, direction = IF target > start THEN 1 ELSE -1
  PROVE  Clamped(Way(start, target, n) + direction * Step, direction, target)
           = Way(start, target, n + 1)
<1> DEFINE far == n * Step
<1>1. far \in Nat /\ (n + 1) * Step = far + Step /\ Step \in Nat
  BY Multiples, RampAssumption
<1> HIDE DEF far
<1>2. /\ Way(start, target, n) = IF start <= target
           THEN IF start + far < target THEN start + far ELSE target
           ELSE IF start - far > target THEN start - far ELSE target
      /\ Way(start, target, n + 1) = IF start <= target
           THEN IF start + (far + Step) < target THEN start + (far + Step) ELSE target
           ELSE IF start - (far + Step) > target THEN start - (far + Step) ELSE target
  BY <1>1 DEF Way, far
<1>3. CASE target > start
  <2>1. direction = 1 /\ direction * Step = Step
    BY <1>1, <1>3
  <2> QED
    BY <1>1, <1>2, <1>3, <2>1 DEF Clamped
<1>4. CASE target < start
  <2>1. direction = -1 /\ direction * Step = -Step
    BY <1>1, <1>4
  <2> QED
    BY <1>1, <1>2, <1>4, <2>1 DEF Clamped
<1> QED
  BY <1>3, <1>4

\* A way that has led to its target, or taken all its steps, ends there.
LEMMA WayEnds ==
  ASSUME NEW start \in Nat, NEW target \in Nat, NEW n \in Nat, n <= MaxSteps,
         n = MaxSteps \/ Way(start, target, n) = target
  PROVE  Way(start, target, n) = Reach(start, target)
<1> DEFINE far == n * Step
           all == MaxSteps * Step
<1>1. MaxSteps \in Nat
  BY RampAssumption
<1>2. far \in Nat /\ all \in Nat /\ far <= all /\ (n = MaxSteps => far = all)
  BY <1>1, Multiples
<1>3. /\ Way(start, target, n) = IF start <= target
           THEN IF start + far < target THEN start + far ELSE target
           ELSE IF start - far > target THEN start - far ELSE target
      /\ Reach(start, target) = IF start <= target
           THEN IF start + all < target THEN start + all ELSE target
           ELSE IF start - all > target THEN start - all ELSE target
  BY DEF Way, Reach
<1> HIDE DEF far, all
<1> QED
  BY <1>2, <1>3

\* Where the ramp of a thread is on its way.
OnWay(t) ==
  LET asked == request[t]
      way   == Way(asked.start, asked.target, MaxSteps - asked.left)
  IN  asked.ramp =>
        /\ at[t] \in {"test", "step", "pump", "header", "record"} =>
             /\ asked.left <= MaxSteps /\ asked.start # asked.target
             /\ asked.direction = IF asked.target > asked.start THEN 1 ELSE -1
        /\ at[t] \in {"test", "step", "header", "record"} => setpoint[asked.pump] = way
        /\ at[t] = "pump" => asked.value = way
        /\ at[t] = "commit" => setpoint[asked.pump] = Reach(asked.start, asked.target)

Ramps == overlaps = 0 => \A t \in Threads : OnWay(t)

\* A ramp starts with no step taken.
LEMMA ArrivalRamps ==
  ASSUME TypeInv, Single, Ramps, NEW t \in Threads, NEW p \in Pumps, NEW target \in Targets,
         SetSetpoint(t, p, target) \/ RampPump(t, p, target), overlaps' = 0
  PROVE  \A u \in Threads : OnWay(u)'
<1>0. /\ target \in Nat /\ MaxSteps \in Nat /\ setpoint[p] \in Nat /\ overlaps \in Nat
      /\ at \in [Threads -> Places] /\ request \in [Threads -> Locals]
  BY TargetsAssumption, RampAssumption DEF TypeInv, TypeOK
<1>1. overlaps = 0 /\ \A u \in Threads : at[u] = "idle"
  BY <1>0 DEF SetSetpoint, RampPump, Arrives, Overlap, Busy
<1>2. \A u \in Threads \ {t} : at'[u] = "idle"
  BY <1>0, <1>1 DEF SetSetpoint, RampPump, Arrives, Goes
<1>3. CASE SetSetpoint(t, p, target)
  <2>1. ~ request'[t].ramp
    BY <1>0, <1>3 DEF SetSetpoint, Arrives, Idle
  <2> QED
    BY <1>2, <2>1 DEF OnWay
<1>4. CASE RampPump(t, p, target)
  <2>1. /\ request'[t].pump = p /\ request'[t].target = target /\ request'[t].start = setpoint[p]
        /\ request'[t].left = MaxSteps
        /\ request'[t].direction = IF target > setpoint[p] THEN 1 ELSE -1
        /\ at'[t] = IF target = setpoint[p] THEN "commit" ELSE "test"
        /\ setpoint' = setpoint
    BY <1>0, <1>4 DEF RampPump, Arrives, Goes, Idle, Budget
  <2>2. Way(setpoint[p], target, 0) = setpoint[p]
    BY <1>0, Multiples DEF Way
  <2>3. target = setpoint[p] => setpoint[p] = Reach(setpoint[p], target)
    <3>1. MaxSteps * Step \in Nat
      BY <1>0, Multiples
    <3> QED
      BY <1>0, <3>1 DEF Reach
  <2>4. MaxSteps - MaxSteps = 0 /\ MaxSteps <= MaxSteps
    BY <1>0
  <2>5. OnWay(t)'
    BY <2>1, <2>2, <2>3, <2>4 DEF OnWay
  <2> QED
    BY <1>2, <2>5 DEF OnWay
<1> QED
  BY <1>3, <1>4

\* A step of the only busy thread keeps its ramp on the way.
LEMMA ServeRamps ==
  ASSUME TypeInv, Counted, Single, Ramps, NEW t \in Threads, Serve(t), overlaps = 0
  PROVE  \A u \in Threads : OnWay(u)'
<1>0. /\ at \in [Threads -> Places] /\ request \in [Threads -> Locals] /\ request[t] \in Locals
      /\ MaxSteps \in Nat /\ setpoint \in [Pumps -> Nat] /\ request[t].pump \in Pumps
  BY RampAssumption, ServeFrame DEF TypeInv, TypeOK, Asked
<1>1. \A u \in Threads \ {t} : at'[u] = "idle"
  BY <1>0, ServeFrame DEF Single
<1>2. OnWay(t)
  BY DEF Ramps
<1>3. /\ request[t].target \in Nat /\ request[t].start \in Nat /\ request[t].left \in Nat
      /\ request[t].ramp \in BOOLEAN
  BY <1>0, LocalTypes
<1> DEFINE asked == request[t]
           way   == Way(asked.start, asked.target, MaxSteps - asked.left)
<1> SUFFICES ASSUME request'[t].ramp PROVE OnWay(t)'
  BY <1>1 DEF OnWay
<1> USE DEF Goes, threads
<1>4. CASE Test(t)
  <2>1. /\ request' = request /\ setpoint' = setpoint /\ at[t] = "test"
        /\ at'[t] = IF Arrived(t) THEN "commit" ELSE "step"
    BY <1>0, <1>4 DEF Test
  <2>2. /\ setpoint[asked.pump] = way /\ asked.left <= MaxSteps
        /\ asked.start # asked.target
        /\ asked.direction = IF asked.target > asked.start THEN 1 ELSE -1
    BY <1>2, <2>1 DEF OnWay
  <2>3. Arrived(t) => setpoint[asked.pump] = Reach(asked.start, asked.target)
    <3>1. SUFFICES ASSUME Arrived(t) PROVE way = Reach(asked.start, asked.target)
      BY <2>2
    <3>2. MaxSteps - asked.left \in Nat /\ MaxSteps - asked.left <= MaxSteps
      BY <1>0, <1>3, <2>2
    <3>3. MaxSteps - asked.left = MaxSteps \/ way = asked.target
      BY <1>0, <2>2, <3>1 DEF Arrived, Pump
    <3> QED
      BY <1>3, <3>2, <3>3, WayEnds
  <2> QED
    BY <2>1, <2>2, <2>3 DEF OnWay
<1>5. CASE TakeStep(t)
  <2> DEFINE n == MaxSteps - asked.left
             value == Clamped(setpoint[asked.pump] + asked.direction * Step,
                              asked.direction, asked.target)
  <2>1. /\ request' = [request EXCEPT ![t].value = value, ![t].left = asked.left - 1]
        /\ setpoint' = setpoint /\ at[t] = "step" /\ at'[t] = "pump"
    BY <1>0, <1>5 DEF TakeStep, LeftAfter, Pump
  <2>2. /\ request'[t].value = value /\ request'[t].left = asked.left - 1
        /\ request'[t].pump = asked.pump /\ request'[t].start = asked.start
        /\ request'[t].target = asked.target /\ request'[t].direction = asked.direction
        /\ request'[t].ramp = asked.ramp
    BY <1>0, <2>1 DEF Locals
  <2>3. /\ setpoint[asked.pump] = way /\ asked.left <= MaxSteps /\ asked.start # asked.target
        /\ asked.direction = IF asked.target > asked.start THEN 1 ELSE -1
    BY <1>2, <2>1, <2>2 DEF OnWay
  <2>4. asked.left > 0 /\ n \in Nat /\ MaxSteps - (asked.left - 1) = n + 1 /\ asked.left - 1 <= MaxSteps
    BY <1>0, <1>3, <2>1, <2>3 DEF Counted
  <2>5. value = Way(asked.start, asked.target, n + 1)
    BY <1>3, <2>3, <2>4, WayStep
  <2> HIDE DEF value, n
  <2> QED
    BY <2>1, <2>2, <2>3, <2>4, <2>5 DEF OnWay
<1>6. CASE SetPump(t)
  <2>1. /\ request' = request /\ at[t] = "pump" /\ at'[t] = "header"
        /\ setpoint'[asked.pump] = asked.value
    BY <1>0, <1>6 DEF SetPump, Pump
  <2> QED
    BY <1>2, <2>1 DEF OnWay
<1>7. CASE WriteHeader(t)
  <2>1. /\ request' = request /\ at[t] = "header" /\ at'[t] = "record" /\ setpoint' = setpoint
    BY <1>0, <1>7 DEF WriteHeader
  <2> QED
    BY <1>2, <2>1 DEF OnWay
<1>8. CASE RecordHeader(t)
  <2>1. request' = [request EXCEPT ![t].value = 0]
    BY <1>8 DEF RecordHeader
  <2>2. /\ at[t] = "record" /\ at'[t] = IF asked.ramp THEN "test" ELSE "commit"
        /\ setpoint' = setpoint
    BY <1>0, <1>8 DEF RecordHeader
  <2>3. /\ request'[t].left = asked.left /\ request'[t].ramp = asked.ramp
        /\ request'[t].pump = asked.pump /\ request'[t].start = asked.start
        /\ request'[t].target = asked.target /\ request'[t].direction = asked.direction
    BY <1>0, <2>1 DEF Locals
  <2> QED
    BY <1>2, <2>2, <2>3 DEF OnWay
<1>9. CASE Commit(t)
  BY <1>0, <1>9 DEF Commit, Idle
<1> QED
  BY <1>4, <1>5, <1>6, <1>7, <1>8, <1>9 DEF Serve

\* Every step keeps the ramps on their way.
LEMMA RampsStep ==
  ASSUME TypeInv, Counted, Single, Ramps, [Next]_vars PROVE Ramps'
<1> SUFFICES ASSUME overlaps' = 0 PROVE \A t \in Threads : OnWay(t)'
  BY DEF Ramps
<1>1. ASSUME NEW t \in Threads, NEW p \in Pumps, NEW target \in Targets,
             SetSetpoint(t, p, target) \/ RampPump(t, p, target)
      PROVE  \A u \in Threads : OnWay(u)'
  BY <1>1, ArrivalRamps
<1>2. ASSUME NEW t \in Threads, Serve(t) PROVE \A u \in Threads : OnWay(u)'
  BY <1>2, ServeRamps, ServeFrame
<1>3. CASE Rollback \/ OtherCommit
  <2>1. \A t \in Threads : at'[t] = "idle"
    BY <1>3 DEF Rollback, OtherCommit, threads, Overlap, Busy, TypeInv, TypeOK
  <2> QED
    BY <2>1 DEF OnWay
<1>4. CASE Restart
  BY <1>4 DEF Restart, OnWay
<1>5. CASE UNCHANGED vars
  BY <1>5 DEF vars, threads, OnWay, Ramps
<1> QED
  BY <1>1, <1>2, <1>3, <1>4, <1>5 DEF Next

\* A ramp that met no other request leaves its pump at its target, or where
\* all its steps lead.
THEOREM RampAlwaysArrives == Spec => []RampArrives
<1>1. Init => TypeInv /\ Counted /\ Single /\ Ramps
  BY TypeInit DEF Init, Counted, Single, Ramps, OnWay
<1>2. TypeInv /\ Counted /\ Single /\ Ramps /\ [Next]_vars
        => (TypeInv /\ Counted /\ Single /\ Ramps)'
  BY TypeStep, SingleStep, RampsStep
<1>3. Ramps => RampArrives
  BY DEF Ramps, OnWay, RampArrives, Pump
<1> QED
  BY <1>1, <1>2, <1>3, PTL DEF Spec

-----------------------------------------------------------------------------
(* What the header shows.                                                  *)

\* The header is journalled, and shows its last writer.
Shown == header = projected /\ (lastWriter # NoPump => setpoint[lastWriter] \in {0, header})

\* How far a thread has come in passing a value on.
Passed(t) ==
  /\ at[t] \in {"test", "step", "pump", "commit"} => Shown
  /\ at[t] = "header" => setpoint[request[t].pump] = request[t].value
  /\ at[t] = "record" => lastWriter # NoPump /\ setpoint[lastWriter] = header

Headers ==
  overlaps = 0 =>
    /\ Busy = {} => Shown /\ saved = header
    /\ \A t \in Threads : Passed(t)

\* A request that arrives finds the header in order.
LEMMA ArrivalHeaders ==
  ASSUME TypeInv, Headers, NEW t \in Threads, NEW p \in Pumps, NEW target \in Targets,
         SetSetpoint(t, p, target) \/ RampPump(t, p, target), overlaps' = 0
  PROVE  Busy' # {} /\ \A u \in Threads : Passed(u)'
<1>1. /\ at' = [at EXCEPT ![t] = at'[t]] /\ at'[t] \in {"pump", "commit", "test"}
      /\ UNCHANGED <<setpoint, header, lastWriter, projected>> /\ Busy = {} /\ overlaps = 0
  BY DEF TypeInv, TypeOK, SetSetpoint, RampPump, Arrives, Goes, Overlap, shared, journal
<1>2. Shown' /\ \A u \in Threads : at[u] = "idle"
  BY <1>1 DEF Headers, Shown, Busy
<1>3. at'[t] # "idle" /\ \A u \in Threads \ {t} : at'[u] = "idle"
  BY <1>1, <1>2 DEF TypeInv, TypeOK
<1> QED
  BY <1>1, <1>2, <1>3 DEF Passed, Busy

\* A step of the only busy thread passes its value on.
LEMMA ServeHeaders ==
  ASSUME TypeInv, Single, Headers, NEW t \in Threads, Serve(t), overlaps = 0
  PROVE  /\ Busy' = {} => Shown' /\ saved' = header'
         /\ \A u \in Threads : Passed(u)'
<1>0. /\ at \in [Threads -> Places] /\ request \in [Threads -> Locals]
      /\ setpoint \in [Pumps -> Nat] /\ request[t].pump \in Pumps /\ request[t].pump # NoPump
  BY ServeFrame, PumpsAssumption DEF TypeInv, TypeOK, Asked
<1>1. \A u \in Threads \ {t} : at'[u] = "idle"
  BY <1>0, ServeFrame DEF Single
<1>2. Passed(t)
  BY DEF Headers
<1> USE DEF Goes, threads, shared, journal
<1>3. CASE Commit(t)
  <2>1. Shown /\ at'[t] = "idle" /\ saved' = projected /\ UNCHANGED <<setpoint, shared, projected>>
    BY <1>0, <1>2, <1>3 DEF Commit, Save, Passed
  <2> QED
    BY <1>1, <2>1 DEF Shown, Passed
<1>4. CASE ~ Commit(t)
  <2>0. at'[t] # "idle"
    BY <1>0, <1>4 DEF Serve, Test, TakeStep, SetPump, WriteHeader, RecordHeader
  <2>1. CASE Test(t) \/ TakeStep(t)
    <3>1. /\ UNCHANGED <<setpoint, shared, projected>> /\ at[t] \in {"test", "step"}
          /\ at'[t] \in {"commit", "step", "pump"}
      BY <1>0, <2>1 DEF Test, TakeStep
    <3>2. Shown'
      BY <1>2, <3>1 DEF Passed, Shown
    <3> QED
      BY <1>1, <2>0, <3>1, <3>2 DEF Passed, Busy
  <2>2. CASE SetPump(t)
    <3>1. /\ at'[t] = "header" /\ request' = request
          /\ setpoint'[request[t].pump] = request[t].value
      BY <1>0, <2>2 DEF SetPump, Pump
    <3> QED
      BY <1>1, <2>0, <3>1 DEF Passed, Busy
  <2>3. CASE WriteHeader(t)
    <3>1. /\ at[t] = "header" /\ at'[t] = "record" /\ lastWriter' = request[t].pump
          /\ header' = request[t].value /\ setpoint' = setpoint
      BY <1>0, <2>3 DEF WriteHeader, Pump, Arbitrated
    <3> QED
      BY <1>0, <1>1, <1>2, <2>0, <3>1 DEF Passed, Busy
  <2>4. CASE RecordHeader(t)
    <3>1. /\ at[t] = "record" /\ at'[t] \in {"test", "commit"} /\ projected' = header
          /\ UNCHANGED <<setpoint, shared>>
      BY <1>0, <2>4 DEF RecordHeader
    <3>2. Shown'
      BY <1>2, <3>1 DEF Passed, Shown
    <3> QED
      BY <1>1, <2>0, <3>1, <3>2 DEF Passed, Busy
  <2> QED
    BY <1>4, <2>1, <2>2, <2>3, <2>4 DEF Serve
<1> QED
  BY <1>3, <1>4

\* Every step keeps the header in order.
LEMMA HeadersStep == ASSUME TypeInv, Single, Headers, [Next]_vars PROVE Headers'
<1> SUFFICES ASSUME overlaps' = 0
             PROVE  /\ Busy' = {} => Shown' /\ saved' = header'
                    /\ \A t \in Threads : Passed(t)'
  BY DEF Headers
<1>1. ASSUME NEW t \in Threads, NEW p \in Pumps, NEW target \in Targets,
             SetSetpoint(t, p, target) \/ RampPump(t, p, target)
      PROVE  Busy' # {} /\ \A u \in Threads : Passed(u)'
  BY <1>1, ArrivalHeaders
<1>2. ASSUME NEW t \in Threads, Serve(t)
      PROVE  (Busy' = {} => Shown' /\ saved' = header') /\ \A u \in Threads : Passed(u)'
  BY <1>2, ServeHeaders, ServeFrame
<1>3. CASE Rollback
  <2>1. /\ Busy = {} /\ Shown /\ at' = at /\ overlaps \in Nat
        /\ header' = projected' /\ saved' = projected'
        /\ lastWriter' = lastWriter /\ setpoint' = [p \in Pumps |-> 0]
    BY <1>3 DEF Rollback, threads, Overlap, Headers, TypeInv, TypeOK
  <2>2. Shown' /\ \A t \in Threads : at'[t] = "idle"
    BY <2>1 DEF Shown, Busy, TypeInv, TypeOK
  <2> QED
    BY <2>1, <2>2 DEF Passed, Shown
<1>4. CASE OtherCommit
  <2>1. /\ Busy = {} /\ Shown /\ UNCHANGED <<at, setpoint, header, projected, lastWriter>>
        /\ saved' = projected
    BY <1>4 DEF OtherCommit, Save, threads, shared, Overlap, Headers, TypeInv, TypeOK
  <2>2. Shown' /\ \A t \in Threads : at'[t] = "idle"
    BY <2>1 DEF Shown, Busy, TypeInv, TypeOK
  <2> QED
    BY <2>1, <2>2 DEF Passed, Shown
<1>5. CASE Restart
  BY <1>5 DEF Restart, Passed, Shown
<1>6. CASE UNCHANGED vars
  BY <1>6 DEF vars, threads, shared, journal, Headers, Passed, Shown, Busy
<1> QED
  BY <1>1, <1>2, <1>3, <1>4, <1>5, <1>6 DEF Next

\* Between requests that did not overlap the header shows the set point of its
\* last writer, and the checkpoint has what it shows.
THEOREM HeaderAlwaysLastWriters == Spec => []HeaderIsLastWriters
<1>1. Init => TypeInv /\ Counted /\ Single /\ Headers
  BY TypeInit DEF Init, Counted, Single, Headers, Shown, Passed
<1>2. TypeInv /\ Counted /\ Single /\ Headers /\ [Next]_vars
        => (TypeInv /\ Counted /\ Single /\ Headers)'
  BY TypeStep, SingleStep, HeadersStep
<1>3. Headers => HeaderIsLastWriters
  BY DEF Headers, Shown, HeaderIsLastWriters
<1> QED
  BY <1>1, <1>2, <1>3, PTL DEF Spec
=============================================================================
