------------------------------ MODULE Setpoints ------------------------------
(***************************************************************************)
(* The set points of the transfer pumps and the one of the header that     *)
(* they share: POST /api/pump/setpoint applies a value at once, POST       *)
(* /api/pump/ramp walks the pump there in steps of a fixed size, and gives *)
(* up after a fixed number of them.  Every value a pump is set to is       *)
(* written through the arbiter to the header and into the journal; a       *)
(* request ends with a commit.                                             *)
(*                                                                         *)
(* Requests are served on threads without a lock, so ramps meet on a pump. *)
(* One action is one access to what they share: a read or a write of the   *)
(* pump, a write of the header, the record of it.  The commit and a        *)
(* rollback are one each, as JournalThreads and Journal have their steps.  *)
(* The demands the arbiter keeps of each pump are only ever reported.      *)
(***************************************************************************)
EXTENDS Integers

CONSTANTS
  Threads,    \* requests that may be served at once
  Pumps,      \* PUMPS
  NoPump,     \* the last writer before the first write
  Targets,    \* values that requests ask for
  Step,       \* RAMP_STEP
  MaxSteps,   \* RAMP_MAX_STEPS
  MaxOverlaps \* bound on overlaps in a process; at the bound nothing arrives

ASSUME PumpsAssumption   == NoPump \notin Pumps
ASSUME TargetsAssumption == Targets \subseteq Nat
ASSUME OverlapsAssumption == MaxOverlaps \in Nat \ {0}
ASSUME RampAssumption == Step \in Nat \ {0} /\ MaxSteps \in Nat \ {0}

VARIABLES
  at,          \* thread -> what it does next
  request,     \* thread -> what it was asked, and its local variables
  setpoint,    \* pump -> Pump.setpoint
  lastWriter,  \* HeaderArbiter._last_writer
  header,      \* Header._setpoint
  projected,   \* StateProjection.header_setpoint
  newest,      \* the set point of the last header record in the journal
  saved,       \* StateProjection.header_setpoint in the checkpoint
  overlaps     \* history variable: requests of this process, and rollbacks,
               \* that overlapped another request

threads == <<at, request>>
shared  == <<lastWriter, header>>
journal == <<projected, newest, saved>>
vars    == <<threads, setpoint, shared, journal, overlaps>>

\* A thread with nothing to do.
Idle == [pump |-> NoPump, ramp |-> FALSE, target |-> 0, start |-> 0,
         direction |-> 0, left |-> 0, value |-> 0]

Init ==
  /\ at = [t \in Threads |-> "idle"]
  /\ request = [t \in Threads |-> Idle]
  /\ setpoint = [p \in Pumps |-> 0]
  /\ lastWriter = NoPump /\ header = 0
  /\ projected = 0 /\ newest = 0 /\ saved = 0
  /\ overlaps = 0

Goes(t, from, to) == at[t] = from /\ at' = [at EXCEPT ![t] = to]

Pump(t) == request[t].pump

-----------------------------------------------------------------------------
(* Requests.                                                               *)

Busy == {t \in Threads : at[t] # "idle"}

Overlap ==
  /\ overlaps < MaxOverlaps
  /\ overlaps' = IF Busy = {} THEN overlaps ELSE overlaps + 1

Arrives(t, to, asked) ==
  /\ Goes(t, "idle", to)
  /\ request' = [request EXCEPT ![t] = asked]
  /\ Overlap
  /\ UNCHANGED <<setpoint, shared, journal>>

\* Services.set_setpoint
SetSetpoint(t, p, target) ==
  Arrives(t, "pump", [Idle EXCEPT !.pump = p, !.target = target, !.value = target])

Budget_oneLess == MaxSteps - 1

Budget == MaxSteps

\* SetpointController.ramp; a pump that is there already is only committed.
\* The direction is decided once.
RampPump(t, p, target) ==
  Arrives(t, IF target = setpoint[p] THEN "commit" ELSE "test",
          [Idle EXCEPT !.pump = p, !.ramp = TRUE, !.target = target,
                       !.start = setpoint[p], !.left = Budget,
                       !.direction = IF target > setpoint[p] THEN 1 ELSE -1])

\* The head of the loop.
Arrived(t) == request[t].left = 0 \/ setpoint[Pump(t)] = request[t].target

Test(t) ==
  /\ Goes(t, "test", IF Arrived(t) THEN "commit" ELSE "step")
  /\ UNCHANGED <<request, setpoint, shared, journal, overlaps>>

Clamped_upwardsOnly(step, direction, target) ==
  IF direction > 0 /\ step > target THEN target ELSE step

\* A step that would pass the target ends there.
Clamped(step, direction, target) ==
  IF \/ direction > 0 /\ step > target
     \/ direction < 0 /\ step < target
  THEN target ELSE step

LeftAfter_unlimited(left) == left

LeftAfter(left) == left - 1

\* The pump is read again for the step.
TakeStep(t) ==
  /\ Goes(t, "step", "pump")
  /\ LET asked == request[t]
         step  == setpoint[Pump(t)] + asked.direction * Step
     IN  request' = [request EXCEPT
           ![t].value = Clamped(step, asked.direction, asked.target),
           ![t].left  = LeftAfter(asked.left)]
  /\ UNCHANGED <<setpoint, shared, journal, overlaps>>

\* SetpointController.apply: the pump, ...
SetPump(t) ==
  /\ Goes(t, "pump", "header")
  /\ setpoint' = [setpoint EXCEPT ![Pump(t)] = request[t].value]
  /\ UNCHANGED <<request, shared, journal, overlaps>>

Arbitrated_highest(value) == IF value > header THEN value ELSE header

\* The last writer wins, whatever the other pump demands.
Arbitrated(value) == value

\* ... HeaderArbiter.write and Header.write, ...
WriteHeader(t) ==
  /\ Goes(t, "header", "record")
  /\ lastWriter' = Pump(t) /\ header' = Arbitrated(request[t].value)
  /\ UNCHANGED <<request, setpoint, journal, overlaps>>

\* ... and the record, for which the header is read again.
RecordHeader(t) ==
  /\ Goes(t, "record", IF request[t].ramp THEN "test" ELSE "commit")
  /\ projected' = header /\ newest' = header
  /\ request' = [request EXCEPT ![t].value = 0]
  /\ UNCHANGED <<setpoint, shared, saved, overlaps>>

\* Services.commit: the checkpoint gets the projection.
Save == saved' = projected

\* The commit that ends both requests.
Commit(t) ==
  /\ Goes(t, "commit", "idle")
  /\ Save
  /\ request' = [request EXCEPT ![t] = Idle]
  /\ UNCHANGED <<setpoint, shared, projected, newest, overlaps>>

-----------------------------------------------------------------------------
(* What else reaches the header.                                           *)

\* A request about another part of the plant commits, too.
OtherCommit ==
  /\ Save
  /\ Overlap
  /\ UNCHANGED <<threads, setpoint, shared, projected, newest>>

\* The rollback of a record of another kind: it commits its tombstone and folds
\* the projection again from all records, those included that a process left
\* behind its last checkpoint; the header gets what it finds there, the pumps
\* are back at their seed, and the arbiter is not told.
Rollback ==
  /\ setpoint' = [p \in Pumps |-> 0]
  /\ projected' = newest /\ header' = newest /\ saved' = newest
  /\ Overlap
  /\ UNCHANGED <<threads, lastWriter, newest>>

\* The process ends, and a new one resumes from the checkpoint: the records
\* behind its watermark stay in the journal and out of the projection.
Restart ==
  /\ at' = [t \in Threads |-> "idle"]
  /\ request' = [t \in Threads |-> Idle]
  /\ setpoint' = [p \in Pumps |-> 0]
  /\ lastWriter' = NoPump /\ header' = saved /\ projected' = saved
  /\ overlaps' = 0
  /\ UNCHANGED <<newest, saved>>

Serve(t) ==
  \/ Test(t) \/ TakeStep(t) \/ SetPump(t) \/ WriteHeader(t)
  \/ RecordHeader(t) \/ Commit(t)

Next ==
  \/ \E t \in Threads, p \in Pumps, target \in Targets :
       SetSetpoint(t, p, target) \/ RampPump(t, p, target)
  \/ \E t \in Threads : Serve(t)
  \/ OtherCommit
  \/ Rollback
  \/ Restart

\* The operating system schedules every thread of the server; whether and when
\* requests arrive or the process ends is not up to it.
Fairness == \A t \in Threads : WF_vars(Serve(t))

Spec == Init /\ [][Next]_vars /\ Fairness

-----------------------------------------------------------------------------
(* Properties.                                                             *)

Places == {"idle", "test", "step", "pump", "header", "record", "commit"}

Locals ==
  [pump : Pumps \cup {NoPump}, ramp : BOOLEAN, target : Nat, start : Nat,
   direction : {-1, 0, 1}, left : Nat, value : Nat]

\* The variables hold what their comments say; no set point is ever negative,
\* however ramps in opposite directions meet on a pump.
TypeOK ==
  /\ at \in [Threads -> Places] /\ request \in [Threads -> Locals]
  /\ setpoint \in [Pumps -> Nat]
  /\ lastWriter \in Pumps \cup {NoPump}
  /\ header \in Nat
  /\ projected \in Nat /\ newest \in Nat /\ saved \in Nat
  /\ overlaps \in Nat

\* Where a ramp from `start` ends: at its target, if the steps are enough.
Reach(start, target) ==
  LET far == MaxSteps * Step
  IN  IF start <= target
      THEN IF start + far < target THEN start + far ELSE target
      ELSE IF start - far > target THEN start - far ELSE target

\* As long as no two requests overlapped, a ramp leaves its pump exactly there,
\* short of its target only when that is further away than all its steps
\* (test_pump_ramp_walks_towards_the_target).
RampArrives ==
  \A t \in Threads : overlaps = 0 /\ at[t] = "commit" /\ request[t].ramp =>
    setpoint[Pump(t)] = Reach(request[t].start, request[t].target)

\* test_header_setpoint_follows_the_last_writer, also through restarts and
\* rollbacks: as long as no two requests overlapped, the header shows the set
\* point of its last writer, unless a rebuild took that from the pump, and a
\* restart would restore what it shows.
HeaderIsLastWriters ==
  overlaps = 0 /\ Busy = {} =>
    /\ header = projected /\ header = saved
    /\ lastWriter # NoPump => setpoint[lastWriter] \in {0, header}

\* Every request comes to its end, also when ramps pull a pump in opposite
\* directions for as long as they run.
RampEnds == \A t \in Threads : at[t] # "idle" ~> at[t] = "idle"
=============================================================================
