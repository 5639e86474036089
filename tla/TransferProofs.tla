--------------------------- MODULE TransferProofs ---------------------------
(***************************************************************************)
(* Proofs about Transfer.  TypeInv holds for any threads and faults.  The  *)
(* rest is about one request at a time and lines that are all written:     *)
(* what is true of the plant, the journal and the checkpoint at each step  *)
(* of a request (Doing), for any pumps, persists, restarts and rollbacks.  *)
(***************************************************************************)
EXTENDS Transfer, FiniteSetTheorems, SequenceTheorems, TLAPS

Records ==
  {Entry("stage", n) : n \in Idle .. PumpRunning}
    \cup {EntryOf("valve", v, to) : v \in Valves, to \in BOOLEAN}
    \cup {EntryOf("pump", p, to) : p \in Pumps, to \in BOOLEAN}
    \cup {Entry("latch", b) : b \in BOOLEAN} \cup {Entry("level", to) : to \in Levels}
    \cup {Entry("persisted", n) : n \in Nat} \cup {Other}

\* The steps of requests.
Steps ==
  {Do(op) : op \in {"issue", "ifIdle", "commit", "evaluate", "undo", "rebuild"}}
    \cup {Check(target) : target \in ValvesSaved .. PumpRunning}
    \cup {Enter(target) : target \in ValvesSaved .. PumpRunning}
    \cup {Fact(name) : name \in {"persisted", "newOpen", "oldClosed"}}
    \cup {Move(v, to) : v \in Valves, to \in BOOLEAN}
    \cup {Ensure(v, to) : v \in Valves, to \in BOOLEAN}
    \cup {Save(v) : v \in Valves}
    \cup {Verify(s) : s \in Nat} \cup {Use(s) : s \in Nat}
    \cup {Energise(p, s) : p \in Pumps, s \in Nat}
    \cup {Stop(p) : p \in Pumps} \cup {StopEach(left) : left \in SUBSET Pumps}
    \cup {Off(p) : p \in Pumps}
    \cup {SetLevel(to) : to \in Levels} \cup {Latch(active) : active \in BOOLEAN}
    \cup {Write(r) : r \in Records}

TypeInv == TypeOK /\ todo \in [Threads -> Seq(Steps)]

-----------------------------------------------------------------------------
(* One request at a time.                                                  *)

OneThread == \E t : Threads = {t}

\* What a program has left from its k-th step on.
From(program, k) == SubSeq(program, k, Len(program))

Single(pumps) == \A p, q \in pumps : p = q

\* The device has changed and its record is the next step of q.
Reports(q) == q # <<>> /\ Head(q).op = "write"

\* A projection with the record that is about to be appended.
ToBe(projection, q) == IF Reports(q) THEN Apply(projection, Head(q).record) ELSE projection

\* Which of the claims about stages and generations the rollbacks left alone.
StageKept      == "stage" \notin undone
StageLives     == StageKept \/ ~ jumped
GenerationKept == "persisted" \notin undone

\* The journal, with the record under way, is the plant.
Agrees(P) ==
  /\ P.open = open /\ P.running = running /\ P.latched = latched
  /\ P.stage = stage
  /\ P.level = level \/ "level" \in undone
  /\ P.generation = generation \/ ~ GenerationKept

\* The checkpoint and the stream are behind and ahead of the plant.
Between(S) ==
  GenerationKept => /\ saved.generation <= generation /\ generation <= S.generation
                    /\ saved.generation <= stream.generation

\* A pump runs at the last stage only, in the plant ...
StageInv ==
  /\ StageLives => /\ saved.stage <= stage
                   /\ running # {} => stage = PumpRunning
                   /\ saved.running # {} => saved.stage = PumpRunning
  /\ ~ jumped => Single(running) /\ Single(saved.running)

\* ... and in what a rollback would make of it.
Reached(P) ==
  P.running # {} \/ past.pumps # {} =>
    P.stage = PumpRunning /\ saved.stage >= OldTankClosed

StreamInv(S) ==
  StageKept => /\ saved.stage <= stream.stage /\ stage <= S.stage
               /\ Reached(stream) /\ Reached(S)

\* No valve moved since the sheet of the current generation, if all are durable.
Vouched ==
  \A s \in DOMAIN sheets :
    sheets[s].generation = generation /\ durable = Valves => s \in vouching

\* No sheet is ahead of the valves, or was used twice.
SheetsBehind ==
  \A s \in DOMAIN sheets : sheets[s].generation <= generation /\ sheets[s].uses <= 1

\* The checkpoint is the plant, but for the stage, and for what an evaluation made
\* of the latch.
Shown ==
  /\ saved.open = open /\ saved.running = running
  /\ saved.generation = generation \/ ~ GenerationKept
  /\ saved.level = level \/ "level" \in undone
  /\ latched /\ ~ saved.latched => level = "limit"
  /\ ~ latched /\ saved.latched => MayClear

Settled == Shown /\ (saved.stage = stage \/ ~ StageKept)

\* Steps with a fixed argument.
SetLatch   == Latch(TRUE)
ClearLatch == Latch(FALSE)
ShutEsd    == Move(Esd, FALSE)
OpenNew    == Move(New, TRUE)
CloseOld   == Move(Old, FALSE)

\* The steps that touch neither stage nor pumps nor tanks, and only set the latch.
CalmSteps ==
  {Note, Do("evaluate"), Do("commit"), SetLatch, ShutEsd}
    \cup {Fact(name) : name \in {"persisted", "newOpen", "oldClosed"}}
    \cup {StopEach(left) : left \in SUBSET Pumps}

\* The end of a request: calm steps, the last of them the commit; ...
Calm(q) ==
  /\ q \in Seq(CalmSteps) /\ q # <<>>
  /\ \A i \in 1 .. Len(q) : q[i] = Do("commit") <=> i = Len(q)

\* ... before them one that is not: it switches a pump off or the latch, or
\* moves the level; ...
Switching(q) ==
  /\ q # <<>> /\ Calm(Tail(q))
  /\ \/ Head(q) \in {Off(p) : p \in Pumps} /\ Esd \notin open
     \/ Head(q) = ClearLatch /\ (latched => Esd \notin open)
     \/ Head(q) \in {SetLevel(to) : to \in Levels}

\* ... or the two that stop a pump behind the emergency valve.
Stopping(q) ==
  /\ q # <<>> /\ Tail(q) # <<>> /\ Calm(Tail(Tail(q)))
  /\ Head(q) = ShutEsd /\ Head(Tail(q)) \in {Off(p) : p \in Pumps}

\* The handover, before its k-th step.
Changing(q, k) ==
  /\ q = From(ChangeProgram, k)
  /\ k = 1 => Settled
  /\ k = 2 => stage = ValvesSaved
  /\ k \in 3 .. 7 => stage = NewTankOpen
  /\ k \in 4 .. 8 => New \in open
  /\ k \in 6 .. 7 => "newOpen" \in facts

\* Its repetition.
Retrying(q) ==
  \/ q = <<Ensure(New, TRUE), Ensure(Old, FALSE), Do("commit")>>
  \/ q = <<OpenNew, Note, Ensure(Old, FALSE), Do("commit")>>
  \/ /\ New \in open
     /\ \/ q = <<Note, Ensure(Old, FALSE), Do("commit")>>
        \/ q = <<Ensure(Old, FALSE), Do("commit")>>
        \/ q = <<CloseOld, Note, Do("commit")>>

\* A valve moved by hand.
Moving(q) == \E v \in Valves, to \in BOOLEAN : q = <<Move(v, to), Do("commit")>>

\* The start of a pump, before its k-th step.
Starting(q, p, s, k) ==
  /\ q = From(StartProgram(p, s), k)
  /\ s \in DOMAIN sheets
  /\ Shown
  /\ k <= 5 => saved.stage = stage \/ ~ StageKept
  /\ k \in 2 .. 5 => stage = OldTankClosed
  /\ k = 6 => stage = PumpRunning
  /\ k >= 2 => /\ StageLives => running = {}
               /\ StageKept => saved.stage = OldTankClosed
  /\ k >= 3 => ~ latched /\ s \in vouching
  /\ k = 3 => sheets[s].uses = 0

\* The first persist, which advances the sequence.
Advancing(q) ==
  /\ q \in {<<Check(ValvesSaved), Enter(ValvesSaved), Do("commit")>>,
            <<Enter(ValvesSaved), Do("commit")>>}
  /\ stage = Idle

\* What nobody asked to commit.
Uncommitted(q) ==
  /\ Settled
  /\ \/ q = <<>> \/ q = <<Note>> \/ q = <<Do("evaluate")>>
     \/ q = <<SetLatch>> /\ level = "limit"
     \/ q = <<ClearLatch>> /\ MayClear

Undoing(q) ==
  \/ q = <<Do("rebuild"), Do("commit")>>
  \/ q = <<Do("undo"), Do("rebuild"), Do("commit")>>

Halting(q) == Settled /\ \E p \in Pumps : q = <<Stop(p), Do("commit")>>

\* A persist; while it marks the valves nobody vouches for them.
Persisting(q, k) ==
  /\ q = From(PersistProgram, k)
  /\ k \notin 2 .. 4 => Vouched

\* What is true while a thread has q left to do and no record under way.
Form(q) ==
  \/ \E k \in 1 .. 6 : Persisting(q, k)
  \/ /\ Vouched
     /\ \/ \E k \in 1 .. 8 : Changing(q, k)
        \/ \E p \in Pumps, s \in Nat, k \in 1 .. 6 : Starting(q, p, s, k)
        \/ Advancing(q)
        \/ Uncommitted(q)
        \/ Calm(q) \/ Switching(q) \/ Stopping(q)
        \/ Retrying(q) \/ Moving(q) \/ Undoing(q) \/ Halting(q)

Doing(q) == Form(q) \/ (Reports(q) /\ Form(Tail(q)))

RequestInv ==
  /\ StageInv
  /\ SheetsBehind
  /\ \A t \in Threads : /\ Doing(todo[t])
                        /\ Agrees(ToBe(journal, todo[t]))
                        /\ Between(ToBe(stream, todo[t]))
                        /\ StreamInv(ToBe(stream, todo[t]))

-----------------------------------------------------------------------------
(* Types.                                                                  *)

\* The fields of the steps.
LEMMA Fields ==
  /\ \A o : Do(o).op = o
  /\ \A n : Check(n).op = "check" /\ Check(n).target = n
  /\ \A n : Enter(n).op = "enter" /\ Enter(n).target = n
  /\ \A f : Fact(f).op = "fact" /\ Fact(f).name = f
  /\ \A v, to : Move(v, to).op = "move" /\ Move(v, to).valve = v /\ Move(v, to).to = to
  /\ \A v, to : Ensure(v, to).op = "ensure" /\ Ensure(v, to).valve = v /\ Ensure(v, to).to = to
  /\ \A v : Save(v).op = "save" /\ Save(v).valve = v
  /\ \A s : Verify(s).op = "verify" /\ Verify(s).sheet = s
  /\ \A s : Use(s).op = "use" /\ Use(s).sheet = s
  /\ \A p, s : /\ Energise(p, s).op = "energise"
               /\ Energise(p, s).pump = p /\ Energise(p, s).sheet = s
  /\ \A p : Stop(p).op = "stop" /\ Stop(p).pump = p
  /\ \A u : StopEach(u).op = "stopEach" /\ StopEach(u).left = u
  /\ \A p : Off(p).op = "off" /\ Off(p).pump = p
  /\ \A n : SetLevel(n).op = "level" /\ SetLevel(n).to = n
  /\ \A b : Latch(b).op = "latch" /\ Latch(b).active = b
  /\ \A r : Write(r).op = "write" /\ Write(r).record = r
  /\ Note.op = "write" /\ Note.record = Other
  BY DEF Do, Check, Enter, Fact, Move, Ensure, Save, Verify, Use, Energise, Stop, StopEach,
         Off, SetLevel, Latch, Write, Note

\* The values of the fields of a step.
LEMMA StepTypes ==
  ASSUME NEW x \in Steps
  PROVE  /\ x.op \in {"check", "enter"} => x.target \in ValvesSaved .. PumpRunning
         /\ x.op = "fact" => x.name \in {"persisted", "newOpen", "oldClosed"}
         /\ x.op \in {"move", "ensure", "save"} => x.valve \in Valves
         /\ x.op \in {"move", "ensure"} => x.to \in BOOLEAN
         /\ x.op \in {"verify", "use", "energise"} => x.sheet \in Nat
         /\ x.op \in {"energise", "stop", "off"} => x.pump \in Pumps
         /\ x.op = "stopEach" => x.left \subseteq Pumps
         /\ x.op = "level" => x.to \in Levels
         /\ x.op = "latch" => x.active \in BOOLEAN
         /\ x.op = "write" => x.record \in Records
  BY Fields DEF Steps

\* What each record does to a projection.
LEMMA Applied ==
  ASSUME NEW P
  PROVE  /\ \A n : Apply(P, Entry("stage", n)) = [P EXCEPT !.stage = n]
         /\ \A v, to : Apply(P, EntryOf("valve", v, to)) = [P EXCEPT !.open = Put(@, v, to)]
         /\ \A p, to : Apply(P, EntryOf("pump", p, to)) = [P EXCEPT !.running = Put(@, p, to)]
         /\ \A b : Apply(P, Entry("latch", b)) = [P EXCEPT !.latched = b]
         /\ \A b : Apply(P, Entry("level", b)) = [P EXCEPT !.level = b]
         /\ \A n : Apply(P, Entry("persisted", n)) = [P EXCEPT !.generation = n]
         /\ Apply(P, Other) = P
  BY DEF Apply, Entry, EntryOf, Other

LEMMA AppliedPump ==
  ASSUME NEW P, NEW p
  PROVE  /\ Apply(P, EntryOf("pump", p, TRUE)) = [P EXCEPT !.running = @ \cup {p}]
         /\ Apply(P, EntryOf("pump", p, FALSE)) = [P EXCEPT !.running = @ \ {p}]
  BY DEF Apply, EntryOf, Put

\* Folding a record keeps a projection one.
LEMMA ApplyType ==
  ASSUME NEW P \in Projections, NEW r \in Records
  PROVE  Apply(P, r) \in Projections
<1>1. CASE r \in {Entry("stage", n) : n \in Idle .. PumpRunning}
  BY <1>1, Applied DEF Projections
<1>2. CASE r \in {EntryOf("valve", v, to) : v \in Valves, to \in BOOLEAN}
  BY <1>2, Applied DEF Projections, Put
<1>3. CASE r \in {EntryOf("pump", p, to) : p \in Pumps, to \in BOOLEAN}
  BY <1>3, Applied DEF Projections, Put
<1>4. CASE r \in {Entry("latch", b) : b \in BOOLEAN} \cup {Entry("level", b) : b \in Levels}
  BY <1>4, Applied DEF Projections
<1>5. CASE r \in {Entry("persisted", n) : n \in Nat} \cup {Other}
  BY <1>5, Applied DEF Projections
<1> QED
  BY <1>1, <1>2, <1>3, <1>4, <1>5 DEF Records

\* The steps are in Steps, the records in Records.
LEMMA RecordMembers ==
  /\ \A n \in Idle .. PumpRunning : Entry("stage", n) \in Records
  /\ \A v \in Valves, to \in BOOLEAN : EntryOf("valve", v, to) \in Records
  /\ \A v \in Valves : EntryOf("valve", v, v \in open) \in Records
  /\ \A p \in Pumps : /\ EntryOf("pump", p, TRUE) \in Records
                      /\ EntryOf("pump", p, FALSE) \in Records
  /\ \A p \in Pumps, on \in BOOLEAN : EntryOf("pump", p, on) \in Records
  /\ \A b \in BOOLEAN : Entry("latch", b) \in Records
  /\ \A to \in Levels : Entry("level", to) \in Records
  /\ \A n \in Nat : Entry("persisted", n) \in Records
  /\ Other \in Records
<1>0. TRUE \in BOOLEAN /\ FALSE \in BOOLEAN /\ \A v \in Valves : (v \in open) \in BOOLEAN
  OBVIOUS
<1>1. \A n \in Idle .. PumpRunning : Entry("stage", n) \in Records
  BY DEF Records
<1>2. \A v \in Valves, to \in BOOLEAN : EntryOf("valve", v, to) \in Records
  BY DEF Records
<1>3. \A v \in Valves : EntryOf("valve", v, v \in open) \in Records
  BY <1>0, <1>2, Zenon
<1>4. \A p \in Pumps, to \in BOOLEAN : EntryOf("pump", p, to) \in Records
  BY DEF Records
<1>5. \A p \in Pumps : EntryOf("pump", p, TRUE) \in Records /\ EntryOf("pump", p, FALSE) \in Records
  BY <1>0, <1>4, Zenon
<1>6. /\ \A b \in BOOLEAN : Entry("latch", b) \in Records
      /\ \A to \in Levels : Entry("level", to) \in Records
  BY DEF Records
<1>7. \A n \in Nat : Entry("persisted", n) \in Records
  BY DEF Records
<1>8. Other \in Records
  BY DEF Records
<1> QED
  BY <1>1, <1>2, <1>3, <1>4, <1>5, <1>6, <1>7, <1>8, Zenon

LEMMA StepMembers ==
  /\ \A op \in {"issue", "ifIdle", "commit", "evaluate", "undo", "rebuild"} : Do(op) \in Steps
  /\ \A n \in ValvesSaved .. PumpRunning : Check(n) \in Steps /\ Enter(n) \in Steps
  /\ \A f \in {"persisted", "newOpen", "oldClosed"} : Fact(f) \in Steps
  /\ \A v \in Valves : /\ \A to \in BOOLEAN : Move(v, to) \in Steps /\ Ensure(v, to) \in Steps
                      /\ Move(v, TRUE) \in Steps /\ Move(v, FALSE) \in Steps
                      /\ Ensure(v, TRUE) \in Steps /\ Ensure(v, FALSE) \in Steps
                      /\ Save(v) \in Steps
  /\ \A s \in Nat : Verify(s) \in Steps /\ Use(s) \in Steps
  /\ \A p \in Pumps, s \in Nat : Energise(p, s) \in Steps
  /\ \A p \in Pumps : Stop(p) \in Steps /\ Off(p) \in Steps
  /\ \A left \in SUBSET Pumps : StopEach(left) \in Steps
  /\ \A to \in Levels : SetLevel(to) \in Steps
  /\ \A b \in BOOLEAN : Latch(b) \in Steps
  /\ Latch(TRUE) \in Steps /\ Latch(FALSE) \in Steps
  /\ \A r \in Records : Write(r) \in Steps
  /\ Note \in Steps
<1>0. TRUE \in BOOLEAN /\ FALSE \in BOOLEAN
  OBVIOUS
<1>1. \A op \in {"issue", "ifIdle", "commit", "evaluate", "undo", "rebuild"} : Do(op) \in Steps
  BY DEF Steps
<1>2. \A n \in ValvesSaved .. PumpRunning : Check(n) \in Steps /\ Enter(n) \in Steps
  BY DEF Steps
<1>3. \A f \in {"persisted", "newOpen", "oldClosed"} : Fact(f) \in Steps
  BY DEF Steps
<1>4. \A v \in Valves, to \in BOOLEAN : Move(v, to) \in Steps /\ Ensure(v, to) \in Steps
  BY DEF Steps
<1>5. \A v \in Valves : /\ Move(v, TRUE) \in Steps /\ Move(v, FALSE) \in Steps
                       /\ Ensure(v, TRUE) \in Steps /\ Ensure(v, FALSE) \in Steps
  BY <1>0, <1>4, Zenon
<1>6. \A v \in Valves : Save(v) \in Steps
  BY DEF Steps
<1>7. \A s \in Nat : Verify(s) \in Steps /\ Use(s) \in Steps
  BY DEF Steps
<1>8. \A p \in Pumps, s \in Nat : Energise(p, s) \in Steps
  BY DEF Steps
<1>9. /\ \A p \in Pumps : Stop(p) \in Steps /\ Off(p) \in Steps
      /\ \A left \in SUBSET Pumps : StopEach(left) \in Steps
  BY DEF Steps
<1>10. /\ \A b \in BOOLEAN : Latch(b) \in Steps
       /\ \A to \in Levels : SetLevel(to) \in Steps
  BY DEF Steps
<1>11. Latch(TRUE) \in Steps /\ Latch(FALSE) \in Steps
  BY <1>0, <1>10, Zenon
<1>12. \A r \in Records : Write(r) \in Steps
  BY DEF Steps
<1>13. Note \in Steps
  BY <1>12, RecordMembers, Zenon DEF Note
<1> QED
  BY <1>1, <1>2, <1>3, <1>4, <1>5, <1>6, <1>7, <1>8, <1>9, <1>10, <1>11, <1>12, <1>13, Zenon

\* Short programs.
LEMMA Tuples ==
  /\ <<>> \in Seq(Steps)
  /\ \A a \in Steps : <<a>> \in Seq(Steps)
  /\ \A a, b \in Steps : <<a, b>> \in Seq(Steps)
  /\ \A a, b, c \in Steps : <<a, b, c>> \in Seq(Steps)
  /\ \A a, b, c, d \in Steps : <<a, b, c, d>> \in Seq(Steps)
  /\ \A a, b, c, d, e, f \in Steps : <<a, b, c, d, e, f>> \in Seq(Steps)
  OBVIOUS

\* A request starts with a program of steps.
LEMMA ProgramTypes ==
  /\ PersistProgram \in Seq(Steps)
  /\ ChangeProgram \in Seq(Steps)
  /\ \A p \in Pumps, s \in Nat : StartProgram(p, s) \in Seq(Steps)
  /\ ActProgram \in Seq(Steps)
  /\ \A program \in OtherPrograms : program \in Seq(Steps)
<1>1. Check(NewTankOpen) \in Steps /\ Enter(NewTankOpen) \in Steps
      /\ Check(OldTankClosed) \in Steps /\ Enter(OldTankClosed) \in Steps
      /\ Check(PumpRunning) \in Steps /\ Enter(PumpRunning) \in Steps
  BY StepMembers DEF ValvesSaved, NewTankOpen, OldTankClosed, PumpRunning
<1>2. New \in Valves /\ Old \in Valves /\ Esd \in Valves
  BY DEF Valves
<1>3. PersistProgram \in Seq(Steps)
  <2>1. [i \in DOMAIN ValveOrder |-> Save(ValveOrder[i])] \in Seq(Steps)
    <3>1. \A i \in 1 .. 3 : ValveOrder[i] \in Valves
      BY <1>2 DEF ValveOrder
    <3>2. DOMAIN ValveOrder = 1 .. 3
      BY DEF ValveOrder
    <3>3. \A i \in 1 .. 3 : Save(ValveOrder[i]) \in Steps
      BY <3>1, StepMembers
    <3>4. [i \in 1 .. 3 |-> Save(ValveOrder[i])] \in Seq(Steps)
      BY <3>3
    <3> QED
      BY <3>2, <3>4
  <2>2. <<Do("issue"), Fact("persisted"), Do("ifIdle"), Do("commit")>> \in Seq(Steps)
    BY StepMembers
  <2> QED
    BY <2>1, <2>2 DEF PersistProgram
<1>4. ChangeProgram \in Seq(Steps)
  <2>1. Move(New, TRUE) \in Steps /\ Move(Old, FALSE) \in Steps
    BY <1>2, StepMembers, Zenon
  <2> DEFINE opens == Move(New, TRUE)
             closes == Move(Old, FALSE)
  <2>2. Note \in Steps /\ Do("commit") \in Steps
        /\ Fact("newOpen") \in Steps /\ Fact("oldClosed") \in Steps
    BY StepMembers
  <2> HIDE DEF opens, closes
  <2>3. opens \in Steps /\ closes \in Steps
    BY <2>1 DEF opens, closes
  <2>4. << Check(NewTankOpen), Enter(NewTankOpen), opens, Note, Fact("newOpen"),
           Check(OldTankClosed), Enter(OldTankClosed), closes, Note,
           Fact("oldClosed"), Do("commit") >> \in Seq(Steps)
    BY <1>1, <2>2, <2>3
  <2> QED
    BY <2>4, Zenon DEF ChangeProgram, opens, closes
<1>5. ASSUME NEW p \in Pumps, NEW s \in Nat PROVE StartProgram(p, s) \in Seq(Steps)
  BY <1>1, StepMembers DEF StartProgram
<1>6. ActProgram \in Seq(Steps)
  <2>1. Latch(TRUE) \in Steps /\ Move(Esd, FALSE) \in Steps /\ Note \in Steps
    BY <1>2, StepMembers, Zenon
  <2>2. StopEach(Pumps) \in Steps /\ Do("evaluate") \in Steps /\ Do("commit") \in Steps
    BY StepMembers
  <2> QED
    BY <2>1, <2>2, Tuples, Zenon DEF ActProgram
<1>7. ASSUME NEW program \in OtherPrograms PROVE program \in Seq(Steps)
  <2>1. Note \in Steps /\ Do("evaluate") \in Steps /\ Do("commit") \in Steps
    BY StepMembers
  <2> QED
    BY <2>1, Tuples, Zenon DEF OtherPrograms
<1> QED
  BY <1>3, <1>4, <1>5, <1>6, <1>7

Pasts == [stage : Idle .. PumpRunning, generation : Nat, pumps : SUBSET Pumps]

\* The initial states have the right types.
LEMMA TypeInit == Init => TypeInv
<1> SUFFICES ASSUME Init PROVE TypeInv
  OBVIOUS
<1>1. FALSE \in BOOLEAN /\ {} \subseteq Valves /\ {} \subseteq Pumps
      /\ Idle \in Idle .. PumpRunning /\ 0 \in Nat /\ "room" \in Levels
  BY DEF Idle, PumpRunning, Levels
<1>2. Unwritten \in Projections
  BY <1>1, Zenon DEF Unwritten, Projections
<1>3. <<>> \in Seq(Sheets) /\ <<>> \in Seq(Steps)
  OBVIOUS
<1>4. [stage |-> Idle, generation |-> 0, pumps |-> {}] \in Pasts
  BY <1>1 DEF Pasts
<1>5. TypeOK
  BY <1>1, <1>2, <1>3, <1>4 DEF Init, TypeOK, Pasts
<1> QED
  BY <1>3, <1>5 DEF Init, TypeInv

\* A sequence with another element in a place is a sequence.
LEMMA PutInPlace ==
  ASSUME NEW S, NEW q \in Seq(S), NEW i, NEW y, i \in DOMAIN q => y \in S
  PROVE  [q EXCEPT ![i] = y] \in Seq(S)
<1> DEFINE r == [q EXCEPT ![i] = y]
<1>1. r = [n \in 1 .. Len(q) |-> r[n]] /\ \A n \in 1 .. Len(q) : r[n] \in S
  OBVIOUS
<1> HIDE DEF r
<1>2. [n \in 1 .. Len(q) |-> r[n]] \in Seq(S)
  BY <1>1
<1> QED
  BY <1>1, <1>2 DEF r

\* A thread that has something to do has a step, and its rest is a program.
LEMMA StepOfThread ==
  ASSUME TypeInv, NEW t \in Threads, todo[t] # <<>>
  PROVE  Step(t) \in Steps /\ Tail(todo[t]) \in Seq(Steps)
  BY DEF TypeInv, Step

\* Beginning a request.
LEMMA BeginTypes ==
  ASSUME TypeInv, NEW t \in Threads, NEW program \in Seq(Steps), Begin(t, program)
  PROVE  TypeInv'
  BY DEF TypeInv, TypeOK, Begin, sequence, valves, plant, papers, logged, bounds

\* Proceeding, giving up, and taking steps in between.
LEMMA ControlTypes ==
  ASSUME TypeInv, NEW t \in Threads, todo[t] # <<>>,
         \/ Proceed(t) \/ Raise(t)
         \/ \E steps \in Seq(Steps) : Instead(t, steps)
  PROVE  todo' \in [Threads -> Seq(Steps)]
<1>1. <<>> \in Seq(Steps) /\ todo \in [Threads -> Seq(Steps)] /\ Tail(todo[t]) \in Seq(Steps)
  BY StepOfThread DEF TypeInv
<1>2. CASE Proceed(t)
  BY <1>1, <1>2 DEF Proceed
<1>3. CASE Raise(t)
  BY <1>1, <1>3 DEF Raise
<1>4. CASE \E steps \in Seq(Steps) : Instead(t, steps)
  BY <1>1, <1>4 DEF Instead
<1> QED
  BY <1>2, <1>3, <1>4

\* Reporting a record.
LEMMA ReportTypes ==
  ASSUME TypeInv, NEW t \in Threads, todo[t] # <<>>, NEW r \in Records, Report(t, r)
  PROVE  todo' \in [Threads -> Seq(Steps)]
<1>1. Write(r) \in Steps
  BY StepMembers
<1>2. <<Write(r)>> \in Seq(Steps)
  BY <1>1, Tuples
<1> QED
  BY <1>2, ControlTypes, Zenon DEF Report

\* What a record leaves in the past.
LEMMA ExtendType ==
  ASSUME past \in Pasts, NEW r \in Records
  PROVE  Extend(r) \in Pasts
<1>1. CASE r \in {Entry("stage", n) : n \in Idle .. PumpRunning}
  BY <1>1 DEF Pasts, Extend, Larger, Entry
<1>2. CASE r \in {EntryOf("pump", p, to) : p \in Pumps, to \in BOOLEAN}
  BY <1>2 DEF Pasts, Extend, EntryOf
<1>3. CASE r \in {Entry("persisted", n) : n \in Nat}
  BY <1>3 DEF Pasts, Extend, Larger, Entry
<1>4. CASE r.kind \notin {"stage", "persisted", "pump"}
  BY <1>4 DEF Extend
<1>5. r.kind \in {"stage", "persisted", "pump"} =>
        r \in {Entry("stage", n) : n \in Idle .. PumpRunning}
                \cup {EntryOf("pump", p, to) : p \in Pumps, to \in BOOLEAN}
                \cup {Entry("persisted", n) : n \in Nat}
  BY DEF Records, Entry, EntryOf, Other
<1> QED
  BY <1>1, <1>2, <1>3, <1>4, <1>5

\* What may be rolled back is a record.
LEMMA UndoableRecords ==
  ASSUME TypeInv
  PROVE  Undoable \subseteq Records
<1>1. past.stage \in Idle .. PumpRunning /\ past.pumps \subseteq Pumps /\ past.generation \in Nat
     /\ stream.level \in Levels
  BY DEF TypeInv, TypeOK, Projections
<1>2. /\ Idle .. past.stage \subseteq Idle .. PumpRunning
      /\ 0 .. past.generation \subseteq Nat
  BY <1>1 DEF Idle, PumpRunning
<1> QED
  BY <1>1, <1>2, RecordMembers DEF Undoable

\* Requests keep the types.
LEMMA RequestTypes ==
  ASSUME TypeInv, NEW t \in Threads, Request(t)
  PROVE  TypeInv'
<1>5. CASE PersistValves(t)
  BY <1>5, ProgramTypes, BeginTypes DEF PersistValves
<1>6. CASE ChangeTank(t)
  BY <1>6, ProgramTypes, BeginTypes DEF ChangeTank
<1>7. CASE RetryChangeTank(t)
  <2>1. <<Ensure(New, TRUE), Ensure(Old, FALSE), Do("commit")>> \in Seq(Steps)
    <3>1. New \in Valves /\ Old \in Valves
      BY DEF Valves
    <3> QED
      BY <3>1, StepMembers, Tuples, Zenon
  <2> QED
    BY <1>7, <2>1, BeginTypes DEF RetryChangeTank
<1>8. ASSUME NEW v \in Valves, NEW to \in BOOLEAN, MoveValve(t, v, to) PROVE TypeInv'
  <2>1. <<Move(v, to), Do("commit")>> \in Seq(Steps)
    BY StepMembers, Tuples, Zenon
  <2> QED
    BY <1>8, <2>1, BeginTypes DEF MoveValve
<1>9. ASSUME NEW p \in Pumps, NEW s \in DOMAIN sheets, StartPump(t, p, s) PROVE TypeInv'
  <2>1. s \in Nat
    BY DEF TypeInv, TypeOK
  <2> QED
    BY <1>9, <2>1, ProgramTypes, BeginTypes DEF StartPump
<1>10. ASSUME NEW p \in Pumps, StopPump(t, p) PROVE TypeInv'
  <2>1. <<Stop(p), Do("commit")>> \in Seq(Steps)
    BY StepMembers, Tuples, Zenon
  <2> QED
    BY <1>10, <2>1, BeginTypes DEF StopPump
<1>11. ASSUME NEW to \in Levels, ChangeLevel(t, to) \/ Reassess(t, to) PROVE TypeInv'
  <2>1. <<SetLevel(to), Do("evaluate"), Do("commit")>> \in Seq(Steps)
        /\ <<SetLevel(to), Do("commit")>> \in Seq(Steps)
    BY StepMembers, Tuples, Zenon
  <2> QED
    BY <1>11, <2>1, BeginTypes DEF ChangeLevel, Reassess
<1>12. CASE TripEsd(t) \/ RetripEsd(t)
  <2>1. <<Do("evaluate"), Do("commit")>> \in Seq(Steps)
    BY StepMembers, Tuples, Zenon
  <2> QED
    BY <1>12, <2>1, ProgramTypes, BeginTypes DEF TripEsd, RetripEsd
<1>13. CASE TestEsd(t)
  <2>1. <<Latch(TRUE), Note, Do("commit")>> \in Seq(Steps)
    BY StepMembers, Tuples, Zenon
  <2> QED
    BY <1>13, <2>1, BeginTypes DEF TestEsd
<1>14. CASE ResetEsd(t)
  <2>1. <<Latch(FALSE), Note, Do("evaluate"), Do("commit")>> \in Seq(Steps)
    BY StepMembers, Tuples, Zenon
  <2> QED
    BY <1>14, <2>1, BeginTypes DEF ResetEsd
<1>15. CASE EvaluateInterlocks(t)
  <2>1. <<Do("evaluate")>> \in Seq(Steps)
    BY StepMembers, Tuples, Zenon
  <2> QED
    BY <1>15, <2>1, BeginTypes DEF EvaluateInterlocks
<1>16. CASE OtherRequest(t)
  BY <1>16, ProgramTypes, BeginTypes DEF OtherRequest
<1>17. CASE Rollback(t)
  <2>1. Do("undo") \in Steps /\ Do("rebuild") \in Steps /\ Do("commit") \in Steps
    BY StepMembers
  <2>2. <<Do("undo"), Do("rebuild"), Do("commit")>> \in Seq(Steps)
    BY <2>1, Tuples, Zenon
  <2> QED
    BY <1>17, <2>2 DEF TypeInv, TypeOK, Rollback, sequence, valves, plant, papers, logged
<1> QED
  BY <1>5, <1>6, <1>7, <1>8, <1>9, <1>10, <1>11, <1>12, <1>13, <1>14, <1>15, <1>16, <1>17
  DEF Request

\* Steps of a request keep the types.
LEMMA AdvanceTypes ==
  ASSUME TypeInv, NEW t \in Threads, Advance(t)
  PROVE  TypeInv'
<1> DEFINE x == Step(t)
<1> USE DEF sequence, valves, plant, papers, logged, bounds
<1>0. todo[t] # <<>> /\ x \in Steps /\ Tail(todo[t]) \in Seq(Steps)
  <2>1. todo[t] # <<>>
    BY DEF Advance, At, CheckStage, EnterStage, SetFact, AdvanceIfIdle, SwitchValve,
           EnsureValve, SaveValve, IssueSheet, VerifySheet, UseSheet, EnergisePump, StopOne,
           StopNext, SwitchOff, MoveLevel, ApplyLatch, Evaluate, AppendRecord, Commit,
           UndoRecord, Rebuild
  <2> QED
    BY <2>1, StepOfThread
<1>1. CASE CheckStage(t)
  BY <1>0, <1>1, ControlTypes DEF CheckStage, TypeInv, TypeOK
<1>2. CASE EnterStage(t)
  <2>1. x.target \in ValvesSaved .. PumpRunning
    BY <1>0, <1>2, StepTypes DEF EnterStage, At, Step
  <2>2. Entry("stage", x.target) \in Records
    BY <2>1 DEF Records, Idle, ValvesSaved, PumpRunning
  <2>3. todo' \in [Threads -> Seq(Steps)]
    BY <1>0, <1>2, <2>2, ReportTypes DEF EnterStage
  <2> QED
    BY <1>2, <2>1, <2>3 DEF EnterStage, TypeInv, TypeOK, Idle, ValvesSaved, PumpRunning
<1>3. CASE SetFact(t)
  <2>1. x.name \in {"persisted", "newOpen", "oldClosed"}
    BY <1>0, <1>3, StepTypes DEF SetFact, At, Step
  <2> QED
    BY <1>0, <1>3, <2>1, ControlTypes DEF SetFact, TypeInv, TypeOK
<1>4. CASE AdvanceIfIdle(t)
  <2>1. <<Check(ValvesSaved), Enter(ValvesSaved)>> \in Seq(Steps) /\ <<>> \in Seq(Steps)
    <3>1. Check(ValvesSaved) \in Steps /\ Enter(ValvesSaved) \in Steps
      BY DEF Steps, ValvesSaved, PumpRunning
    <3> QED
      BY <3>1
  <2>2. todo' \in [Threads -> Seq(Steps)]
    BY <1>0, <1>4, <2>1, ControlTypes DEF AdvanceIfIdle
  <2> QED
    BY <1>4, <2>2 DEF AdvanceIfIdle, TypeInv, TypeOK
<1>5. CASE SwitchValve(t)
  <2>1. x.valve \in Valves /\ x.to \in BOOLEAN
    BY <1>0, <1>5, StepTypes DEF SwitchValve, At, Step
  <2>2. EntryOf("valve", x.valve, x.to) \in Records
    BY <2>1 DEF Records
  <2>3. todo' \in [Threads -> Seq(Steps)]
    BY <1>0, <1>5, <2>2, ReportTypes DEF SwitchValve
  <2> QED
    BY <1>5, <2>1, <2>3 DEF SwitchValve, TypeInv, TypeOK, Put, Unmark
<1>6. CASE EnsureValve(t)
  <2>1. x.valve \in Valves /\ x.to \in BOOLEAN
    BY <1>0, <1>6, StepTypes DEF EnsureValve, At, Step
  <2>2. <<Move(x.valve, x.to), Note>> \in Seq(Steps) /\ <<>> \in Seq(Steps)
    <3>1. Move(x.valve, x.to) \in Steps /\ Note \in Steps
      BY <2>1, StepMembers
    <3> QED
      BY <3>1
  <2>3. todo' \in [Threads -> Seq(Steps)]
    BY <1>0, <1>6, <2>2, ControlTypes DEF EnsureValve
  <2> QED
    BY <1>6, <2>3 DEF EnsureValve, TypeInv, TypeOK
<1>7. CASE SaveValve(t)
  <2>1. x.valve \in Valves
    BY <1>0, <1>7, StepTypes DEF SaveValve, At, Step
  <2>2. EntryOf("valve", x.valve, x.valve \in open) \in Records
    BY <2>1, RecordMembers, Zenon
  <2>3. todo' \in [Threads -> Seq(Steps)]
    BY <1>0, <1>7, <2>2, ReportTypes DEF SaveValve
  <2> QED
    BY <1>7, <2>1, <2>3 DEF SaveValve, TypeInv, TypeOK
<1>8. CASE IssueSheet(t)
  <2>1. generation' \in Nat \ {0}
    BY <1>8 DEF IssueSheet, NextGeneration, TypeInv, TypeOK
  <2>2. Entry("persisted", generation') \in Records
    BY <2>1 DEF Records
  <2>3. todo' \in [Threads -> Seq(Steps)]
    BY <1>0, <1>8, <2>2, ReportTypes DEF IssueSheet
  <2>4. [generation |-> generation', uses |-> 0] \in Sheets
    BY <2>1 DEF Sheets
  <2>5. sheets' \in Seq(Sheets) /\ vouching' \subseteq DOMAIN sheets'
    BY <1>8, <2>4 DEF IssueSheet, TypeInv, TypeOK
  <2> QED
    BY <1>8, <2>1, <2>3, <2>5 DEF IssueSheet, TypeInv, TypeOK
<1>9. CASE VerifySheet(t)
  BY <1>0, <1>9, ControlTypes DEF VerifySheet, TypeInv, TypeOK
<1>10. CASE UseSheet(t)
  <2> DEFINE u == [sheets[x.sheet] EXCEPT !.uses = sheets[x.sheet].uses + 1]
  <2>1. sheets \in Seq(Sheets) /\ vouching \subseteq DOMAIN sheets
    BY DEF TypeInv, TypeOK
  <2>2. x.sheet \in DOMAIN sheets => u \in Sheets
    <3>1. \A w \in Sheets : [w EXCEPT !.uses = w.uses + 1] \in Sheets
      BY DEF Sheets
    <3> QED
      BY <2>1, <3>1
  <2>3. sheets' = [sheets EXCEPT ![x.sheet] = u]
    BY <1>10 DEF UseSheet
  <2>4. sheets' \in Seq(Sheets)
    BY <2>1, <2>2, <2>3, PutInPlace, Zenon
  <2>5. DOMAIN sheets' = DOMAIN sheets /\ vouching' = vouching
    BY <1>10, <2>1, <2>3 DEF UseSheet
  <2>6. todo' \in [Threads -> Seq(Steps)]
    BY <1>0, <1>10, ControlTypes DEF UseSheet
  <2> QED
    BY <1>10, <2>1, <2>4, <2>5, <2>6 DEF UseSheet, TypeInv, TypeOK
<1>11. CASE EnergisePump(t)
  <2>1. x.pump \in Pumps
    BY <1>0, <1>11, StepTypes DEF EnergisePump, At, Step
  <2>2. EntryOf("pump", x.pump, TRUE) \in Records
    BY <2>1, RecordMembers, Zenon
  <2>3. todo' \in [Threads -> Seq(Steps)]
    <3>1. CASE x.pump \in running
      BY <1>0, <1>11, <3>1, ControlTypes DEF EnergisePump
    <3>2. CASE x.pump \notin running
      BY <1>0, <1>11, <3>2, <2>2, ReportTypes DEF EnergisePump
    <3> QED
      BY <3>1, <3>2
  <2>4. running' \subseteq Pumps
    BY <1>11, <2>1 DEF EnergisePump, TypeInv, TypeOK
  <2> QED
    BY <1>11, <2>4, <2>3 DEF EnergisePump, TypeInv, TypeOK
<1>12. CASE StopOne(t) \/ StopNext(t)
  <2>1. Esd \in Valves
    BY DEF Valves
  <2>2. \A p \in Pumps : StopSteps(p) \in Seq(Steps)
    BY <2>1, StepMembers, Tuples, Zenon DEF StopSteps
  <2>3. ASSUME StopOne(t) PROVE todo' \in [Threads -> Seq(Steps)]
    <3>1. x.pump \in Pumps
      BY <1>0, <2>3, StepTypes DEF StopOne, At, Step
    <3> QED
      BY <1>0, <2>2, <2>3, <3>1, ControlTypes DEF StopOne
  <2>4. ASSUME StopNext(t) PROVE todo' \in [Threads -> Seq(Steps)]
    <3>1. x.left \in SUBSET Pumps
      BY <1>0, <2>4, StepTypes DEF StopNext, At, Step
    <3>2. CASE Proceed(t)
      BY <1>0, <3>2, ControlTypes
    <3>3. CASE \E p \in x.left : Instead(t, (IF p \in running THEN StopSteps(p) ELSE <<>>)
                                              \o <<StopEach(x.left \ {p})>>)
      <4>1. PICK p \in x.left : Instead(t, (IF p \in running THEN StopSteps(p) ELSE <<>>)
                                              \o <<StopEach(x.left \ {p})>>)
        BY <3>3
      <4>2. x.left \ {p} \in SUBSET Pumps /\ p \in Pumps
        BY <3>1
      <4>3. StopEach(x.left \ {p}) \in Steps
        BY <4>2, StepMembers, Zenon
      <4>4. <<StopEach(x.left \ {p})>> \in Seq(Steps)
        BY <4>3
      <4>5. (IF p \in running THEN StopSteps(p) ELSE <<>>) \in Seq(Steps)
        BY <2>2, <4>2, Tuples, Zenon
      <4>6. \A a, b \in Seq(Steps) : a \o b \in Seq(Steps)
        OBVIOUS
      <4>7. (IF p \in running THEN StopSteps(p) ELSE <<>>) \o <<StopEach(x.left \ {p})>>
              \in Seq(Steps)
        BY <4>4, <4>5, <4>6, Zenon
      <4> QED
        BY <1>0, <4>1, <4>7, ControlTypes, Zenon
    <3> QED
      BY <2>4, <3>2, <3>3 DEF StopNext
  <2> QED
    BY <1>12, <2>3, <2>4 DEF StopOne, StopNext, TypeInv, TypeOK
<1>13. CASE SwitchOff(t)
  <2>1. x.pump \in Pumps
    BY <1>0, <1>13, StepTypes DEF SwitchOff, At, Step
  <2>2. EntryOf("pump", x.pump, FALSE) \in Records
    BY <2>1, RecordMembers, Zenon
  <2>3. todo' \in [Threads -> Seq(Steps)]
    BY <1>0, <1>13, <2>2, ReportTypes DEF SwitchOff
  <2> QED
    BY <1>13, <2>1, <2>3 DEF SwitchOff, TypeInv, TypeOK
<1>14. CASE MoveLevel(t)
  <2>1. x.to \in Levels
    BY <1>0, <1>14, StepTypes DEF MoveLevel, At, Step
  <2>2. Entry("level", x.to) \in Records
    BY <2>1 DEF Records
  <2>3. todo' \in [Threads -> Seq(Steps)]
    BY <1>0, <1>14, <2>2, ReportTypes DEF MoveLevel
  <2> QED
    BY <1>14, <2>1, <2>3 DEF MoveLevel, TypeInv, TypeOK
<1>15. CASE ApplyLatch(t)
  <2>1. x.active \in BOOLEAN
    BY <1>0, <1>15, StepTypes DEF ApplyLatch, At, Step
  <2>2. Entry("latch", x.active) \in Records
    BY <2>1 DEF Records
  <2>3. todo' \in [Threads -> Seq(Steps)]
    BY <1>0, <1>15, <2>2, ReportTypes DEF ApplyLatch
  <2> QED
    BY <1>15, <2>1, <2>3 DEF ApplyLatch, TypeInv, TypeOK
<1>16. CASE Evaluate(t)
  <2>1. <<Latch(TRUE)>> \in Seq(Steps) /\ <<Latch(FALSE)>> \in Seq(Steps) /\ <<>> \in Seq(Steps)
    BY StepMembers, Tuples, Zenon
  <2>2. todo' \in [Threads -> Seq(Steps)]
    BY <1>0, <1>16, <2>1, ControlTypes DEF Evaluate
  <2> QED
    BY <1>16, <2>2 DEF Evaluate, TypeInv, TypeOK
<1>17. CASE AppendRecord(t)
  <2>1. x.record \in Records
    BY <1>0, <1>17, StepTypes DEF AppendRecord, At, Step
  <2>2. todo' \in [Threads -> Seq(Steps)]
    BY <1>0, <1>17, ControlTypes DEF AppendRecord
  <2>3. stream' \in Projections /\ journal' \in Projections
    BY <1>17, <2>1, ApplyType DEF AppendRecord, TypeInv, TypeOK
  <2>4. past' \in Pasts
    BY <1>17, <2>1, ExtendType DEF AppendRecord, TypeInv, TypeOK, Pasts
  <2>5. failures' \in Nat
    BY <1>17 DEF AppendRecord, TypeInv, TypeOK
  <2> QED
    BY <1>17, <2>2, <2>3, <2>4, <2>5 DEF AppendRecord, TypeInv, TypeOK, Pasts
<1>18. CASE Commit(t)
  BY <1>0, <1>18, ControlTypes DEF Commit, TypeInv, TypeOK
<1>19. CASE UndoRecord(t)
  <2>1. PICK record \in Undoable : stream' = Apply(stream, record)
    BY <1>19 DEF UndoRecord
  <2>2. todo' \in [Threads -> Seq(Steps)]
    BY <1>0, <1>19, ControlTypes DEF UndoRecord
  <2>3. stream' \in Projections
    BY <2>1, UndoableRecords, ApplyType DEF TypeInv, TypeOK
  <2>4. failures' \in Nat
    BY <1>19 DEF UndoRecord, TypeInv, TypeOK
  <2>5. undone' \subseteq {"stage", "persisted", "level"}
    <3>1. PICK kinds : undone' = undone \cup kinds /\ kinds \subseteq {"stage", "persisted", "level"}
      BY <1>19, Zenon DEF UndoRecord
    <3> QED
      BY <3>1 DEF TypeInv, TypeOK
  <2> QED
    BY <1>19, <2>2, <2>3, <2>4, <2>5 DEF UndoRecord, TypeInv, TypeOK
<1>20. CASE Rebuild(t)
  <2>1. todo' \in [Threads -> Seq(Steps)]
    BY <1>0, <1>20, ControlTypes DEF Rebuild
  <2>2. /\ stream \in Projections /\ generation \in Nat /\ jumped \in BOOLEAN
        /\ vouching' = {} /\ sheets' = sheets
    BY <1>20 DEF Rebuild, TypeInv, TypeOK
  <2>3. /\ stream.stage \in Idle .. PumpRunning /\ stream.open \subseteq Valves
        /\ stream.running \subseteq Pumps /\ stream.latched \in BOOLEAN
        /\ stream.level \in Levels /\ stream.generation \in Nat
    BY <2>2 DEF Projections
  <2>4. level' \in Levels
    BY <1>20, <2>3 DEF Rebuild, LevelsOf
  <2>5. generation' \in Nat /\ facts' \subseteq {"persisted", "newOpen", "oldClosed"}
    BY <1>20, <2>2, <2>3 DEF Rebuild, Larger, FactsOf
  <2>6. jumped' \in BOOLEAN /\ latched' \in BOOLEAN
    <3>1. jumped' = (jumped \/ stream # journal) /\ latched' = stream.latched
      BY <1>20 DEF Rebuild
    <3>2. (jumped \/ stream # journal) \in BOOLEAN
      OBVIOUS
    <3> QED
      BY <2>3, <3>1, <3>2, Zenon
  <2>7. /\ stage' \in Idle .. PumpRunning /\ open' \subseteq Valves /\ durable' \subseteq Valves
        /\ running' \subseteq Pumps /\ journal' \in Projections
    BY <1>20, <2>2, <2>3 DEF Rebuild
  <2>8. UNCHANGED <<stream, past, saved, sheets, restarts, failures, rollbacks, undone>>
    BY <1>20 DEF Rebuild
  <2>9. vouching' \subseteq DOMAIN sheets'
    BY <2>2
  <2>10. \A projection \in {journal', stream', saved'} : projection \in Projections
    BY <2>7, <2>8 DEF TypeInv, TypeOK
  <2> QED
    BY <2>1, <2>4, <2>5, <2>6, <2>7, <2>8, <2>9, <2>10, Zenon DEF TypeInv, TypeOK
<1> QED
  BY <1>1, <1>2, <1>3, <1>4, <1>5, <1>6, <1>7, <1>8, <1>9, <1>10, <1>11, <1>12, <1>13, <1>14,
     <1>15, <1>16, <1>17, <1>18, <1>19, <1>20 DEF Advance

\* Every step keeps the types.
LEMMA TypeStep == TypeInv /\ [Next]_vars => TypeInv'
<1> SUFFICES ASSUME TypeInv, [Next]_vars PROVE TypeInv'
  OBVIOUS
<1>1. CASE UNCHANGED vars
  BY <1>1 DEF TypeInv, TypeOK, vars, sequence, valves, plant, papers, logged, bounds
<1>2. CASE Restart
  <2>1. saved \in Projections /\ restarts \in Nat /\ TypeOK
    BY DEF TypeInv, TypeOK
  <2>2. /\ saved.stage \in Idle .. PumpRunning /\ saved.open \subseteq Valves
        /\ saved.running \subseteq Pumps /\ saved.latched \in BOOLEAN
        /\ saved.level \in Levels /\ saved.generation \in Nat
    BY <2>1 DEF Projections
  <2>3. level' \in Levels /\ facts' \subseteq {"persisted", "newOpen", "oldClosed"}
    BY <1>2, <2>2 DEF Restart, LevelsOf, FactsOf
  <2>4. sheets' \in Seq(Sheets) /\ vouching' \subseteq DOMAIN sheets'
        /\ todo' \in [Threads -> Seq(Steps)]
    BY <1>2 DEF Restart
  <2> QED
    BY <1>2, <2>1, <2>2, <2>3, <2>4 DEF Restart, TypeInv, TypeOK, RestoredStage
<1>3. CASE \E t \in Threads : Request(t) \/ Advance(t)
  BY <1>3, RequestTypes, AdvanceTypes
<1> QED
  BY <1>1, <1>2, <1>3 DEF Next

LEMMA AlwaysTypes == Spec => []TypeInv
  BY TypeInit, TypeStep, PTL DEF Spec

\* Type correctness, for any threads, pumps, failed appends, restarts and
\* rollbacks.
THEOREM TransferTypeCorrect == Spec => []TypeOK
<1>1. TypeInv => TypeOK
  BY DEF TypeInv
<1> QED
  BY AlwaysTypes, <1>1, PTL

-----------------------------------------------------------------------------
(* Programs.                                                               *)

\* Where no append fails, a record reaches the projection.
LEMMA Written ==
  ASSUME MaxFailures = 0, TypeInv, NEW t \in Threads, AppendRecord(t)
  PROVE  /\ At(t, "write")
         /\ stream' = Apply(stream, Step(t).record) /\ journal' = Apply(journal, Step(t).record)
         /\ past' = Extend(Step(t).record)
         /\ Proceed(t)
         /\ UNCHANGED <<sequence, valves, plant, papers, saved, bounds>>
<1>1. ~ (failures < MaxFailures)
  BY DEF TypeInv, TypeOK
<1> QED
  BY <1>1 DEF AppendRecord, bounds

\* The first step of what is left, and what is left after it.
LEMMA FromStep ==
  ASSUME NEW P \in Seq(Steps), NEW k \in 1 .. Len(P)
  PROVE  /\ From(P, k) # <<>> /\ From(P, k) \in Seq(Steps)
         /\ Head(From(P, k)) = P[k] /\ Tail(From(P, k)) = From(P, k + 1)
<1>1. From(P, k) \in Seq(Steps) /\ Len(From(P, k)) = Len(P) - k + 1
  BY DEF From
<1>2. From(P, k) # <<>>
  BY <1>1
<1>3. Len(P) \in k .. Len(P)
  OBVIOUS
<1>4. Head(SubSeq(P, k, Len(P))) = P[k] /\ Tail(SubSeq(P, k, Len(P))) = SubSeq(P, k + 1, Len(P))
  BY <1>3, HeadTailOfSubSeq, Zenon
<1> QED
  BY <1>1, <1>2, <1>4, Zenon DEF From

LEMMA FromEnds ==
  ASSUME NEW P \in Seq(Steps)
  PROVE  From(P, 1) = P /\ From(P, Len(P) + 1) = <<>>
  BY DEF From

\* The programs, step by step.
LEMMA ChangeSteps ==
  /\ Len(ChangeProgram) = 11
  /\ ChangeProgram[1] = Check(NewTankOpen) /\ ChangeProgram[2] = Enter(NewTankOpen)
  /\ ChangeProgram[3] = OpenNew /\ ChangeProgram[4] = Note
  /\ ChangeProgram[5] = Fact("newOpen")
  /\ ChangeProgram[6] = Check(OldTankClosed) /\ ChangeProgram[7] = Enter(OldTankClosed)
  /\ ChangeProgram[8] = CloseOld /\ ChangeProgram[9] = Note
  /\ ChangeProgram[10] = Fact("oldClosed") /\ ChangeProgram[11] = Do("commit")
<1>1. ChangeProgram =
        << Check(NewTankOpen), Enter(NewTankOpen), OpenNew, Note, Fact("newOpen"),
           Check(OldTankClosed), Enter(OldTankClosed), CloseOld, Note,
           Fact("oldClosed"), Do("commit") >>
  BY Zenon DEF ChangeProgram, OpenNew, CloseOld
<1> QED
  BY <1>1

LEMMA StartSteps ==
  ASSUME NEW p \in Pumps, NEW s \in Nat
  PROVE  /\ Len(StartProgram(p, s)) = 7
         /\ StartProgram(p, s)[1] = Check(PumpRunning) /\ StartProgram(p, s)[2] = Verify(s)
         /\ StartProgram(p, s)[3] = Use(s) /\ StartProgram(p, s)[4] = Check(PumpRunning)
         /\ StartProgram(p, s)[5] = Enter(PumpRunning)
         /\ StartProgram(p, s)[6] = Energise(p, s) /\ StartProgram(p, s)[7] = Do("commit")
  BY DEF StartProgram

LEMMA PersistSteps ==
  /\ Len(PersistProgram) = 7
  /\ PersistProgram[1] = Save(Esd) /\ PersistProgram[2] = Save(New)
  /\ PersistProgram[3] = Save(Old) /\ PersistProgram[4] = Do("issue")
  /\ PersistProgram[5] = Fact("persisted") /\ PersistProgram[6] = Do("ifIdle")
  /\ PersistProgram[7] = Do("commit")
<1> DEFINE saves == [i \in 1 .. 3 |-> Save(ValveOrder[i])]
           ends  == <<Do("issue"), Fact("persisted"), Do("ifIdle"), Do("commit")>>
<1>1. PersistProgram = saves \o ends
  BY DEF PersistProgram, ValveOrder
<1>2. saves[1] = Save(Esd) /\ saves[2] = Save(New) /\ saves[3] = Save(Old)
  BY DEF ValveOrder
<1>3. saves \in Seq(Steps) /\ Len(saves) = 3
  <2>1. \A i \in 1 .. 3 : Save(ValveOrder[i]) \in Steps
    BY StepMembers DEF ValveOrder, Valves
  <2> QED
    BY <2>1
<1>4. /\ ends \in Seq(Steps) /\ Len(ends) = 4 /\ ends[1] = Do("issue")
      /\ ends[2] = Fact("persisted") /\ ends[3] = Do("ifIdle") /\ ends[4] = Do("commit")
  BY StepMembers
<1> HIDE DEF saves, ends
<1>5. /\ Len(saves \o ends) = Len(saves) + Len(ends)
      /\ \A i \in 1 .. Len(saves) + Len(ends) :
           (saves \o ends)[i] = IF i <= Len(saves) THEN saves[i] ELSE ends[i - Len(saves)]
  BY <1>3, <1>4, ConcatProperties, Zenon
<1>6. /\ Len(PersistProgram) = 7
      /\ \A i \in 1 .. 7 : PersistProgram[i] = IF i <= 3 THEN saves[i] ELSE ends[i - 3]
  BY <1>1, <1>3, <1>4, <1>5
<1> QED
  BY <1>2, <1>4, <1>6

\* The steps with a fixed argument.
LEMMA FixedSteps ==
  /\ SetLatch.op = "latch" /\ SetLatch.active
  /\ ClearLatch.op = "latch" /\ ~ ClearLatch.active
  /\ ShutEsd.op = "move" /\ ShutEsd.valve = Esd /\ ~ ShutEsd.to
  /\ OpenNew.op = "move" /\ OpenNew.valve = New /\ OpenNew.to
  /\ CloseOld.op = "move" /\ CloseOld.valve = Old /\ ~ CloseOld.to
  /\ {SetLatch, ClearLatch, ShutEsd, OpenNew, CloseOld} \subseteq Steps
<1>0. New \in Valves /\ Old \in Valves /\ Esd \in Valves
  BY DEF Valves
<1>1. SetLatch.op = "latch" /\ SetLatch.active /\ ClearLatch.op = "latch" /\ ~ ClearLatch.active
  BY Fields, Zenon DEF SetLatch, ClearLatch
<1>2. /\ ShutEsd.op = "move" /\ ShutEsd.valve = Esd /\ ~ ShutEsd.to
      /\ OpenNew.op = "move" /\ OpenNew.valve = New /\ OpenNew.to
      /\ CloseOld.op = "move" /\ CloseOld.valve = Old /\ ~ CloseOld.to
  <2>1. \A v, to : Move(v, to).op = "move" /\ Move(v, to).valve = v /\ Move(v, to).to = to
    BY DEF Move
  <2>2. ShutEsd.op = "move" /\ ShutEsd.valve = Esd /\ ~ ShutEsd.to
    BY <2>1, Zenon DEF ShutEsd
  <2>3. OpenNew.op = "move" /\ OpenNew.valve = New /\ OpenNew.to
    BY <2>1, Zenon DEF OpenNew
  <2>4. CloseOld.op = "move" /\ CloseOld.valve = Old /\ ~ CloseOld.to
    BY <2>1, Zenon DEF CloseOld
  <2> QED
    BY <2>2, <2>3, <2>4, Zenon
<1>3. SetLatch \in Steps /\ ClearLatch \in Steps /\ ShutEsd \in Steps /\ OpenNew \in Steps
      /\ CloseOld \in Steps
  BY <1>0, StepMembers, Zenon DEF SetLatch, ClearLatch, ShutEsd, OpenNew, CloseOld
<1> QED
  BY <1>1, <1>2, <1>3

\* Calm steps.
LEMMA CalmTypes ==
  /\ CalmSteps \subseteq Steps
  /\ \A x \in CalmSteps :
       /\ x.op \in {"write", "evaluate", "commit", "fact", "move", "stopEach", "latch"}
       /\ x.op = "commit" => x = Do("commit")
       /\ x.op = "evaluate" => x = Do("evaluate")
       /\ x.op = "latch" => x = SetLatch
       /\ x.op = "move" => x = ShutEsd
       /\ x.op = "write" => x = Note
<1> SUFFICES ASSUME NEW x \in CalmSteps
             PROVE  /\ x \in Steps
                    /\ x.op \in {"write", "evaluate", "commit", "fact", "move", "stopEach", "latch"}
                    /\ x.op = "commit" => x = Do("commit")
                    /\ x.op = "evaluate" => x = Do("evaluate")
                    /\ x.op = "latch" => x = SetLatch
                    /\ x.op = "move" => x = ShutEsd
                    /\ x.op = "write" => x = Note
  OBVIOUS
<1>1. CASE x \in {SetLatch, ShutEsd, Note}
  BY <1>1, FixedSteps, Fields, StepMembers
<1>2. CASE x \in {Do("evaluate"), Do("commit")}
  BY <1>2, Fields, StepMembers
<1>3. CASE x \in {Fact(name) : name \in {"persisted", "newOpen", "oldClosed"}}
  BY <1>3, Fields, StepMembers
<1>4. CASE x \in {StopEach(left) : left \in SUBSET Pumps}
  BY <1>4, Fields, StepMembers
<1> QED
  BY <1>1, <1>2, <1>3, <1>4 DEF CalmSteps

LEMMA CalmMembers ==
  /\ Note \in CalmSteps /\ Do("evaluate") \in CalmSteps /\ Do("commit") \in CalmSteps
  /\ \A f \in {"persisted", "newOpen", "oldClosed"} : Fact(f) \in CalmSteps
  /\ \A left \in SUBSET Pumps : StopEach(left) \in CalmSteps
  /\ SetLatch \in CalmSteps /\ ShutEsd \in CalmSteps
  BY DEF CalmSteps

\* A calm program has a first step, and is calm after it unless it commits.
LEMMA CalmStep ==
  ASSUME NEW q, Calm(q)
  PROVE  /\ q # <<>> /\ q \in Seq(CalmSteps) /\ q \in Seq(Steps) /\ Head(q) \in CalmSteps
         /\ Head(q).op = "commit" => Tail(q) = <<>> /\ q = <<Do("commit")>>
         /\ Head(q).op # "commit" => Calm(Tail(q))
<1>0. \A i \in 1 .. Len(q) : q[i] = Do("commit") <=> i = Len(q)
  BY DEF Calm
<1>1. /\ q \in Seq(CalmSteps) /\ q # <<>> /\ Len(q) \in Nat /\ Len(q) >= 1
      /\ q \in Seq(Steps)
  BY CalmTypes DEF Calm
<1>2. Head(q) = q[1] /\ Head(q) \in CalmSteps
  BY <1>1
<1>3. ASSUME Head(q).op = "commit" PROVE Tail(q) = <<>> /\ q = <<Do("commit")>>
  <2>1. q[1] = Do("commit")
    BY <1>2, <1>3, CalmTypes
  <2>2. Len(q) = 1
    <3>1. 1 \in 1 .. Len(q)
      BY <1>1
    <3>2. q[1] = Do("commit") <=> 1 = Len(q)
      BY <1>0, <3>1, Zenon
    <3> QED
      BY <2>1, <3>2, Zenon
  <2>3. q = <<Do("commit")>>
    BY <1>1, <2>1, <2>2, CalmTypes, StepMembers, SeqEqual
  <2> QED
    BY <2>3
<1>4. ASSUME Head(q).op # "commit" PROVE Calm(Tail(q))
  <2>1. q[1] # Do("commit")
    BY <1>2, <1>4, Fields
  <2>2. Len(q) # 1
    <3>1. 1 \in 1 .. Len(q)
      BY <1>1
    <3>2. q[1] = Do("commit") <=> 1 = Len(q)
      BY <1>0, <3>1, Zenon
    <3> QED
      BY <2>1, <3>2
  <2>3. Tail(q) \in Seq(CalmSteps) /\ Len(Tail(q)) = Len(q) - 1
        /\ \A i \in 1 .. Len(q) - 1 : Tail(q)[i] = q[i + 1]
    BY <1>1
  <2>4. Tail(q) # <<>>
    <3>1. Len(<<>>) = 0
      OBVIOUS
    <3>2. Len(q) \in Nat /\ Len(q) # 1 /\ Len(Tail(q)) = Len(q) - 1
      BY <1>1, <2>2, <2>3, Zenon
    <3>3. Len(Tail(q)) # 0
      BY <3>2
    <3> QED
      BY <3>1, <3>3, Zenon
  <2>5. ASSUME NEW i \in 1 .. Len(Tail(q)) PROVE Tail(q)[i] = Do("commit") <=> i = Len(Tail(q))
    <3>1. Tail(q)[i] = q[i + 1] /\ i + 1 \in 1 .. Len(q)
      BY <1>1, <2>3
    <3>2. Tail(q)[i] = Do("commit") <=> i + 1 = Len(q)
      BY <1>0, <3>1
    <3>3. i + 1 = Len(q) <=> i = Len(Tail(q))
      BY <1>1, <2>3
    <3> QED
      BY <3>2, <3>3, Zenon
  <2> QED
    BY <2>3, <2>4, <2>5 DEF Calm
<1> QED
  BY <1>1, <1>2, <1>3, <1>4

\* A step before a program, and a calm one before a calm program.
LEMMA Onto ==
  ASSUME NEW q \in Seq(Steps), NEW x \in Steps
  PROVE  /\ <<x>> \o q \in Seq(Steps) /\ <<x>> \o q # <<>> /\ Len(<<x>> \o q) = Len(q) + 1
         /\ Head(<<x>> \o q) = x /\ Tail(<<x>> \o q) = q
         /\ \A y \in Steps : /\ <<y, x>> \o q # <<>> /\ Head(<<y, x>> \o q) = y
                             /\ Tail(<<y, x>> \o q) = <<x>> \o q
                             /\ <<y, x>> \o q = <<y>> \o (<<x>> \o q)
         /\ <<>> \o q = q
<1>1. \A z \in Steps, r \in Seq(Steps) :
        /\ <<z>> \o r \in Seq(Steps) /\ <<z>> \o r # <<>> /\ Len(<<z>> \o r) = Len(r) + 1
        /\ Head(<<z>> \o r) = z /\ Tail(<<z>> \o r) = r
  <2> SUFFICES ASSUME NEW z \in Steps, NEW r \in Seq(Steps)
               PROVE  /\ <<z>> \o r \in Seq(Steps) /\ <<z>> \o r # <<>>
                      /\ Len(<<z>> \o r) = Len(r) + 1
                      /\ Head(<<z>> \o r) = z /\ Tail(<<z>> \o r) = r
    OBVIOUS
  <2>1. /\ <<z>> \o r \in Seq(Steps) /\ <<z>> \o r # <<>>
        /\ Len(<<z>> \o r) = Len(r) + 1 /\ Head(<<z>> \o r) = z
    OBVIOUS
  <2>2. Tail(<<z>> \o r) = r
    OBVIOUS
  <2> QED
    BY <2>1, <2>2
<1>2. ASSUME NEW y \in Steps PROVE <<y, x>> \o q = <<y>> \o (<<x>> \o q)
  OBVIOUS
<1>3. <<>> \o q = q
  OBVIOUS
<1> QED
  BY <1>1, <1>2, <1>3

LEMMA CalmOnto ==
  ASSUME NEW q, Calm(q), NEW x \in CalmSteps, x.op # "commit"
  PROVE  Calm(<<x>> \o q)
<1> DEFINE r == <<x>> \o q
<1>0. \A i \in 1 .. Len(q) : q[i] = Do("commit") <=> i = Len(q)
  BY DEF Calm
<1>1. /\ q \in Seq(CalmSteps) /\ r \in Seq(CalmSteps) /\ r # <<>> /\ Len(r) = Len(q) + 1
      /\ Len(q) \in Nat /\ Len(q) >= 1
      /\ r[1] = x /\ \A i \in 2 .. Len(q) + 1 : r[i] = q[i - 1]
  BY CalmStep
<1>2. x # Do("commit")
  BY Fields
<1> HIDE DEF r
<1>3. ASSUME NEW i \in 1 .. Len(r) PROVE r[i] = Do("commit") <=> i = Len(r)
  <2>1. CASE i = 1
    BY <1>1, <1>2, <2>1
  <2>2. CASE i # 1
    <3>1. r[i] = q[i - 1] /\ i - 1 \in 1 .. Len(q)
      BY <1>1, <2>2
    <3> QED
      BY <1>0, <1>1, <3>1
  <2> QED
    BY <2>1, <2>2
<1>4. Calm(r)
  BY <1>1, <1>3 DEF Calm
<1> QED
  BY <1>4 DEF r

\* Short calm programs.
LEMMA CalmShort ==
  /\ Calm(<<Do("commit")>>)
  /\ \A x \in CalmSteps : x.op # "commit" => Calm(<<x, Do("commit")>>)
  /\ \A x, y \in CalmSteps :
       x.op # "commit" /\ y.op # "commit" => Calm(<<x, y, Do("commit")>>)
  /\ \A x, y, z \in CalmSteps :
       x.op # "commit" /\ y.op # "commit" /\ z.op # "commit" => Calm(<<x, y, z, Do("commit")>>)
<1>0. Do("commit") \in CalmSteps
  BY CalmMembers
<1>1. Calm(<<Do("commit")>>)
  BY <1>0 DEF Calm
<1>2. \A x \in CalmSteps : x.op # "commit" => x # Do("commit")
  BY Fields
<1>3. ASSUME NEW x \in CalmSteps, x # Do("commit") PROVE Calm(<<x, Do("commit")>>)
  BY <1>0, <1>3 DEF Calm
<1>4. ASSUME NEW x \in CalmSteps, NEW y \in CalmSteps, x # Do("commit"), y # Do("commit")
      PROVE  Calm(<<x, y, Do("commit")>>)
  BY <1>0, <1>4 DEF Calm
<1>5. ASSUME NEW x \in CalmSteps, NEW y \in CalmSteps, NEW z \in CalmSteps,
             x # Do("commit"), y # Do("commit"), z # Do("commit")
      PROVE  Calm(<<x, y, z, Do("commit")>>)
  BY <1>0, <1>5 DEF Calm
<1> QED
  BY <1>1, <1>2, <1>3, <1>4, <1>5

\* The shutdown of a trip is calm.
LEMMA ActIsCalm == Calm(ActProgram)
<1> DEFINE all == StopEach(Pumps)
           evaluates == Do("evaluate")
<1>1. ActProgram = <<SetLatch, ShutEsd, all, Note, evaluates, Do("commit")>>
  BY Zenon DEF ActProgram, SetLatch, ShutEsd
<1>2. /\ all \in CalmSteps /\ SetLatch \in CalmSteps /\ ShutEsd \in CalmSteps
      /\ Note \in CalmSteps /\ evaluates \in CalmSteps /\ Do("commit") \in CalmSteps
  BY CalmMembers
<1>3. Do("commit") \notin {all, SetLatch, ShutEsd, Note, evaluates}
  BY FixedSteps, Fields
<1> HIDE DEF all, evaluates
<1>4. Calm(<<SetLatch, ShutEsd, all, Note, evaluates, Do("commit")>>)
  BY <1>2, <1>3 DEF Calm
<1> QED
  BY <1>1, <1>4

\* What is left, given by its elements.
LEMMA FromIs ==
  ASSUME NEW P \in Seq(Steps), NEW k \in 1 .. Len(P), NEW ends \in Seq(Steps),
         Len(ends) = Len(P) - k + 1,
         \A i \in 1 .. Len(ends) : ends[i] = P[k + i - 1]
  PROVE  From(P, k) = ends
<1>1. /\ From(P, k) \in Seq(Steps) /\ Len(From(P, k)) = Len(P) - k + 1
      /\ \A i \in 1 .. Len(ends) : From(P, k)[i] = P[k + i - 1]
  BY DEF From
<1> QED
  BY <1>1, SeqEqual

\* The ends of the programs are calm.
LEMMA CalmEnds ==
  /\ From(ChangeProgram, 9) = <<Note, Fact("oldClosed"), Do("commit")>>
  /\ Calm(From(ChangeProgram, 9))
  /\ \A p \in Pumps, s \in Nat : From(StartProgram(p, s), 7) = <<Do("commit")>>
  /\ From(PersistProgram, 7) = <<Do("commit")>>
<1>2. From(ChangeProgram, 9) = <<Note, Fact("oldClosed"), Do("commit")>>
  <2> DEFINE ends == <<Note, Fact("oldClosed"), Do("commit")>>
  <2>1. ends \in Seq(Steps) /\ Len(ends) = 3
    BY FixedSteps, StepMembers
  <2>2. \A i \in 1 .. 3 : ends[i] = ChangeProgram[9 + i - 1]
    BY ChangeSteps
  <2> HIDE DEF ends
  <2>3. From(ChangeProgram, 9) = ends
    <3>1. ChangeProgram \in Seq(Steps) /\ 9 \in 1 .. Len(ChangeProgram)
          /\ Len(ends) = Len(ChangeProgram) - 9 + 1
          /\ \A i \in 1 .. Len(ends) : ends[i] = ChangeProgram[9 + i - 1]
      BY <2>1, <2>2, ProgramTypes, ChangeSteps
    <3> QED
      BY <2>1, <3>1, FromIs, Zenon
  <2> QED
    BY <2>3 DEF ends
<1>3. Calm(<<Note, Fact("oldClosed"), Do("commit")>>)
  BY FixedSteps, CalmMembers, CalmShort, Fields
<1>4. \A p \in Pumps, s \in Nat : From(StartProgram(p, s), 7) = <<Do("commit")>>
  <2> SUFFICES ASSUME NEW p \in Pumps, NEW s \in Nat
               PROVE  From(StartProgram(p, s), 7) = <<Do("commit")>>
    OBVIOUS
  <2> DEFINE ends == <<Do("commit")>>
  <2>1. ends \in Seq(Steps) /\ Len(ends) = 1 /\ ends[1] = Do("commit")
    BY StepMembers
  <2> HIDE DEF ends
  <2>2. From(StartProgram(p, s), 7) = ends
    <3>1. StartProgram(p, s) \in Seq(Steps) /\ 7 \in 1 .. Len(StartProgram(p, s))
          /\ Len(ends) = Len(StartProgram(p, s)) - 7 + 1
          /\ \A i \in 1 .. Len(ends) : ends[i] = StartProgram(p, s)[7 + i - 1]
      <4>1. StartProgram(p, s) \in Seq(Steps)
        BY ProgramTypes, Zenon
      <4>2. Len(StartProgram(p, s)) = 7 /\ StartProgram(p, s)[7] = Do("commit")
        BY StartSteps
      <4> HIDE DEF ends
      <4> QED
        BY <2>1, <4>1, <4>2
    <3> QED
      BY <2>1, <3>1, FromIs, Zenon
  <2> QED
    BY <2>2 DEF ends
<1>5. From(PersistProgram, 7) = <<Do("commit")>>
  <2> DEFINE ends == <<Do("commit")>>
  <2>1. ends \in Seq(Steps) /\ Len(ends) = 1 /\ ends[1] = Do("commit")
    BY StepMembers
  <2> HIDE DEF ends
  <2>2. From(PersistProgram, 7) = ends
    <3>1. PersistProgram \in Seq(Steps) /\ 7 \in 1 .. Len(PersistProgram)
          /\ Len(ends) = Len(PersistProgram) - 7 + 1
          /\ \A i \in 1 .. Len(ends) : ends[i] = PersistProgram[7 + i - 1]
      BY <2>1, ProgramTypes, PersistSteps
    <3> QED
      BY <2>1, <3>1, FromIs, Zenon
  <2> QED
    BY <2>2 DEF ends
<1> QED
  BY <1>2, <1>3, <1>4, <1>5

\* The first steps of short programs.
LEMMA Heads1 == \A x : <<x>> # <<>> /\ Head(<<x>>) = x /\ Tail(<<x>>) = <<>>
  OBVIOUS

LEMMA Heads2 == \A x, y : <<x, y>> # <<>> /\ Head(<<x, y>>) = x /\ Tail(<<x, y>>) = <<y>>
  OBVIOUS

LEMMA Heads3 ==
  \A x, y, z : <<x, y, z>> # <<>> /\ Head(<<x, y, z>>) = x /\ Tail(<<x, y, z>>) = <<y, z>>
  OBVIOUS

LEMMA Heads4 ==
  \A x, y, z, w : /\ <<x, y, z, w>> # <<>> /\ Head(<<x, y, z, w>>) = x
                  /\ Tail(<<x, y, z, w>>) = <<y, z, w>>
  OBVIOUS

\* The operations of the steps with a fixed argument.
LEMMA FixedOps ==
  /\ Note.op = "write" /\ Do("evaluate").op = "evaluate"
  /\ SetLatch.op = "latch" /\ ClearLatch.op = "latch"
  /\ OpenNew.op = "move" /\ CloseOld.op = "move"
  BY Fields, FixedSteps

-----------------------------------------------------------------------------
(* The first step of each form, and what is left behind it.                *)

LEMMA ChangingStep ==
  ASSUME NEW q, NEW k \in 1 .. 8, Changing(q, k)
  PROVE  /\ q # <<>> /\ Head(q) = ChangeProgram[k] /\ Tail(q) = From(ChangeProgram, k + 1)
         /\ k \in {1, 6} => Head(q).op = "check"
         /\ k \in {2, 7} => Head(q).op = "enter"
         /\ k = 3 => Head(q) = OpenNew /\ Head(q).op = "move"
         /\ k = 4 => Head(q) = Note /\ Head(q).op = "write"
         /\ k = 5 => Head(q).op = "fact" /\ Head(q).name = "newOpen"
         /\ k = 8 => Head(q) = CloseOld /\ Head(q).op = "move"
         /\ k \in {1, 2} => Head(q).target = NewTankOpen
         /\ k \in {6, 7} => Head(q).target = OldTankClosed
<1>0. ChangeProgram \in Seq(Steps) /\ k \in 1 .. Len(ChangeProgram)
  BY ProgramTypes, ChangeSteps
<1>1. /\ q # <<>> /\ Head(q) = ChangeProgram[k] /\ Tail(q) = From(ChangeProgram, k + 1)
  BY <1>0, FromStep, Zenon DEF Changing
<1> QED
  BY <1>1, ChangeSteps, Fields, FixedSteps

LEMMA StartingStep ==
  ASSUME NEW q, NEW p \in Pumps, NEW s \in Nat, NEW k \in 1 .. 6, Starting(q, p, s, k)
  PROVE  /\ q # <<>> /\ Head(q) = StartProgram(p, s)[k]
         /\ Tail(q) = From(StartProgram(p, s), k + 1)
         /\ k \in {1, 4} => Head(q).op = "check"
         /\ k = 5 => Head(q).op = "enter"
         /\ k \in {1, 4, 5} => Head(q).target = PumpRunning
         /\ k = 2 => Head(q).op = "verify"
         /\ k = 3 => Head(q).op = "use"
         /\ k = 6 => Head(q).op = "energise" /\ Head(q).pump = p
         /\ k \in {2, 3, 6} => Head(q).sheet = s
<1>0. StartProgram(p, s) \in Seq(Steps) /\ k \in 1 .. Len(StartProgram(p, s))
  BY ProgramTypes, StartSteps
<1>1. /\ q # <<>> /\ Head(q) = StartProgram(p, s)[k]
      /\ Tail(q) = From(StartProgram(p, s), k + 1)
  BY <1>0, FromStep, Zenon DEF Starting
<1> QED
  BY <1>1, StartSteps, Fields

LEMMA PersistingStep ==
  ASSUME NEW q, NEW k \in 1 .. 6, Persisting(q, k)
  PROVE  /\ q # <<>> /\ Tail(q) = From(PersistProgram, k + 1)
         /\ k \in 1 .. 3 => Head(q).op = "save" /\ Head(q).valve \in Valves
         /\ k = 4 => Head(q).op = "issue"
         /\ k = 5 => Head(q).op = "fact" /\ Head(q).name = "persisted"
         /\ k = 6 => Head(q).op = "ifIdle"
<1>0. PersistProgram \in Seq(Steps) /\ k \in 1 .. Len(PersistProgram)
  BY ProgramTypes, PersistSteps
<1>1. /\ q # <<>> /\ Head(q) = PersistProgram[k] /\ Tail(q) = From(PersistProgram, k + 1)
  BY <1>0, FromStep, Zenon DEF Persisting
<1> QED
  BY <1>1, PersistSteps, Fields DEF Valves

LEMMA AdvancingStep ==
  ASSUME NEW q, Advancing(q)
  PROVE  /\ q # <<>> /\ Head(q).target = ValvesSaved
         /\ \/ /\ Head(q).op = "check"
               /\ Tail(q) = <<Enter(ValvesSaved), Do("commit")>>
            \/ Head(q).op = "enter" /\ Tail(q) = <<Do("commit")>>
<1>1. CASE q = <<Check(ValvesSaved), Enter(ValvesSaved), Do("commit")>>
  <2>1. /\ q # <<>> /\ Head(q) = Check(ValvesSaved)
        /\ Tail(q) = <<Enter(ValvesSaved), Do("commit")>>
    BY <1>1, Heads3, Zenon
  <2> QED
    BY <2>1, Fields
<1>2. CASE q = <<Enter(ValvesSaved), Do("commit")>>
  <2>1. q # <<>> /\ Head(q) = Enter(ValvesSaved) /\ Tail(q) = <<Do("commit")>>
    BY <1>2, Heads2, Zenon
  <2> QED
    BY <2>1, Fields
<1> QED
  BY <1>1, <1>2 DEF Advancing

LEMMA UncommittedStep ==
  ASSUME NEW q, Uncommitted(q), q # <<>>
  PROVE  /\ Tail(q) = <<>>
         /\ \/ Head(q) = Note /\ Head(q).op = "write"
            \/ Head(q) = Do("evaluate") /\ Head(q).op = "evaluate"
            \/ Head(q) = SetLatch /\ Head(q).op = "latch" /\ level = "limit"
            \/ Head(q) = ClearLatch /\ Head(q).op = "latch" /\ MayClear
<1>1. CASE q = <<Note>>
  BY <1>1, Heads1, FixedOps, Zenon
<1>2. CASE q = <<Do("evaluate")>>
  BY <1>2, Heads1, FixedOps, Zenon
<1>3. CASE q = <<SetLatch>> /\ level = "limit"
  BY <1>3, Heads1, FixedOps, Zenon
<1>4. CASE q = <<ClearLatch>> /\ MayClear
  BY <1>4, Heads1, FixedOps, Zenon
<1> QED
  BY <1>1, <1>2, <1>3, <1>4, Zenon DEF Uncommitted

LEMMA SwitchingStep ==
  ASSUME NEW q, Switching(q)
  PROVE  /\ q # <<>> /\ Calm(Tail(q))
         /\ Head(q).op \in {"off", "latch", "level"}
         /\ Head(q).op = "off" => Esd \notin open
         /\ Head(q).op = "latch" => Head(q) = ClearLatch /\ (latched => Esd \notin open)
<1>1. CASE Head(q) \in {Off(p) : p \in Pumps} /\ Esd \notin open
  BY <1>1, Fields DEF Switching
<1>2. CASE Head(q) = ClearLatch /\ (latched => Esd \notin open)
  BY <1>2, FixedSteps DEF Switching
<1>3. CASE Head(q) \in {SetLevel(to) : to \in Levels}
  BY <1>3, Fields DEF Switching
<1> QED
  BY <1>1, <1>2, <1>3 DEF Switching

LEMMA StoppingStep ==
  ASSUME NEW q, Stopping(q)
  PROVE  /\ q # <<>> /\ Head(q).op = "move" /\ Head(q) = ShutEsd
         /\ Tail(q) # <<>> /\ Head(Tail(q)) \in {Off(p) : p \in Pumps}
         /\ Calm(Tail(Tail(q)))
  BY FixedSteps, Zenon DEF Stopping

LEMMA RetryingStep ==
  ASSUME NEW q, Retrying(q)
  PROVE  /\ q # <<>>
         /\ \/ /\ Head(q) = Ensure(New, TRUE) /\ Head(q).op = "ensure"
               /\ Tail(q) = <<Ensure(Old, FALSE), Do("commit")>>
            \/ /\ Head(q) = OpenNew /\ Head(q).op = "move"
               /\ Tail(q) = <<Note, Ensure(Old, FALSE), Do("commit")>>
            \/ /\ Head(q) = Note /\ Head(q).op = "write" /\ New \in open
               /\ Tail(q) = <<Ensure(Old, FALSE), Do("commit")>>
            \/ /\ Head(q) = Ensure(Old, FALSE) /\ Head(q).op = "ensure" /\ New \in open
               /\ Tail(q) = <<Do("commit")>>
            \/ /\ Head(q) = CloseOld /\ Head(q).op = "move" /\ New \in open
               /\ Tail(q) = <<Note, Do("commit")>>
<1>0. Ensure(New, TRUE).op = "ensure" /\ Ensure(Old, FALSE).op = "ensure"
  BY DEF Ensure
<1>1. CASE q = <<Ensure(New, TRUE), Ensure(Old, FALSE), Do("commit")>>
  BY <1>0, <1>1, Heads3, Zenon
<1>2. CASE q = <<OpenNew, Note, Ensure(Old, FALSE), Do("commit")>>
  BY <1>2, Heads4, FixedOps, Zenon
<1>3. CASE New \in open /\ q = <<Note, Ensure(Old, FALSE), Do("commit")>>
  BY <1>3, Heads3, FixedOps, Zenon
<1>4. CASE New \in open /\ q = <<Ensure(Old, FALSE), Do("commit")>>
  BY <1>0, <1>4, Heads2, Zenon
<1>5. CASE New \in open /\ q = <<CloseOld, Note, Do("commit")>>
  BY <1>5, Heads3, FixedOps, Zenon
<1> QED
  BY <1>1, <1>2, <1>3, <1>4, <1>5, Zenon DEF Retrying

LEMMA MovingStep ==
  ASSUME NEW q, Moving(q)
  PROVE  /\ q # <<>> /\ Head(q).op = "move" /\ Tail(q) = <<Do("commit")>>
<1> PICK v \in Valves, to \in BOOLEAN : q = <<Move(v, to), Do("commit")>>
  BY DEF Moving
<1>1. q # <<>> /\ Head(q) = Move(v, to) /\ Tail(q) = <<Do("commit")>>
  BY Heads2, Zenon
<1>2. Move(v, to).op = "move"
  BY DEF Move
<1> QED
  BY <1>1, <1>2, Zenon

LEMMA UndoingStep ==
  ASSUME NEW q, Undoing(q)
  PROVE  /\ q # <<>>
         /\ \/ Head(q).op = "rebuild" /\ Tail(q) = <<Do("commit")>>
            \/ Head(q).op = "undo" /\ Tail(q) = <<Do("rebuild"), Do("commit")>>
<1>1. CASE q = <<Do("rebuild"), Do("commit")>>
  <2>1. q # <<>> /\ Head(q) = Do("rebuild") /\ Tail(q) = <<Do("commit")>>
    BY <1>1, Heads2, Zenon
  <2> QED
    BY <2>1, Fields
<1>2. CASE q = <<Do("undo"), Do("rebuild"), Do("commit")>>
  <2>1. q # <<>> /\ Head(q) = Do("undo") /\ Tail(q) = <<Do("rebuild"), Do("commit")>>
    BY <1>2, Heads3, Zenon
  <2> QED
    BY <2>1, Fields
<1> QED
  BY <1>1, <1>2, Zenon DEF Undoing

LEMMA HaltingStep ==
  ASSUME NEW q, Halting(q)
  PROVE  /\ q # <<>> /\ Head(q).op = "stop" /\ Head(q).pump \in Pumps /\ Settled
         /\ Tail(q) = <<Do("commit")>>
<1> PICK p \in Pumps : q = <<Stop(p), Do("commit")>>
  BY DEF Halting
<1>1. q # <<>> /\ Head(q) = Stop(p) /\ Tail(q) = <<Do("commit")>>
  BY Heads2, Zenon
<1> QED
  BY <1>1, Fields DEF Halting

\* What a request is at, by its next step.
LEMMA NextForm ==
  ASSUME NEW q, Form(q), q # <<>>
  PROVE  /\ Head(q).op \notin {"save", "issue"} => Vouched
         /\ Head(q).op = "check" =>
              \/ Changing(q, 1) \/ Changing(q, 6)
              \/ \E p \in Pumps, s \in Nat : Starting(q, p, s, 1) \/ Starting(q, p, s, 4)
              \/ Advancing(q)
         /\ Head(q).op = "enter" =>
              \/ Changing(q, 2) \/ Changing(q, 7)
              \/ \E p \in Pumps, s \in Nat : Starting(q, p, s, 5)
              \/ Advancing(q)
         /\ Head(q).op = "fact" => Changing(q, 5) \/ Persisting(q, 5) \/ Calm(q)
         /\ Head(q).op = "ifIdle" => Persisting(q, 6)
         /\ Head(q).op = "move" =>
              \/ Changing(q, 3) \/ Changing(q, 8) \/ Calm(q) \/ Stopping(q)
              \/ Retrying(q) \/ Moving(q)
         /\ Head(q).op = "write" =>
              /\ Head(q) = Note
              /\ Changing(q, 4) \/ Calm(q) \/ Retrying(q) \/ Uncommitted(q)
         /\ Head(q).op = "ensure" => Retrying(q)
         /\ Head(q).op \in {"stopEach", "commit"} => Calm(q)
         /\ Head(q).op = "save" => \E k \in 1 .. 3 : Persisting(q, k)
         /\ Head(q).op = "issue" => Persisting(q, 4)
         /\ Head(q).op = "verify" => \E p \in Pumps, s \in Nat : Starting(q, p, s, 2)
         /\ Head(q).op = "use" => \E p \in Pumps, s \in Nat : Starting(q, p, s, 3)
         /\ Head(q).op = "energise" => \E p \in Pumps, s \in Nat : Starting(q, p, s, 6)
         /\ Head(q).op = "stop" => Halting(q)
         /\ Head(q).op \in {"off", "level"} => Switching(q)
         /\ Head(q).op = "latch" => Uncommitted(q) \/ Calm(q) \/ Switching(q)
         /\ Head(q).op = "evaluate" => Uncommitted(q) \/ Calm(q)
         /\ Head(q).op \in {"undo", "rebuild"} => Undoing(q)
<1>1. CASE Vouched /\ \E k \in 1 .. 8 : Changing(q, k)
  BY <1>1, ChangingStep
<1>2. CASE Vouched /\ \E p \in Pumps, s \in Nat, k \in 1 .. 6 : Starting(q, p, s, k)
  <2> PICK p \in Pumps, s \in Nat, k \in 1 .. 6 : Starting(q, p, s, k)
    BY <1>2
  <2>1. /\ Head(q).op \in {"check", "enter", "verify", "use", "energise"}
        /\ Head(q).op = "check" <=> k \in {1, 4}
        /\ Head(q).op = "enter" <=> k = 5
        /\ Head(q).op = "verify" <=> k = 2
        /\ Head(q).op = "use" <=> k = 3
        /\ Head(q).op = "energise" <=> k = 6
    BY StartingStep
  <2> QED
    BY <1>2, <2>1
<1>3. CASE \E k \in 1 .. 6 : Persisting(q, k)
  <2> PICK k \in 1 .. 6 : Persisting(q, k)
    BY <1>3
  <2>1. /\ Head(q).op \in {"save", "issue", "fact", "ifIdle"}
        /\ Head(q).op = "save" <=> k \in 1 .. 3
        /\ Head(q).op = "issue" <=> k = 4
        /\ Head(q).op = "fact" <=> k = 5
        /\ Head(q).op = "ifIdle" <=> k = 6
    BY PersistingStep
  <2>2. k \notin 2 .. 4 => Vouched
    BY DEF Persisting
  <2> QED
    BY <2>1, <2>2
<1>4. CASE Vouched /\ Advancing(q)
  BY <1>4, AdvancingStep
<1>5. CASE Vouched /\ Uncommitted(q)
  <2>1. /\ Head(q).op \in {"write", "evaluate", "latch"}
        /\ Head(q).op = "write" => Head(q) = Note
    BY <1>5, UncommittedStep, FixedSteps, Fields
  <2> QED
    BY <1>5, <2>1
<1>6. CASE Vouched /\ Calm(q)
  <2>1. /\ Head(q).op \in {"write", "evaluate", "commit", "fact", "move", "stopEach", "latch"}
        /\ Head(q).op = "write" => Head(q) = Note
    BY <1>6, CalmStep, CalmTypes
  <2> QED
    BY <1>6, <2>1
<1>7. CASE Vouched /\ Switching(q)
  BY <1>7, SwitchingStep
<1>8. CASE Vouched /\ Stopping(q)
  BY <1>8, StoppingStep
<1>9. CASE Vouched /\ Retrying(q)
  <2>1. /\ Head(q).op \in {"ensure", "move", "write"}
        /\ Head(q).op = "write" => Head(q) = Note
    BY <1>9, RetryingStep
  <2> QED
    BY <1>9, <2>1
<1>10. CASE Vouched /\ Moving(q)
  BY <1>10, MovingStep
<1>11. CASE Vouched /\ Undoing(q)
  BY <1>11, UndoingStep
<1>12. CASE Vouched /\ Halting(q)
  BY <1>12, HaltingStep
<1> QED
  BY <1>1, <1>2, <1>3, <1>4, <1>5, <1>6, <1>7, <1>8, <1>9, <1>10, <1>11, <1>12 DEF Form

\* A thread that is idle has left the plant as the checkpoint knows it.
LEMMA IdleForm ==
  ASSUME Form(<<>>)
  PROVE  Settled /\ Vouched
<1> DEFINE q == <<>>
<1>1. ~ \E k \in 1 .. 8 : Changing(q, k)
  BY ChangingStep, Zenon
<1>2. ~ \E p \in Pumps, s \in Nat, k \in 1 .. 6 : Starting(q, p, s, k)
  BY StartingStep, Zenon
<1>3. ~ \E k \in 1 .. 6 : Persisting(q, k)
  BY PersistingStep, Zenon
<1>4. /\ ~ Advancing(q) /\ ~ Calm(q) /\ ~ Switching(q) /\ ~ Stopping(q) /\ ~ Retrying(q)
      /\ ~ Moving(q) /\ ~ Undoing(q) /\ ~ Halting(q)
  BY AdvancingStep, CalmStep, SwitchingStep, StoppingStep, RetryingStep, MovingStep,
     UndoingStep, HaltingStep, Zenon
<1>5. Uncommitted(q) /\ Vouched
  BY <1>1, <1>2, <1>3, <1>4, Zenon DEF Form
<1> QED
  BY <1>5 DEF Uncommitted

-----------------------------------------------------------------------------
(* Requests, and steps that change nothing but a program.                  *)

\* Nothing that a form is about has changed.
Still ==
  UNCHANGED <<stage, facts, open, durable, running, latched, level, sheets, vouching,
              generation, saved, jumped, undone>>

\* And the records are the same.
Quiet == Still /\ UNCHANGED <<journal, stream, past>>

LEMMA QuietIs ==
  ASSUME UNCHANGED <<sequence, valves, plant, papers, logged, saved, jumped, undone>>
  PROVE  Quiet
  BY DEF Quiet, Still, sequence, valves, plant, papers, logged

LEMMA StillKeeps ==
  ASSUME Still
  PROVE  /\ StageInv => StageInv'
         /\ SheetsBehind => SheetsBehind'
         /\ Settled => Settled'
         /\ Vouched => Vouched'
         /\ \A q : Form(q) => Form(q)'
<1>0. UNCHANGED <<stage, facts, open, durable, running, latched, level, sheets, vouching,
                  generation, saved, jumped, undone>>
  BY DEF Still
<1>1. Shown => Shown'
  BY <1>0 DEF Shown, GenerationKept, MayClear
<1>2. Settled => Settled'
  BY <1>0, <1>1 DEF Settled, StageKept
<1>3. Vouched => Vouched'
  BY <1>0 DEF Vouched
<1>4. \A q, k : Changing(q, k) => Changing(q, k)'
  BY <1>0, <1>2 DEF Changing
<1>5. \A q, p, s, k : Starting(q, p, s, k) => Starting(q, p, s, k)'
  BY <1>0, <1>1 DEF Starting, StageLives, StageKept
<1>6. \A q, k : Persisting(q, k) => Persisting(q, k)'
  BY <1>3 DEF Persisting
<1>7. \A q : Switching(q) => Switching(q)'
  BY <1>0 DEF Switching
<1>8. \A q : Advancing(q) => Advancing(q)'
  BY <1>0 DEF Advancing
<1>9. \A q : Uncommitted(q) => Uncommitted(q)'
  BY <1>0, <1>2 DEF Uncommitted, MayClear
<1>10. \A q : Retrying(q) => Retrying(q)'
  BY <1>0, Zenon DEF Retrying
<1>11. \A q : Undoing(q) => Undoing(q)'
  BY DEF Still, Undoing
<1>12. \A q : Halting(q) => Halting(q)'
  BY <1>2, Zenon DEF Halting
<1>13. ASSUME NEW q, Form(q) PROVE Form(q)'
  <2>1. CASE \E k \in 1 .. 6 : Persisting(q, k)
    BY <1>6, <2>1, Zenon DEF Form
  <2>2. CASE Vouched /\ \E k \in 1 .. 8 : Changing(q, k)
    BY <1>3, <1>4, <2>2, Zenon DEF Form
  <2>3. CASE Vouched /\ \E p \in Pumps, s \in Nat, k \in 1 .. 6 : Starting(q, p, s, k)
    BY <1>3, <1>5, <2>3, Zenon DEF Form
  <2>4. CASE Vouched /\ (Advancing(q) \/ Uncommitted(q) \/ Calm(q) \/ Switching(q))
    BY <1>3, <1>7, <1>8, <1>9, <2>4, Zenon DEF Form
  <2>5. CASE Vouched /\ (Stopping(q) \/ Retrying(q) \/ Moving(q) \/ Undoing(q) \/ Halting(q))
    BY <1>3, <1>10, <1>11, <1>12, <2>5, Zenon DEF Form
  <2> QED
    BY <1>13, <2>1, <2>2, <2>3, <2>4, <2>5, Zenon DEF Form
<1>14. StageInv => StageInv'
  BY <1>0 DEF StageInv, StageLives, StageKept
<1>15. SheetsBehind => SheetsBehind'
  BY <1>0 DEF SheetsBehind
<1> QED
  BY <1>2, <1>3, <1>13, <1>14, <1>15, Zenon

LEMMA QuietRecords ==
  ASSUME Quiet
  PROVE  \A P : /\ Agrees(P) => Agrees(P)'
                /\ Between(P) => Between(P)'
                /\ StreamInv(P) => StreamInv(P)'
<1>0. UNCHANGED <<stage, open, running, latched, level, generation, saved, undone, stream, past>>
  BY DEF Quiet, Still
<1> QED
  BY <1>0 DEF Agrees, Between, StreamInv, Reached, StageKept, GenerationKept

\* What a form is about to record changes no projection.
FormsRecord == \A q, P : Form(q) => ToBe(P, q) = P

LEMMA FormRecords == FormsRecord
<1> SUFFICES ASSUME NEW q, Form(q), NEW P PROVE ToBe(P, q) = P
  BY DEF FormsRecord
<1>1. CASE Reports(q)
  <2>1. q # <<>> /\ Head(q).op = "write"
    BY <1>1 DEF Reports
  <2>2. Head(q) = Note
    BY <2>1, NextForm
  <2>3. Head(q).record = Other
    BY <2>2, Fields
  <2> QED
    BY <1>1, <2>3, Applied DEF ToBe
<1>2. CASE ~ Reports(q)
  BY <1>2 DEF ToBe
<1> QED
  BY <1>1, <1>2

\* One request at a time, whose lines are written.
OneRequest == OneThread /\ MaxFailures = 0 /\ TypeInv /\ RequestInv

\* The only thread is the one that takes the step, ...
LEMMA Focus ==
  ASSUME OneThread, NEW t \in Threads, NEW q, todo'[t] = q,
         StageInv', SheetsBehind', Doing(q)',
         Agrees(ToBe(journal, q))', Between(ToBe(stream, q))', StreamInv(ToBe(stream, q))'
  PROVE  RequestInv'
<1>1. \A u \in Threads : u = t
  BY DEF OneThread
<1>2. \A u \in Threads : todo'[u] = q
  BY <1>1
<1> QED
  BY <1>2 DEF RequestInv

\* ... and is at a form afterwards, ...
LEMMA FocusForm ==
  ASSUME OneThread, NEW t \in Threads, NEW q, todo'[t] = q,
         StageInv', SheetsBehind', Form(q)',
         Agrees(journal)', Between(stream)', StreamInv(stream)'
  PROVE  RequestInv'
<1>1. Doing(q)'
  BY DEF Doing
<1>2. ToBe(journal, q)' = journal' /\ ToBe(stream, q)' = stream'
  <2>1. FormsRecord'
    BY FormRecords, PTL
  <2> QED
    BY <2>1 DEF FormsRecord, ToBe, Reports
<1> QED
  BY <1>1, <1>2, Focus DEF Agrees, Between, StreamInv, Reached

\* ... or is about to report what it did.
LEMMA FocusReport ==
  ASSUME OneThread, NEW t \in Threads, NEW q \in Seq(Steps), NEW r \in Records,
         todo'[t] = <<Write(r)>> \o q, StageInv', SheetsBehind', Form(q)',
         Agrees(Apply(journal, r))', Between(Apply(stream, r))', StreamInv(Apply(stream, r))'
  PROVE  RequestInv'
<1> DEFINE w == <<Write(r)>> \o q
<1>1. Write(r) \in Steps
  BY StepMembers
<1>2. w # <<>> /\ Head(w) = Write(r) /\ Tail(w) = q
  BY <1>1, Onto
<1>3. Head(w).op = "write" /\ Head(w).record = r
  BY <1>2, Fields
<1> HIDE DEF w
<1>4. Reports(w) /\ \A P : ToBe(P, w) = Apply(P, r)
  BY <1>2, <1>3 DEF Reports, ToBe
<1>5. Doing(w)'
  BY <1>2, <1>4 DEF Doing
<1>6. ToBe(journal, w)' = Apply(journal, r)' /\ ToBe(stream, w)' = Apply(stream, r)'
  BY <1>2, <1>3 DEF Reports, ToBe
<1> QED
  BY <1>5, <1>6, Focus DEF Agrees, Between, StreamInv, Reached, w

\* What is known where a thread takes a step that appends nothing.
LEMMA Here ==
  ASSUME OneRequest, NEW t \in Threads, NEW q, q = todo[t], q # <<>>, Head(q).op # "write"
  PROVE  /\ StageInv /\ SheetsBehind /\ Form(q)
         /\ Agrees(journal) /\ Between(stream) /\ StreamInv(stream)
         /\ Head(q).op \notin {"save", "issue"} => Vouched
         /\ Step(t) = Head(q) /\ Head(q) \in Steps /\ q \in Seq(Steps) /\ Tail(q) \in Seq(Steps)
<1>1. Head(q) \in Steps /\ q \in Seq(Steps) /\ Tail(q) \in Seq(Steps)
  BY DEF OneRequest, TypeInv
<1>2. ~ Reports(q)
  BY DEF Reports
<1>3. ToBe(journal, q) = journal /\ ToBe(stream, q) = stream
  BY <1>2 DEF ToBe
<1>4. Form(q) /\ Agrees(journal) /\ Between(stream) /\ StreamInv(stream)
  BY <1>2, <1>3 DEF OneRequest, RequestInv, Doing
<1>5. Head(q).op \notin {"save", "issue"} => Vouched
  BY <1>4, NextForm, Zenon
<1> QED
  BY <1>1, <1>4, <1>5, Zenon DEF OneRequest, RequestInv, Step

\* What is left after a step.
LEMMA Left ==
  ASSUME OneRequest, NEW t \in Threads, NEW q, q = todo[t]
  PROVE  /\ Proceed(t) => todo'[t] = Tail(q)
         /\ Raise(t) => todo'[t] = <<>>
         /\ \A steps : Instead(t, steps) => todo'[t] = steps \o Tail(q)
         /\ \A r : Report(t, r) => todo'[t] = <<Write(r)>> \o Tail(q)
  BY DEF OneRequest, TypeInv, Proceed, Raise, Instead, Report

\* A step that changes nothing but its program, to one of the forms.
LEMMA QuietKeeps ==
  ASSUME OneRequest, NEW t \in Threads, NEW q, q = todo[t], q # <<>> => Head(q).op # "write",
         Quiet, NEW r, todo'[t] = r, Form(r)
  PROVE  RequestInv'
<1>1. StageInv /\ SheetsBehind /\ Agrees(journal) /\ Between(stream) /\ StreamInv(stream)
  <2>1. CASE q # <<>>
    BY <2>1, Here
  <2>2. CASE q = <<>>
    BY <2>2 DEF OneRequest, RequestInv, ToBe, Reports
  <2> QED
    BY <2>1, <2>2
<1>2. StageInv' /\ SheetsBehind' /\ Form(r)'
  BY <1>1, StillKeeps DEF Quiet
<1>3. journal' = journal /\ stream' = stream
  BY DEF Quiet
<1>4. /\ \A P : Agrees(P) => Agrees(P)'
      /\ \A P : Between(P) => Between(P)'
      /\ \A P : StreamInv(P) => StreamInv(P)'
  BY QuietRecords
<1>5. PICK J, S : J = journal /\ S = stream
  OBVIOUS
<1>6. Agrees(J)' /\ Between(S)' /\ StreamInv(S)'
  BY <1>1, <1>4, <1>5
<1>7. Agrees(journal)' /\ Between(stream)' /\ StreamInv(stream)'
  BY <1>3, <1>5, <1>6 DEF Agrees, Between, StreamInv, Reached
<1> QED
  BY <1>2, <1>7, FocusForm DEF OneRequest

\* A request begins as one of the forms.
LEMMA RequestForm ==
  ASSUME TypeInv, Settled, Vouched, NEW t \in Threads, Request(t), NEW q, todo'[t] = q
  PROVE  Form(q) /\ Quiet
<1>0. todo \in [Threads -> Seq(Steps)]
  BY DEF TypeInv
<1>a. ASSUME NEW P, Begin(t, P) PROVE q = P /\ Quiet
  BY <1>0, <1>a, QuietIs DEF Begin, bounds
<1>b. New \in Valves /\ Old \in Valves /\ Esd \in Valves
  BY DEF Valves
<1>c. Note.op # "commit" /\ Do("evaluate").op # "commit" /\ SetLatch.op # "commit"
  BY FixedOps
<1>d. /\ Calm(<<Do("evaluate"), Do("commit")>>) /\ Calm(<<Do("commit")>>)
      /\ Calm(<<Note, Do("commit")>>) /\ Calm(<<Note, Do("evaluate"), Do("commit")>>)
      /\ Calm(<<SetLatch, Note, Do("commit")>>)
  BY <1>c, CalmMembers, CalmShort
<1>1. CASE PersistValves(t)
  <2>1. q = PersistProgram /\ Quiet
    BY <1>1, <1>a DEF PersistValves
  <2>2. q = From(PersistProgram, 1)
    BY <2>1, ProgramTypes, FromEnds, Zenon
  <2>3. Persisting(q, 1)
    BY <2>2 DEF Persisting
  <2> QED
    BY <2>1, <2>3 DEF Form
<1>2. CASE ChangeTank(t)
  <2>1. q = ChangeProgram /\ Quiet
    BY <1>2, <1>a DEF ChangeTank
  <2>2. q = From(ChangeProgram, 1)
    BY <2>1, ProgramTypes, FromEnds, Zenon
  <2>3. Changing(q, 1)
    BY <2>2 DEF Changing
  <2> QED
    BY <2>1, <2>3 DEF Form
<1>3. CASE RetryChangeTank(t)
  <2>1. q = <<Ensure(New, TRUE), Ensure(Old, FALSE), Do("commit")>> /\ Quiet
    BY <1>3, <1>a, Zenon DEF RetryChangeTank
  <2>2. Retrying(q)
    BY <2>1, Zenon DEF Retrying
  <2> QED
    BY <2>1, <2>2, Zenon DEF Form
<1>4. ASSUME NEW v \in Valves, NEW to \in BOOLEAN, MoveValve(t, v, to) PROVE Form(q) /\ Quiet
  <2>1. q = <<Move(v, to), Do("commit")>> /\ Quiet
    BY <1>4, <1>a, Zenon DEF MoveValve
  <2>2. Moving(q)
    BY <2>1, Zenon DEF Moving
  <2> QED
    BY <2>1, <2>2, Zenon DEF Form
<1>5. ASSUME NEW p \in Pumps, NEW s \in DOMAIN sheets, StartPump(t, p, s)
      PROVE  Form(q) /\ Quiet
  <2>1. q = StartProgram(p, s) /\ Quiet
    BY <1>5, <1>a DEF StartPump
  <2>2. s \in Nat
    BY DEF TypeInv, TypeOK
  <2>3. q = From(StartProgram(p, s), 1)
    BY <2>1, <2>2, ProgramTypes, FromEnds, Zenon
  <2>4. Starting(q, p, s, 1)
    BY <2>3 DEF Starting, Settled
  <2> QED
    BY <2>1, <2>2, <2>4 DEF Form
<1>6. ASSUME NEW p \in Pumps, StopPump(t, p) PROVE Form(q) /\ Quiet
  <2>1. q = <<Stop(p), Do("commit")>> /\ Quiet
    BY <1>6, <1>a DEF StopPump
  <2>2. Halting(q)
    BY <2>1, Zenon DEF Halting
  <2> QED
    BY <2>1, <2>2, Zenon DEF Form
<1>7. ASSUME NEW to \in Levels, ChangeLevel(t, to) \/ Reassess(t, to) PROVE Form(q) /\ Quiet
  <2>1. /\ \/ q = <<SetLevel(to), Do("evaluate"), Do("commit")>>
           \/ q = <<SetLevel(to), Do("commit")>>
        /\ Quiet
    BY <1>7, <1>a, Zenon DEF ChangeLevel, Reassess
  <2>2. /\ q # <<>> /\ Head(q) = SetLevel(to)
        /\ Tail(q) = <<Do("evaluate"), Do("commit")>> \/ Tail(q) = <<Do("commit")>>
    <3>1. CASE q = <<SetLevel(to), Do("evaluate"), Do("commit")>>
      BY <3>1, Heads3
    <3>2. CASE q = <<SetLevel(to), Do("commit")>>
      BY <3>2, Heads2
    <3> QED
      BY <2>1, <3>1, <3>2
  <2>3. Calm(Tail(q))
    BY <1>d, <2>2, Zenon
  <2>4. Switching(q)
    BY <2>2, <2>3 DEF Switching
  <2> QED
    BY <2>1, <2>4, Zenon DEF Form
<1>8. CASE TripEsd(t) \/ RetripEsd(t)
  <2>1. Begin(t, ActProgram) \/ Begin(t, <<Do("evaluate"), Do("commit")>>)
    BY <1>8, Zenon DEF TripEsd, RetripEsd
  <2>2. (q = ActProgram \/ q = <<Do("evaluate"), Do("commit")>>) /\ Quiet
    BY <1>a, <2>1, Zenon
  <2>3. Calm(q)
    BY <1>d, <2>2, ActIsCalm, Zenon
  <2> QED
    BY <2>2, <2>3, Zenon DEF Form
<1>9. CASE TestEsd(t)
  <2>1. q = <<SetLatch, Note, Do("commit")>> /\ Quiet
    BY <1>9, <1>a, Zenon DEF TestEsd, SetLatch
  <2>2. Calm(q)
    BY <1>d, <2>1, Zenon
  <2> QED
    BY <2>1, <2>2, Zenon DEF Form
<1>10. CASE ResetEsd(t)
  <2>1. q = <<ClearLatch, Note, Do("evaluate"), Do("commit")>> /\ Quiet
    BY <1>10, <1>a, Zenon DEF ResetEsd, ClearLatch
  <2>2. q # <<>> /\ Head(q) = ClearLatch /\ Tail(q) = <<Note, Do("evaluate"), Do("commit")>>
    BY <2>1, Heads4
  <2>3. latched => Esd \notin open
    BY <1>10 DEF ResetEsd
  <2>4. Switching(q)
    BY <1>d, <2>2, <2>3, Zenon DEF Switching
  <2> QED
    BY <2>1, <2>4, Zenon DEF Form
<1>11. CASE EvaluateInterlocks(t)
  <2>1. q = <<Do("evaluate")>> /\ Quiet
    BY <1>11, <1>a DEF EvaluateInterlocks
  <2>2. Uncommitted(q)
    BY <2>1, Zenon DEF Uncommitted
  <2> QED
    BY <2>1, <2>2, Zenon DEF Form
<1>12. CASE OtherRequest(t)
  <2>1. PICK P \in OtherPrograms : Begin(t, P)
    BY <1>12 DEF OtherRequest
  <2>2. q \in OtherPrograms /\ Quiet
    BY <1>a, <2>1
  <2>3. CASE q = <<Note>>
    BY <2>2, <2>3, Zenon DEF Form, Uncommitted
  <2>4. CASE q # <<Note>>
    <3>1. Calm(q)
      BY <1>d, <2>2, <2>4, Zenon DEF OtherPrograms
    <3> QED
      BY <2>2, <3>1, Zenon DEF Form
  <2> QED
    BY <2>3, <2>4
<1>13. CASE Rollback(t)
  <2>2. q = <<Do("undo"), Do("rebuild"), Do("commit")>>
    BY <1>0, <1>13 DEF Rollback
  <2>3. Undoing(q)
    BY <2>2, Zenon DEF Undoing
  <2>4. Quiet
    BY <1>13, QuietIs DEF Rollback
  <2> QED
    BY <2>3, <2>4, Zenon DEF Form
<1> QED
  BY <1>1, <1>2, <1>3, <1>4, <1>5, <1>6, <1>7, <1>8, <1>9, <1>10, <1>11, <1>12, <1>13, Zenon
  DEF Request

LEMMA RequestKeeps ==
  ASSUME OneRequest, NEW t \in Threads, Request(t)
  PROVE  RequestInv'
<1>1. todo[t] = <<>>
  BY DEF Request, PersistValves, ChangeTank, RetryChangeTank, MoveValve, StartPump, StopPump,
         ChangeLevel, Reassess, TripEsd, RetripEsd, TestEsd, ResetEsd, EvaluateInterlocks,
         OtherRequest, Rollback, Begin
<1>2. Settled /\ Vouched
  <2>1. Doing(<<>>)
    BY <1>1 DEF OneRequest, RequestInv
  <2>2. Form(<<>>)
    BY <2>1 DEF Doing, Reports
  <2> QED
    BY <2>2, IdleForm
<1>3. PICK r : r = todo'[t]
  OBVIOUS
<1>4. Form(r) /\ Quiet
  BY <1>2, <1>3, RequestForm DEF OneRequest
<1> QED
  BY <1>1, <1>3, <1>4, QuietKeeps

LEMMA RequestInit == Init => RequestInv
<1> SUFFICES ASSUME Init PROVE RequestInv
  OBVIOUS
<1>1. /\ saved = Unwritten /\ stream = Unwritten /\ journal = Unwritten /\ stage = 0
      /\ open = {} /\ running = {} /\ latched = FALSE /\ level = "room" /\ generation = 0
      /\ sheets = <<>> /\ ~ jumped /\ undone = {} /\ past.pumps = {}
      /\ \A t \in Threads : todo[t] = <<>>
  BY DEF Init, Idle
<1>2. /\ Unwritten.stage = 0 /\ Unwritten.open = {} /\ Unwritten.running = {}
      /\ Unwritten.latched = FALSE /\ Unwritten.level = "room" /\ Unwritten.generation = 0
  BY DEF Unwritten, Idle
<1>3. StageInv
  BY <1>1, <1>2 DEF StageInv, Single
<1>4. SheetsBehind /\ Vouched
  BY <1>1 DEF SheetsBehind, Vouched
<1>5. Settled
  BY <1>1, <1>2 DEF Settled, Shown
<1>6. Form(<<>>) /\ ~ Reports(<<>>)
  BY <1>4, <1>5 DEF Form, Uncommitted, Reports
<1>7. Agrees(Unwritten)
  BY <1>1, <1>2, Zenon DEF Agrees
<1>8. Between(Unwritten) /\ StreamInv(Unwritten)
  BY <1>1, <1>2 DEF Between, StreamInv, Reached
<1> QED
  BY <1>1, <1>3, <1>4, <1>6, <1>7, <1>8 DEF RequestInv, Doing, ToBe

\* What a restart needs of the stream.
LEMMA StreamAtAnyTime ==
  ASSUME OneRequest
  PROVE  /\ GenerationKept => saved.generation <= stream.generation
         /\ StageKept => saved.stage <= stream.stage /\ Reached(stream)
  BY DEF OneRequest, OneThread, RequestInv, Between, StreamInv

LEMMA RestartKeeps ==
  ASSUME OneRequest, Restart
  PROVE  RequestInv'
<1>1. /\ stage' = saved.stage /\ open' = saved.open /\ running' = saved.running
      /\ latched' = saved.latched /\ level' \in LevelsOf(saved) /\ sheets' = <<>>
      /\ generation' = saved.generation /\ durable' = {} /\ journal' = saved
      /\ UNCHANGED <<stream, past, saved, jumped, undone>>
      /\ \A t \in Threads : todo'[t] = <<>>
  BY DEF Restart, RestoredStage
<1>2. /\ GenerationKept => saved.generation <= stream.generation
      /\ StageKept => saved.stage <= stream.stage /\ Reached(stream)
      /\ StageInv
  BY StreamAtAnyTime DEF OneRequest, RequestInv
<1>3. saved.stage \in 0 .. 4 /\ saved.generation \in Nat
  BY DEF OneRequest, TypeInv, TypeOK, Projections, Idle, PumpRunning
<1>4. StageInv'
  BY <1>1, <1>2, <1>3 DEF StageInv, StageLives, StageKept
<1>5. SheetsBehind' /\ Vouched'
  BY <1>1 DEF SheetsBehind, Vouched
<1>6. level' = saved.level \/ "level" \in undone
  BY <1>1 DEF LevelsOf
<1>7. Settled'
  BY <1>1, <1>6 DEF Settled, Shown
<1>8. Form(<<>>)'
  BY <1>5, <1>7 DEF Form, Uncommitted
<1>9. Agrees(journal)'
  BY <1>1, <1>6 DEF Agrees
<1>10. Between(stream)' /\ StreamInv(stream)'
  BY <1>1, <1>2, <1>3 DEF Between, StreamInv, GenerationKept, StageKept, Reached
<1>11. PICK t \in Threads : TRUE
  BY DEF OneRequest, OneThread
<1> QED
  BY <1>1, <1>4, <1>5, <1>8, <1>9, <1>10, <1>11, FocusForm DEF OneRequest

-----------------------------------------------------------------------------
(* The steps that change nothing but a program.                            *)

\* Two steps before the end of a program.
LEMMA TwoBefore ==
  ASSUME NEW x \in Steps, NEW y \in Steps, NEW z \in Steps
  PROVE  <<x, y>> \o <<z>> = <<x, y, z>>
<1>1. <<x, y>> \o <<z>> \in Seq(Steps) /\ <<x, y, z>> \in Seq(Steps)
  OBVIOUS
<1>2. /\ Len(<<x, y>> \o <<z>>) = 3 /\ Len(<<x, y, z>>) = 3
      /\ \A i \in 1 .. 3 : (<<x, y>> \o <<z>>)[i] = <<x, y, z>>[i]
  OBVIOUS
<1> QED
  BY <1>1, <1>2, SeqEqual

LEMMA TwoBeforeTwo ==
  ASSUME NEW x \in Steps, NEW y \in Steps, NEW z \in Steps, NEW w \in Steps
  PROVE  <<x, y>> \o <<z, w>> = <<x, y, z, w>>
<1>1. <<x, y>> \o <<z, w>> \in Seq(Steps) /\ <<x, y, z, w>> \in Seq(Steps)
  OBVIOUS
<1>2. /\ Len(<<x, y>> \o <<z, w>>) = 4 /\ Len(<<x, y, z, w>>) = 4
      /\ \A i \in 1 .. 4 : (<<x, y>> \o <<z, w>>)[i] = <<x, y, z, w>>[i]
  OBVIOUS
<1> QED
  BY <1>1, <1>2, SeqEqual

LEMMA CheckKeeps ==
  ASSUME OneRequest, NEW t \in Threads, CheckStage(t)
  PROVE  RequestInv'
<1>1. PICK q : q = todo[t]
  OBVIOUS
<1>2. q # <<>> /\ Head(q).op = "check" /\ Quiet
  BY <1>1, QuietIs DEF CheckStage, At, bounds
<1>3. StageInv /\ Form(q) /\ Vouched /\ Step(t) = Head(q)
  BY <1>1, <1>2, Here
<1>4. PICK r : r = todo'[t]
  OBVIOUS
<1>5. r = IF MayEnter(Head(q).target) THEN Tail(q) ELSE <<>>
  BY <1>1, <1>3, <1>4, Left DEF CheckStage
<1>6. stage \in 0 .. 4
  BY DEF OneRequest, TypeInv, TypeOK, Idle, PumpRunning
<1> SUFFICES Form(r)
  BY <1>1, <1>2, <1>4, QuietKeeps
<1>7. Settled => Form(<<>>)
  BY <1>3 DEF Form, Uncommitted
<1>8. CASE Changing(q, 1)
  <2>1. Head(q).target = NewTankOpen /\ Tail(q) = From(ChangeProgram, 2) /\ Settled
    BY <1>8, ChangingStep DEF Changing
  <2>2. CASE MayEnter(NewTankOpen)
    <3>1. stage = ValvesSaved
      BY <1>6, <2>2 DEF MayEnter, NewTankOpen, ValvesSaved
    <3>2. Changing(r, 2)
      BY <1>5, <2>1, <2>2, <3>1 DEF Changing
    <3> QED
      BY <1>3, <3>2 DEF Form
  <2>3. CASE ~ MayEnter(NewTankOpen)
    BY <1>5, <1>7, <2>1, <2>3
  <2> QED
    BY <2>2, <2>3
<1>9. CASE Changing(q, 6)
  <2>1. Head(q).target = OldTankClosed /\ Tail(q) = From(ChangeProgram, 7)
    BY <1>9, ChangingStep
  <2>2. stage = NewTankOpen /\ New \in open /\ "newOpen" \in facts
    BY <1>9 DEF Changing
  <2>3. MayEnter(OldTankClosed)
    BY <2>2 DEF MayEnter, Gates, ValvesSaved, NewTankOpen, OldTankClosed, PumpRunning
  <2>4. Changing(r, 7)
    BY <1>5, <2>1, <2>2, <2>3 DEF Changing
  <2> QED
    BY <1>3, <2>4 DEF Form
<1>10. ASSUME NEW p \in Pumps, NEW s \in Nat, Starting(q, p, s, 1) PROVE Form(r)
  <2>1. Head(q).target = PumpRunning /\ Tail(q) = From(StartProgram(p, s), 2)
    BY <1>10, StartingStep
  <2>2. Shown /\ Settled /\ s \in DOMAIN sheets /\ (saved.stage = stage \/ ~ StageKept)
    BY <1>10 DEF Starting, Settled
  <2>3. CASE MayEnter(PumpRunning)
    <3>1. stage = OldTankClosed
      BY <1>6, <2>3 DEF MayEnter, PumpRunning, OldTankClosed
    <3>2. (StageLives => running = {}) /\ (StageKept => saved.stage = OldTankClosed)
      BY <1>3, <2>2, <3>1 DEF StageInv, PumpRunning, OldTankClosed
    <3>3. Starting(r, p, s, 2)
      BY <1>5, <2>1, <2>2, <2>3, <3>1, <3>2 DEF Starting
    <3> QED
      BY <1>3, <3>3 DEF Form
  <2>4. CASE ~ MayEnter(PumpRunning)
    BY <1>5, <1>7, <2>1, <2>2, <2>4
  <2> QED
    BY <2>3, <2>4
<1>11. ASSUME NEW p \in Pumps, NEW s \in Nat, Starting(q, p, s, 4) PROVE Form(r)
  <2>1. Head(q).target = PumpRunning /\ Tail(q) = From(StartProgram(p, s), 5)
    BY <1>11, StartingStep
  <2>2. CASE MayEnter(PumpRunning)
    <3>1. Starting(r, p, s, 5)
      BY <1>5, <1>11, <2>1, <2>2 DEF Starting
    <3> QED
      BY <1>3, <3>1 DEF Form
  <2>3. CASE ~ MayEnter(PumpRunning)
    BY <1>5, <1>7, <1>11, <2>1, <2>3 DEF Starting, Settled
  <2> QED
    BY <2>2, <2>3
<1>12. CASE Advancing(q)
  <2>1. Head(q).target = ValvesSaved /\ Tail(q) = <<Enter(ValvesSaved), Do("commit")>>
    BY <1>2, <1>12, AdvancingStep
  <2>2. MayEnter(ValvesSaved)
    BY <1>12 DEF Advancing, MayEnter, Gates, Idle, ValvesSaved, NewTankOpen, OldTankClosed,
                 PumpRunning
  <2>3. Advancing(r)
    BY <1>5, <1>12, <2>1, <2>2 DEF Advancing
  <2> QED
    BY <1>3, <2>3 DEF Form
<1> QED
  BY <1>2, <1>3, <1>8, <1>9, <1>10, <1>11, <1>12, NextForm

LEMMA AdvanceIfIdleKeeps ==
  ASSUME OneRequest, NEW t \in Threads, AdvanceIfIdle(t)
  PROVE  RequestInv'
<1>1. PICK q : q = todo[t]
  OBVIOUS
<1>2. q # <<>> /\ Head(q).op = "ifIdle" /\ Quiet
  BY <1>1, QuietIs DEF AdvanceIfIdle, At, bounds
<1>3. Form(q) /\ Vouched
  BY <1>1, <1>2, Here
<1>4. Persisting(q, 6)
  BY <1>2, <1>3, NextForm
<1>5. Tail(q) = <<Do("commit")>>
  <2>1. Tail(q) = From(PersistProgram, 7)
    BY <1>4, PersistingStep
  <2> QED
    BY <2>1, CalmEnds
<1>6. PICK r : r = todo'[t]
  OBVIOUS
<1>7. r = (IF stage = Idle THEN <<Check(ValvesSaved), Enter(ValvesSaved)>> ELSE <<>>)
            \o <<Do("commit")>>
  BY <1>1, <1>5, <1>6, Left DEF AdvanceIfIdle
<1> SUFFICES Form(r)
  BY <1>1, <1>2, <1>6, QuietKeeps
<1>8. CASE stage = Idle
  <2>1. r = <<Check(ValvesSaved), Enter(ValvesSaved), Do("commit")>>
    <3>1. /\ Check(ValvesSaved) \in Steps /\ Enter(ValvesSaved) \in Steps
          /\ Do("commit") \in Steps
      BY StepMembers DEF ValvesSaved, PumpRunning
    <3> QED
      BY <1>7, <1>8, <3>1, TwoBefore, Zenon
  <2>2. Advancing(r)
    BY <1>8, <2>1, Zenon DEF Advancing
  <2> QED
    BY <1>3, <2>2, Zenon DEF Form
<1>9. CASE stage # Idle
  <2>1. r = <<Do("commit")>>
    BY <1>7, <1>9
  <2>2. Calm(r)
    BY <2>1, CalmShort, Zenon
  <2> QED
    BY <1>3, <2>2, Zenon DEF Form
<1> QED
  BY <1>8, <1>9

LEMMA EnsureKeeps ==
  ASSUME OneRequest, NEW t \in Threads, EnsureValve(t)
  PROVE  RequestInv'
<1>1. PICK q : q = todo[t]
  OBVIOUS
<1>2. q # <<>> /\ Head(q).op = "ensure" /\ Quiet
  BY <1>1, QuietIs DEF EnsureValve, At, bounds
<1>3. Form(q) /\ Vouched /\ Step(t) = Head(q)
  BY <1>1, <1>2, Here
<1>4. Retrying(q)
  BY <1>2, <1>3, NextForm
<1>5. PICK r : r = todo'[t]
  OBVIOUS
<1> SUFFICES Retrying(r) \/ Calm(r)
  BY <1>1, <1>2, <1>3, <1>5, QuietKeeps, Zenon DEF Form
<1>6. New \in Valves /\ Old \in Valves
  BY DEF Valves
<1>7. \A steps : Instead(t, steps) => r = steps \o Tail(q)
  BY <1>1, <1>5, Left
<1> DEFINE x == Ensure(New, TRUE)
           y == Ensure(Old, FALSE)
<1>8. /\ x.valve = New /\ x.to = TRUE /\ y.valve = Old /\ y.to = FALSE
      /\ Move(x.valve, x.to) = OpenNew /\ Move(y.valve, y.to) = CloseOld
  <2>1. x.valve = New /\ x.to = TRUE /\ y.valve = Old /\ y.to = FALSE
    BY DEF Ensure
  <2> QED
    BY <2>1, Zenon DEF OpenNew, CloseOld
<1>9. x \in Steps /\ y \in Steps /\ OpenNew \in Steps /\ CloseOld \in Steps /\ Note \in Steps
      /\ Do("commit") \in Steps
  BY <1>6, StepMembers, FixedSteps
<1>10. /\ Instead(t, IF (Head(q).valve \in open) = Head(q).to THEN <<>>
                     ELSE <<Move(Head(q).valve, Head(q).to), Note>>)
  BY <1>3 DEF EnsureValve
<1> HIDE DEF x, y
<1>11. CASE Head(q) = x /\ Tail(q) = <<y, Do("commit")>>
  <2>1. CASE New \in open
    <3>1. Instead(t, <<>>)
      BY <1>8, <1>10, <1>11, <2>1
    <3>2. r = <<>> \o <<y, Do("commit")>>
      BY <1>7, <1>11, <3>1
    <3>3. r = <<y, Do("commit")>>
      BY <1>9, <3>2
    <3> QED
      BY <2>1, <3>3, Zenon DEF Retrying, y
  <2>2. CASE New \notin open
    <3>1. Instead(t, <<OpenNew, Note>>)
      BY <1>8, <1>10, <1>11, <2>2
    <3>2. r = <<OpenNew, Note>> \o <<y, Do("commit")>>
      BY <1>7, <1>11, <3>1
    <3>3. <<OpenNew, Note>> \o <<y, Do("commit")>> = <<OpenNew, Note, y, Do("commit")>>
      BY <1>9, TwoBeforeTwo, Zenon
    <3>4. r = <<OpenNew, Note, y, Do("commit")>>
      BY <3>2, <3>3, Zenon
    <3> QED
      BY <3>4, Zenon DEF Retrying, y
  <2> QED
    BY <2>1, <2>2
<1>12. CASE Head(q) = y /\ Tail(q) = <<Do("commit")>> /\ New \in open
  <2>1. CASE Old \notin open
    <3>1. Instead(t, <<>>)
      <4>0. (Old \in open) = FALSE
        BY <2>1
      <4>1. (Head(q).valve \in open) = Head(q).to
        BY <1>8, <1>12, <4>0, Zenon
      <4> QED
        BY <1>10, <4>1
    <3>2. r = <<>> \o <<Do("commit")>>
      BY <1>7, <1>12, <3>1
    <3>3. r = <<Do("commit")>>
      BY <1>9, <3>2
    <3> QED
      BY <3>3, CalmShort, Zenon
  <2>2. CASE Old \in open
    <3>1. Instead(t, <<CloseOld, Note>>)
      BY <1>8, <1>10, <1>12, <2>2
    <3>2. r = <<CloseOld, Note>> \o <<Do("commit")>>
      BY <1>7, <1>12, <3>1
    <3>3. r = <<CloseOld, Note, Do("commit")>>
      BY <1>9, <3>2, TwoBefore, Zenon
    <3> QED
      BY <1>12, <3>3, Zenon DEF Retrying
  <2> QED
    BY <2>1, <2>2
<1>13. \/ Head(q) = x /\ Tail(q) = <<y, Do("commit")>>
       \/ Head(q) = y /\ Tail(q) = <<Do("commit")>> /\ New \in open
  <2>1. OpenNew.op # "ensure" /\ CloseOld.op # "ensure" /\ Note.op # "ensure"
    BY FixedOps
  <2> QED
    BY <1>2, <1>4, <2>1, RetryingStep, Zenon DEF x, y
<1> QED
  BY <1>11, <1>12, <1>13

LEMMA VerifyKeeps ==
  ASSUME OneRequest, NEW t \in Threads, VerifySheet(t)
  PROVE  RequestInv'
<1>1. PICK q : q = todo[t]
  OBVIOUS
<1>2. q # <<>> /\ Head(q).op = "verify" /\ Quiet
  BY <1>1, QuietIs DEF VerifySheet, At, bounds
<1>3. Form(q) /\ Vouched /\ Step(t) = Head(q)
  BY <1>1, <1>2, Here
<1>4. PICK p \in Pumps, s \in Nat : Starting(q, p, s, 2)
  BY <1>2, <1>3, NextForm
<1>5. Head(q).sheet = s /\ Tail(q) = From(StartProgram(p, s), 3)
  BY <1>4, StartingStep
<1>6. PICK r : r = todo'[t]
  OBVIOUS
<1> SUFFICES Form(r)
  BY <1>1, <1>2, <1>6, QuietKeeps
<1>7. CASE GateOpen /\ Accepted(s) /\ Proceed(t)
  <2>1. r = From(StartProgram(p, s), 3)
    BY <1>1, <1>5, <1>6, <1>7, Left
  <2>2. ~ latched /\ s \in vouching /\ sheets[s].uses = 0
    BY <1>3, <1>4, <1>7 DEF GateOpen, Accepted, Vouched, Starting
  <2>3. Starting(r, p, s, 3)
    BY <1>4, <2>1, <2>2 DEF Starting
  <2> QED
    BY <1>3, <2>3 DEF Form
<1>8. CASE Raise(t)
  <2>1. r = <<>>
    BY <1>1, <1>6, <1>8, Left
  <2>2. Settled
    BY <1>4 DEF Starting, Settled
  <2> QED
    BY <1>3, <2>1, <2>2 DEF Form, Uncommitted
<1> QED
  BY <1>3, <1>5, <1>7, <1>8 DEF VerifySheet

\* Stopping a pump: one step more, or two, before the end of a request.
LEMMA StopForms ==
  ASSUME NEW q, Calm(q), NEW p \in Pumps
  PROVE  Stopping(StopSteps(p) \o q) \/ Switching(StopSteps(p) \o q)
<1> DEFINE off == Off(p)
<1>1. q \in Seq(Steps) /\ off \in Steps /\ off \in {Off(b) : b \in Pumps}
  BY CalmStep, StepMembers
<1>2. CASE Esd \in open
  <2>1. StopSteps(p) = <<ShutEsd, off>>
    BY <1>2, Zenon DEF StopSteps, ShutEsd
  <2> DEFINE r == <<ShutEsd, off>> \o q
  <2> HIDE DEF off
  <2>2. r # <<>> /\ Head(r) = ShutEsd /\ Tail(r) = <<off>> \o q
    BY <1>1, FixedSteps, Onto
  <2>3. <<off>> \o q # <<>> /\ Head(<<off>> \o q) = off /\ Tail(<<off>> \o q) = q
    BY <1>1, Onto
  <2>4. Stopping(r)
    BY <1>1, <2>2, <2>3 DEF Stopping
  <2> QED
    BY <2>1, <2>4, Zenon
<1>3. CASE Esd \notin open
  <2>1. StopSteps(p) = <<off>>
    BY <1>3, Zenon DEF StopSteps
  <2> HIDE DEF off
  <2>2. <<off>> \o q # <<>> /\ Head(<<off>> \o q) = off /\ Tail(<<off>> \o q) = q
    BY <1>1, Onto
  <2>3. Switching(<<off>> \o q)
    BY <1>1, <1>3, <2>2 DEF Switching
  <2> QED
    BY <2>1, <2>3, Zenon
<1> QED
  BY <1>2, <1>3

LEMMA StopKeeps ==
  ASSUME OneRequest, NEW t \in Threads, StopOne(t)
  PROVE  RequestInv'
<1>1. PICK q : q = todo[t]
  OBVIOUS
<1>2. q # <<>> /\ Head(q).op = "stop" /\ Quiet
  BY <1>1, QuietIs DEF StopOne, At, bounds
<1>3. Form(q) /\ Vouched /\ Step(t) = Head(q)
  BY <1>1, <1>2, Here
<1>4. Halting(q)
  BY <1>2, <1>3, NextForm
<1>5. Head(q).pump \in Pumps /\ Settled /\ Tail(q) = <<Do("commit")>>
  BY <1>4, HaltingStep
<1>6. PICK r : r = todo'[t]
  OBVIOUS
<1> SUFFICES Form(r)
  BY <1>1, <1>2, <1>6, QuietKeeps
<1>7. r = StopSteps(Head(q).pump) \o <<Do("commit")>> \/ r = <<>>
  BY <1>1, <1>3, <1>5, <1>6, Left DEF StopOne
<1>8. CASE r = <<>>
  BY <1>3, <1>5, <1>8 DEF Form, Uncommitted
<1>9. CASE r = StopSteps(Head(q).pump) \o <<Do("commit")>>
  <2>1. Stopping(r) \/ Switching(r)
    BY <1>5, <1>9, CalmShort, StopForms
  <2> QED
    BY <1>3, <2>1, Zenon DEF Form
<1> QED
  BY <1>7, <1>8, <1>9

LEMMA StopNextKeeps ==
  ASSUME OneRequest, NEW t \in Threads, StopNext(t)
  PROVE  RequestInv'
<1>1. PICK q : q = todo[t]
  OBVIOUS
<1>2. q # <<>> /\ Head(q).op = "stopEach" /\ Quiet
  BY <1>1, QuietIs DEF StopNext, At, bounds
<1>3. Form(q) /\ Vouched /\ Step(t) = Head(q) /\ Head(q) \in Steps
  BY <1>1, <1>2, Here
<1>4. Calm(Tail(q)) /\ Tail(q) \in Seq(Steps)
  <2>1. Calm(q)
    BY <1>2, <1>3, NextForm
  <2> QED
    BY <1>2, <2>1, CalmStep
<1>5. PICK r : r = todo'[t]
  OBVIOUS
<1> SUFFICES Form(r)
  BY <1>1, <1>2, <1>5, QuietKeeps
<1>6. CASE Proceed(t)
  <2>1. r = Tail(q)
    BY <1>1, <1>5, <1>6, Left
  <2> QED
    BY <1>3, <1>4, <2>1, Zenon DEF Form
<1>7. ASSUME NEW p \in Head(q).left,
             Instead(t, (IF p \in running THEN StopSteps(p) ELSE <<>>)
                          \o <<StopEach(Head(q).left \ {p})>>)
      PROVE  Form(r)
  <2> DEFINE more == StopEach(Head(q).left \ {p})
             stops == IF p \in running THEN StopSteps(p) ELSE <<>>
  <2>1. Head(q).left \subseteq Pumps
    BY <1>2, <1>3, StepTypes
  <2>2. more \in CalmSteps /\ more.op # "commit" /\ more \in Steps
    BY <2>1, CalmMembers, CalmTypes, Fields
  <2>3. stops \in Seq(Steps)
    <3>1. Off(p) \in Steps /\ ShutEsd \in Steps /\ \A x, y \in Steps : <<x, y>> \in Seq(Steps)
      BY <2>1, StepMembers, FixedSteps
    <3>2. StopSteps(p) \in {<<ShutEsd, Off(p)>>, <<Off(p)>>}
      BY Zenon DEF StopSteps, ShutEsd
    <3>3. <<Off(p)>> \in Seq(Steps) /\ <<>> \in Seq(Steps)
      BY <3>1
    <3> QED
      BY <3>1, <3>2, <3>3
  <2>4. r = (stops \o <<more>>) \o Tail(q)
    BY <1>1, <1>5, <1>7, Left, Zenon
  <2> HIDE DEF more, stops
  <2>5. r = stops \o (<<more>> \o Tail(q))
    <3>1. <<more>> \in Seq(Steps)
      BY <2>2
    <3> QED
      BY <1>4, <2>3, <2>4, <3>1, ConcatAssociative
  <2>6. Calm(<<more>> \o Tail(q)) /\ <<more>> \o Tail(q) \in Seq(Steps)
    BY <1>4, <2>2, CalmOnto, CalmStep
  <2>7. CASE p \in running
    <3>1. r = StopSteps(p) \o (<<more>> \o Tail(q))
      BY <2>5, <2>7 DEF stops
    <3>2. Stopping(r) \/ Switching(r)
      BY <2>1, <2>6, <3>1, StopForms
    <3> QED
      BY <1>3, <3>2, Zenon DEF Form
  <2>8. CASE p \notin running
    <3>1. r = <<more>> \o Tail(q)
      BY <2>5, <2>6, <2>8 DEF stops
    <3> QED
      BY <1>3, <2>6, <3>1, Zenon DEF Form
  <2> QED
    BY <2>7, <2>8
<1> QED
  BY <1>3, <1>6, <1>7 DEF StopNext

LEMMA EvaluateKeeps ==
  ASSUME OneRequest, NEW t \in Threads, Evaluate(t)
  PROVE  RequestInv'
<1>1. PICK q : q = todo[t]
  OBVIOUS
<1>2. q # <<>> /\ Head(q).op = "evaluate" /\ Quiet
  BY <1>1, QuietIs DEF Evaluate, At, bounds
<1>3. Form(q) /\ Vouched /\ Tail(q) \in Seq(Steps)
  BY <1>1, <1>2, Here
<1>4. PICK r : r = todo'[t]
  OBVIOUS
<1> SUFFICES Form(r)
  BY <1>1, <1>2, <1>4, QuietKeeps
<1>5. \/ level = "limit" /\ r = <<SetLatch>> \o Tail(q)
      \/ MayClear /\ r = <<ClearLatch>> \o Tail(q)
      \/ r = <<>> \o Tail(q)
  <2>1. \/ level = "limit" /\ Instead(t, <<SetLatch>>)
        \/ MayClear /\ Instead(t, <<ClearLatch>>)
        \/ Instead(t, <<>>)
    <3>1. CASE level = "limit" /\ ~ latched
      BY <3>1, Zenon DEF Evaluate, SetLatch
    <3>2. CASE ~ (level = "limit" /\ ~ latched) /\ latched /\ MayClear
      BY <3>2, Zenon DEF Evaluate, ClearLatch
    <3>3. CASE ~ (level = "limit" /\ ~ latched) /\ ~ (latched /\ MayClear)
      BY <3>3, Zenon DEF Evaluate
    <3> QED
      BY <3>1, <3>2, <3>3
  <2> QED
    BY <1>1, <1>4, <2>1, Left
<1>6. SetLatch \in Steps /\ ClearLatch \in Steps
  BY FixedSteps
<1>7. CASE Uncommitted(q)
  <2>1. Tail(q) = <<>> /\ Settled
    BY <1>2, <1>7, UncommittedStep DEF Uncommitted
  <2>2. <<SetLatch>> \o <<>> = <<SetLatch>> /\ <<ClearLatch>> \o <<>> = <<ClearLatch>>
        /\ <<>> \o <<>> = <<>>
    BY <1>6
  <2>3. Uncommitted(r)
    BY <1>5, <2>1, <2>2 DEF Uncommitted
  <2> QED
    BY <1>3, <2>3, Zenon DEF Form
<1>8. CASE Calm(q)
  <2>1. Calm(Tail(q))
    BY <1>2, <1>8, CalmStep
  <2>2. CASE r = <<SetLatch>> \o Tail(q)
    <3>1. Calm(r)
      BY <2>1, <2>2, CalmOnto, CalmMembers, FixedSteps
    <3> QED
      BY <1>3, <3>1, Zenon DEF Form
  <2>3. CASE MayClear /\ r = <<ClearLatch>> \o Tail(q)
    <3>1. r # <<>> /\ Head(r) = ClearLatch /\ Tail(r) = Tail(q)
      BY <1>3, <1>6, <2>3, Onto, Zenon
    <3>2. Esd \notin open
      BY <2>3 DEF MayClear
    <3>3. Switching(r)
      BY <2>1, <3>1, <3>2, Zenon DEF Switching
    <3> QED
      BY <1>3, <3>3, Zenon DEF Form
  <2>4. CASE r = <<>> \o Tail(q)
    <3>1. r = Tail(q)
      BY <1>3, <2>4
    <3> QED
      BY <1>3, <2>1, <3>1, Zenon DEF Form
  <2> QED
    BY <1>5, <2>2, <2>3, <2>4
<1> QED
  BY <1>2, <1>3, <1>7, <1>8, NextForm

-----------------------------------------------------------------------------
(* The steps that change the plant, the papers or the records.             *)

\* The fields of a projection with one record more.
LEMMA StageApplied ==
  ASSUME NEW P \in Projections, NEW n, NEW Q, Q = Apply(P, Entry("stage", n))
  PROVE  /\ Q.stage = n /\ Q.open = P.open /\ Q.running = P.running
         /\ Q.latched = P.latched /\ Q.level = P.level /\ Q.generation = P.generation
<1>1. Q = [P EXCEPT !.stage = n]
  BY Applied
<1> QED
  BY <1>1 DEF Projections

LEMMA ValveApplied ==
  ASSUME NEW P \in Projections, NEW v, NEW to, NEW Q, Q = Apply(P, EntryOf("valve", v, to))
  PROVE  /\ Q.stage = P.stage /\ Q.open = Put(P.open, v, to) /\ Q.running = P.running
         /\ Q.latched = P.latched /\ Q.level = P.level /\ Q.generation = P.generation
<1>1. Q = [P EXCEPT !.open = Put(P.open, v, to)]
  BY Applied
<1> QED
  BY <1>1 DEF Projections

LEMMA PumpApplied ==
  ASSUME NEW P \in Projections, NEW p, NEW to, NEW Q, Q = Apply(P, EntryOf("pump", p, to))
  PROVE  /\ Q.stage = P.stage /\ Q.open = P.open /\ Q.running = Put(P.running, p, to)
         /\ Q.latched = P.latched /\ Q.level = P.level /\ Q.generation = P.generation
<1>1. Q = [P EXCEPT !.running = Put(@, p, to)]
  BY Applied
<1> QED
  BY <1>1 DEF Projections

LEMMA LatchApplied ==
  ASSUME NEW P \in Projections, NEW b, NEW Q, Q = Apply(P, Entry("latch", b))
  PROVE  /\ Q.stage = P.stage /\ Q.open = P.open /\ Q.running = P.running
         /\ Q.latched = b /\ Q.level = P.level /\ Q.generation = P.generation
<1>1. Q = [P EXCEPT !.latched = b]
  BY Applied
<1> QED
  BY <1>1 DEF Projections

LEMMA LevelApplied ==
  ASSUME NEW P \in Projections, NEW to, NEW Q, Q = Apply(P, Entry("level", to))
  PROVE  /\ Q.stage = P.stage /\ Q.open = P.open /\ Q.running = P.running
         /\ Q.latched = P.latched /\ Q.level = to /\ Q.generation = P.generation
<1>1. Q = [P EXCEPT !.level = to]
  BY Applied
<1> QED
  BY <1>1 DEF Projections

LEMMA PersistedApplied ==
  ASSUME NEW P \in Projections, NEW n, NEW Q, Q = Apply(P, Entry("persisted", n))
  PROVE  /\ Q.stage = P.stage /\ Q.open = P.open /\ Q.running = P.running
         /\ Q.latched = P.latched /\ Q.level = P.level /\ Q.generation = n
<1>1. Q = [P EXCEPT !.generation = n]
  BY Applied
<1> QED
  BY <1>1 DEF Projections

\* What the journal will say of the plant, and the stream, once r is written.
LEMMA ReportAgrees ==
  ASSUME UNCHANGED <<journal, stream, past, saved, undone>>, Agrees(journal),
         NEW r, NEW J, J = Apply(journal, r),
         J.open = open', J.running = running', J.latched = latched', J.stage = stage',
         J.level = level' \/ (J.level = journal.level /\ level' = level),
         \/ J.generation = generation'
         \/ J.generation = journal.generation /\ generation' = generation
  PROVE  Agrees(Apply(journal, r))'
<1>1. Apply(journal', r) = J
  OBVIOUS
<1>2. J.level = level' \/ "level" \in undone'
  BY Zenon DEF Agrees
<1>3. J.generation = generation' \/ ~ GenerationKept'
  BY Zenon DEF Agrees, GenerationKept
<1> QED
  BY <1>1, <1>2, <1>3, Zenon DEF Agrees

LEMMA ReportStreams ==
  ASSUME UNCHANGED <<journal, stream, past, saved, undone, jumped>>,
         NEW r, NEW S, S = Apply(stream, r),
         Between(S)', StreamInv(S)'
  PROVE  Between(Apply(stream, r))' /\ StreamInv(Apply(stream, r))'
<1>1. Apply(stream', r) = S
  OBVIOUS
<1> QED
  BY <1>1 DEF Between, StreamInv, Reached

LEMMA EnterKeeps ==
  ASSUME OneRequest, NEW t \in Threads, EnterStage(t)
  PROVE  RequestInv'
<1>1. PICK q : q = todo[t]
  OBVIOUS
<1>2. q # <<>> /\ Head(q).op = "enter"
  BY <1>1 DEF EnterStage, At
<1>3. /\ StageInv /\ SheetsBehind /\ Form(q) /\ Vouched /\ Step(t) = Head(q)
      /\ Agrees(journal) /\ Between(stream) /\ StreamInv(stream)
      /\ Head(q) \in Steps /\ Tail(q) \in Seq(Steps)
  BY <1>1, <1>2, Here
<1>4. PICK n : n = Head(q).target
  OBVIOUS
<1>5. n \in 1 .. 4 /\ stage \in 0 .. 4 /\ saved.stage \in 0 .. 4 /\ stream.stage \in 0 .. 4
  BY <1>2, <1>3, <1>4, StepTypes
  DEF OneRequest, TypeInv, TypeOK, Projections, Idle, ValvesSaved, PumpRunning
<1>6. PICK r : r = Entry("stage", n)
  OBVIOUS
<1>7. r \in Records
  BY <1>5, <1>6, RecordMembers DEF Idle, PumpRunning
<1>a. journal \in Projections /\ stream \in Projections
  BY DEF OneRequest, TypeInv, TypeOK
<1>8. /\ stage' = n /\ todo'[t] = <<Write(r)>> \o Tail(q)
      /\ UNCHANGED <<facts, open, durable, running, latched, level, sheets, vouching, generation,
                     journal, stream, past, saved, jumped, undone>>
  BY <1>1, <1>3, <1>4, <1>6, Left DEF EnterStage, valves, plant, papers, logged, bounds
<1>9. SheetsBehind' /\ Vouched' /\ (Shown => Shown')
  BY <1>3, <1>8 DEF SheetsBehind, Vouched, Shown, GenerationKept, MayClear
<1>10. PICK rest : rest = Tail(q)
  OBVIOUS
<1>11. n = stage + 1 /\ Form(rest)'
  <2>1. CASE Changing(q, 2)
    <3>1. n = NewTankOpen /\ rest = From(ChangeProgram, 3) /\ stage = ValvesSaved
      BY <1>4, <1>10, <2>1, ChangingStep DEF Changing
    <3>2. Changing(rest, 3)'
      BY <1>8, <3>1 DEF Changing
    <3> QED
      BY <1>9, <3>1, <3>2 DEF Form, ValvesSaved, NewTankOpen
  <2>2. CASE Changing(q, 7)
    <3>1. /\ n = OldTankClosed /\ rest = From(ChangeProgram, 8) /\ stage = NewTankOpen
          /\ New \in open
      BY <1>4, <1>10, <2>2, ChangingStep DEF Changing
    <3>2. Changing(rest, 8)'
      BY <1>8, <3>1 DEF Changing
    <3> QED
      BY <1>9, <3>1, <3>2 DEF Form, OldTankClosed, NewTankOpen
  <2>3. ASSUME NEW p \in Pumps, NEW s \in Nat, Starting(q, p, s, 5)
        PROVE  n = stage + 1 /\ Form(rest)'
    <3>1. n = PumpRunning /\ rest = From(StartProgram(p, s), 6)
      BY <1>4, <1>10, <2>3, StartingStep
    <3>2. /\ stage = OldTankClosed /\ s \in DOMAIN sheets /\ Shown
          /\ StageLives => running = {}
          /\ StageKept => saved.stage = OldTankClosed
          /\ ~ latched /\ s \in vouching
      BY <2>3 DEF Starting
    <3>3. Starting(rest, p, s, 6)'
      BY <1>8, <1>9, <3>1, <3>2 DEF Starting, StageLives, StageKept
    <3> QED
      BY <1>9, <3>1, <3>2, <3>3 DEF Form, PumpRunning, OldTankClosed
  <2>4. CASE Advancing(q)
    <3>1. n = ValvesSaved /\ rest = <<Do("commit")>> /\ stage = Idle
      BY <1>2, <1>4, <1>10, <2>4, AdvancingStep DEF Advancing
    <3>2. Calm(rest)
      BY <3>1, CalmShort
    <3> QED
      BY <1>9, <3>1, <3>2 DEF Form, ValvesSaved, Idle
  <2> QED
    BY <1>2, <1>3, <2>1, <2>2, <2>3, <2>4, NextForm
<1>12. StageInv'
  <2>1. StageLives => running = {} /\ saved.stage <= n /\ saved.running = {}
    BY <1>3, <1>5, <1>11 DEF StageInv, PumpRunning
  <2> QED
    BY <1>3, <1>8, <2>1 DEF StageInv, StageLives, StageKept
<1>13. Agrees(Apply(journal, r))'
  <2>1. PICK J : J = Apply(journal, r)
    OBVIOUS
  <2>2. /\ J.stage = n /\ J.open = journal.open /\ J.running = journal.running
        /\ J.latched = journal.latched /\ J.level = journal.level
        /\ J.generation = journal.generation
    BY <1>6, <1>a, <2>1, StageApplied
  <2>3. /\ journal.open = open /\ journal.running = running /\ journal.latched = latched
    BY <1>3 DEF Agrees
  <2> QED
    BY <1>3, <1>8, <2>1, <2>2, <2>3, ReportAgrees, Zenon
<1>14. Between(Apply(stream, r))' /\ StreamInv(Apply(stream, r))'
  <2>1. PICK S : S = Apply(stream, r)
    OBVIOUS
  <2>2. S.stage = n /\ S.running = stream.running /\ S.generation = stream.generation
    BY <1>6, <1>a, <2>1, StageApplied
  <2>3. ASSUME StageKept
        PROVE  /\ saved.stage <= stream.stage /\ Reached(stream)
               /\ stream.running # {} \/ past.pumps # {} =>
                    n = PumpRunning /\ saved.stage >= OldTankClosed
    <3>1. saved.stage <= stage
      BY <1>3, <2>3 DEF StageInv, StageLives
    <3> QED
      BY <1>3, <1>5, <1>11, <2>3, <3>1 DEF StreamInv, Reached, OldTankClosed, PumpRunning
  <2>4. Between(S)'
    BY <1>3, <1>8, <2>2 DEF Between, GenerationKept
  <2>5. StreamInv(S)'
    BY <1>5, <1>8, <2>2, <2>3 DEF StreamInv, Reached, StageKept
  <2> QED
    BY <1>8, <2>1, <2>4, <2>5, ReportStreams, Zenon
<1> QED
  BY <1>3, <1>7, <1>8, <1>9, <1>10, <1>11, <1>12, <1>13, <1>14, FocusReport
  DEF OneRequest

LEMMA FactKeeps ==
  ASSUME OneRequest, NEW t \in Threads, SetFact(t)
  PROVE  RequestInv'
<1>1. PICK q : q = todo[t]
  OBVIOUS
<1>2. q # <<>> /\ Head(q).op = "fact"
  BY <1>1 DEF SetFact, At
<1>3. /\ StageInv /\ SheetsBehind /\ Form(q) /\ Vouched /\ Step(t) = Head(q)
      /\ Agrees(journal) /\ Between(stream) /\ StreamInv(stream)
  BY <1>1, <1>2, Here
<1>4. PICK r : r = Tail(q)
  OBVIOUS
<1>5. /\ facts' = facts \cup {Head(q).name} /\ todo'[t] = r
      /\ UNCHANGED <<stage, open, durable, running, latched, level, sheets, vouching, generation,
                     journal, stream, past, saved, jumped, undone>>
  BY <1>1, <1>3, <1>4, Left DEF SetFact, valves, plant, papers, logged, bounds
<1>6. /\ StageInv' /\ SheetsBehind' /\ Vouched'
      /\ Agrees(journal)' /\ Between(stream)' /\ StreamInv(stream)'
  BY <1>3, <1>5 DEF StageInv, SheetsBehind, Vouched, Agrees, Between, StreamInv, Reached,
                    StageLives, StageKept, GenerationKept
<1>7. Form(r)'
  <2>1. CASE Changing(q, 5)
    <3>1. Head(q).name = "newOpen" /\ r = From(ChangeProgram, 6)
      BY <1>4, <2>1, ChangingStep
    <3>2. stage = NewTankOpen /\ New \in open
      BY <2>1 DEF Changing
    <3>3. Changing(r, 6)'
      BY <1>5, <3>1, <3>2 DEF Changing
    <3> QED
      BY <1>6, <3>3 DEF Form
  <2>2. CASE Persisting(q, 5)
    <3>1. r = From(PersistProgram, 6)
      BY <1>4, <2>2, PersistingStep
    <3>2. Persisting(r, 6)'
      BY <1>6, <3>1 DEF Persisting
    <3> QED
      BY <3>2 DEF Form
  <2>3. CASE Calm(q)
    <3>1. Calm(r)
      BY <1>2, <1>4, <2>3, CalmStep
    <3> QED
      BY <1>6, <3>1 DEF Form
  <2> QED
    BY <1>2, <1>3, <2>1, <2>2, <2>3, NextForm
<1> QED
  BY <1>5, <1>6, <1>7, FocusForm DEF OneRequest

LEMMA SwitchKeeps ==
  ASSUME OneRequest, NEW t \in Threads, SwitchValve(t)
  PROVE  RequestInv'
<1>1. PICK q : q = todo[t]
  OBVIOUS
<1>2. q # <<>> /\ Head(q).op = "move"
  BY <1>1 DEF SwitchValve, At
<1>3. /\ StageInv /\ SheetsBehind /\ Form(q) /\ Vouched /\ Step(t) = Head(q)
      /\ Agrees(journal) /\ Between(stream) /\ StreamInv(stream)
      /\ Head(q) \in Steps /\ Tail(q) \in Seq(Steps)
  BY <1>1, <1>2, Here
<1>4. PICK v, to : v = Head(q).valve /\ to = Head(q).to
  OBVIOUS
<1>5. v \in Valves /\ to \in BOOLEAN
  BY <1>2, <1>3, <1>4, StepTypes
<1>6. PICK r : r = EntryOf("valve", v, to)
  OBVIOUS
<1>7. r \in Records
  BY <1>5, <1>6, RecordMembers
<1>a. journal \in Projections /\ stream \in Projections
  BY DEF OneRequest, TypeInv, TypeOK
<1>8. /\ open' = Put(open, v, to) /\ durable' = durable \ {v}
      /\ todo'[t] = <<Write(r)>> \o Tail(q)
      /\ UNCHANGED <<stage, facts, running, latched, level, sheets, generation,
                     journal, stream, past, saved, jumped, undone>>
  BY <1>1, <1>3, <1>4, <1>6, Left DEF SwitchValve, Unmark, sequence, plant, logged, bounds
<1>9. StageInv' /\ SheetsBehind'
  BY <1>3, <1>8 DEF StageInv, SheetsBehind, StageLives, StageKept
<1>10. Vouched'
  <2>1. durable' # Valves
    BY <1>5, <1>8
  <2> QED
    BY <2>1 DEF Vouched
<1>11. PICK rest : rest = Tail(q)
  OBVIOUS
<1>12. Form(rest)'
  <2>1. CASE Changing(q, 3)
    <3>1. Head(q) = OpenNew /\ rest = From(ChangeProgram, 4) /\ stage = NewTankOpen
      BY <1>11, <2>1, ChangingStep DEF Changing
    <3>2. New \in open'
      BY <1>4, <1>8, <3>1, FixedSteps DEF Put
    <3>3. Changing(rest, 4)'
      BY <1>8, <3>1, <3>2 DEF Changing
    <3> QED
      BY <1>10, <3>3 DEF Form
  <2>2. CASE Changing(q, 8)
    <3>1. rest = From(ChangeProgram, 9)
      BY <1>11, <2>2, ChangingStep
    <3>2. Calm(rest)
      BY <3>1, CalmEnds, Zenon
    <3> QED
      BY <1>10, <3>2, Zenon DEF Form
  <2>3. CASE Calm(q)
    <3>1. Calm(rest)
      BY <1>2, <1>11, <2>3, CalmStep
    <3> QED
      BY <1>10, <3>1, Zenon DEF Form
  <2>4. CASE Stopping(q)
    <3>1. /\ Head(q) = ShutEsd /\ rest # <<>> /\ Head(rest) \in {Off(p) : p \in Pumps}
          /\ Calm(Tail(rest))
      BY <1>11, <2>4, StoppingStep
    <3>2. Esd \notin open'
      BY <1>4, <1>8, <3>1, FixedSteps DEF Put
    <3>3. Switching(rest)'
      BY <3>1, <3>2 DEF Switching
    <3> QED
      BY <1>10, <3>3 DEF Form
  <2>5. CASE Retrying(q)
    <3>1. Ensure(New, TRUE).op # "move" /\ Ensure(Old, FALSE).op # "move" /\ Note.op # "move"
      BY Fields
    <3>2. \/ Head(q) = OpenNew /\ rest = <<Note, Ensure(Old, FALSE), Do("commit")>>
          \/ rest = <<Note, Do("commit")>>
      BY <1>2, <1>11, <2>5, <3>1, RetryingStep, Zenon
    <3>3. CASE Head(q) = OpenNew /\ rest = <<Note, Ensure(Old, FALSE), Do("commit")>>
      <4>1. New \in open'
        BY <1>4, <1>8, <3>3, FixedSteps DEF Put
      <4>2. Retrying(rest)'
        BY <3>3, <4>1, Zenon DEF Retrying
      <4> QED
        BY <1>10, <4>2, Zenon DEF Form
    <3>4. CASE rest = <<Note, Do("commit")>>
      <4>1. Calm(rest)
        BY <3>4, CalmShort, CalmMembers, FixedOps
      <4> QED
        BY <1>10, <4>1, Zenon DEF Form
    <3> QED
      BY <3>2, <3>3, <3>4
  <2>6. CASE Moving(q)
    <3>1. Calm(rest)
      BY <1>11, <2>6, MovingStep, CalmShort
    <3> QED
      BY <1>10, <3>1, Zenon DEF Form
  <2> QED
    BY <1>2, <1>3, <2>1, <2>2, <2>3, <2>4, <2>5, <2>6, NextForm
<1>13. Agrees(Apply(journal, r))'
  <2>1. PICK J : J = Apply(journal, r)
    OBVIOUS
  <2>2. /\ J.stage = journal.stage /\ J.open = Put(journal.open, v, to)
        /\ J.running = journal.running /\ J.latched = journal.latched
        /\ J.level = journal.level /\ J.generation = journal.generation
    BY <1>6, <1>a, <2>1, ValveApplied
  <2>3. /\ journal.open = open /\ journal.running = running /\ journal.latched = latched
        /\ journal.stage = stage
    BY <1>3 DEF Agrees
  <2> QED
    BY <1>3, <1>8, <2>1, <2>2, <2>3, ReportAgrees, Zenon
<1>14. Between(Apply(stream, r))' /\ StreamInv(Apply(stream, r))'
  <2>1. PICK S : S = Apply(stream, r)
    OBVIOUS
  <2>2. /\ S.stage = stream.stage /\ S.running = stream.running
        /\ S.generation = stream.generation
    BY <1>6, <1>a, <2>1, ValveApplied
  <2>3. Between(S)' /\ StreamInv(S)'
    BY <1>3, <1>8, <2>2 DEF Between, StreamInv, Reached, GenerationKept, StageKept
  <2> QED
    BY <1>8, <2>1, <2>3, ReportStreams, Zenon
<1> QED
  BY <1>3, <1>7, <1>8, <1>9, <1>11, <1>12, <1>13, <1>14, FocusReport DEF OneRequest

LEMMA SaveKeeps ==
  ASSUME OneRequest, NEW t \in Threads, SaveValve(t)
  PROVE  RequestInv'
<1>1. PICK q : q = todo[t]
  OBVIOUS
<1>2. q # <<>> /\ Head(q).op = "save"
  BY <1>1 DEF SaveValve, At
<1>3. /\ StageInv /\ SheetsBehind /\ Form(q) /\ Step(t) = Head(q)
      /\ Agrees(journal) /\ Between(stream) /\ StreamInv(stream)
      /\ Head(q) \in Steps /\ Tail(q) \in Seq(Steps)
  BY <1>1, <1>2, Here
<1>4. PICK v, to : v = Head(q).valve /\ to = (v \in open)
  OBVIOUS
<1>5. v \in Valves
  BY <1>2, <1>3, <1>4, StepTypes
<1>6. PICK r : r = EntryOf("valve", v, to)
  OBVIOUS
<1>7. r \in Records /\ Put(open, v, to) = open
  BY <1>4, <1>5, <1>6, RecordMembers DEF Put
<1>a. journal \in Projections /\ stream \in Projections
  BY DEF OneRequest, TypeInv, TypeOK
<1>8. /\ todo'[t] = <<Write(r)>> \o Tail(q)
      /\ UNCHANGED <<stage, facts, open, running, latched, level, sheets, vouching, generation,
                     journal, stream, past, saved, jumped, undone>>
  BY <1>1, <1>3, <1>4, <1>6, Left DEF SaveValve, sequence, plant, papers, logged, bounds
<1>9. StageInv' /\ SheetsBehind'
  BY <1>3, <1>8 DEF StageInv, SheetsBehind, StageLives, StageKept
<1>10. PICK rest : rest = Tail(q)
  OBVIOUS
<1>11. Form(rest)'
  <2>1. PICK k \in 1 .. 3 : Persisting(q, k)
    BY <1>2, <1>3, NextForm
  <2>2. rest = From(PersistProgram, k + 1)
    <3>1. k \in 1 .. 6
      OBVIOUS
    <3> QED
      BY <1>10, <2>1, <3>1, PersistingStep, Zenon
  <2>3. k + 1 \in 2 .. 4 /\ k + 1 \in 1 .. 6
    OBVIOUS
  <2>4. Persisting(rest, k + 1)'
    BY <2>2, <2>3 DEF Persisting
  <2> QED
    BY <2>3, <2>4 DEF Form
<1>12. Agrees(Apply(journal, r))'
  <2>1. PICK J : J = Apply(journal, r)
    OBVIOUS
  <2>2. /\ J.stage = journal.stage /\ J.open = Put(journal.open, v, to)
        /\ J.running = journal.running /\ J.latched = journal.latched
        /\ J.level = journal.level /\ J.generation = journal.generation
    BY <1>6, <1>a, <2>1, ValveApplied
  <2>3. /\ journal.open = open /\ journal.running = running /\ journal.latched = latched
        /\ journal.stage = stage
    BY <1>3 DEF Agrees
  <2> QED
    BY <1>3, <1>7, <1>8, <2>1, <2>2, <2>3, ReportAgrees, Zenon
<1>13. Between(Apply(stream, r))' /\ StreamInv(Apply(stream, r))'
  <2>1. PICK S : S = Apply(stream, r)
    OBVIOUS
  <2>2. /\ S.stage = stream.stage /\ S.running = stream.running
        /\ S.generation = stream.generation
    BY <1>6, <1>a, <2>1, ValveApplied
  <2>3. Between(S)' /\ StreamInv(S)'
    BY <1>3, <1>8, <2>2 DEF Between, StreamInv, Reached, GenerationKept, StageKept
  <2> QED
    BY <1>8, <2>1, <2>3, ReportStreams, Zenon
<1> QED
  BY <1>3, <1>7, <1>8, <1>9, <1>10, <1>11, <1>12, <1>13, FocusReport DEF OneRequest

LEMMA IssueKeeps ==
  ASSUME OneRequest, NEW t \in Threads, IssueSheet(t)
  PROVE  RequestInv'
<1>1. PICK q : q = todo[t]
  OBVIOUS
<1>2. q # <<>> /\ Head(q).op = "issue"
  BY <1>1 DEF IssueSheet, At
<1>3. /\ StageInv /\ SheetsBehind /\ Form(q)
      /\ Agrees(journal) /\ Between(stream) /\ StreamInv(stream)
      /\ Head(q) \in Steps /\ Tail(q) \in Seq(Steps)
  BY <1>1, <1>2, Here
<1>4. PICK g, new : g = generation + 1 /\ new = [generation |-> g, uses |-> 0]
  OBVIOUS
<1>5. sheets \in Seq(Sheets) /\ generation \in Nat /\ g \in Nat
  BY <1>4 DEF OneRequest, TypeInv, TypeOK
<1>6. PICK r : r = Entry("persisted", g)
  OBVIOUS
<1>7. r \in Records
  BY <1>5, <1>6, RecordMembers
<1>b. journal \in Projections /\ stream \in Projections
  BY DEF OneRequest, TypeInv, TypeOK
<1>8. /\ generation' = g /\ sheets' = Append(sheets, new)
      /\ vouching' = vouching \cup {Len(sheets')} /\ todo'[t] = <<Write(r)>> \o Tail(q)
      /\ UNCHANGED <<stage, facts, open, durable, running, latched, level,
                     journal, stream, past, saved, jumped, undone>>
  <2>1. generation' = g
    BY <1>4 DEF IssueSheet, NextGeneration
  <2>2. Report(t, r)
    BY <1>6, <2>1 DEF IssueSheet
  <2> QED
    BY <1>1, <1>4, <2>1, <2>2, Left DEF IssueSheet, sequence, valves, plant, logged, bounds
<1>9. StageInv'
  BY <1>3, <1>8 DEF StageInv, StageLives, StageKept
<1>a. new.generation = g /\ new.uses = 0
  BY <1>4
<1>10. ASSUME NEW s \in DOMAIN sheets'
       PROVE  /\ sheets'[s].generation <= generation' /\ sheets'[s].uses <= 1
              /\ sheets'[s].generation = generation' => s \in vouching'
  <2>1. CASE s \in DOMAIN sheets
    <3>1. sheets'[s] = sheets[s]
      BY <1>5, <1>8, <2>1
    <3>2. sheets[s] \in Sheets
      BY <1>5, <2>1
    <3>3. /\ sheets[s].generation <= generation /\ sheets[s].generation \in Nat
          /\ sheets[s].uses <= 1
      BY <1>3, <2>1, <3>2 DEF SheetsBehind, Sheets
    <3> QED
      BY <1>4, <1>5, <1>8, <3>1, <3>3
  <2>2. CASE s \notin DOMAIN sheets
    <3>1. s = Len(sheets') /\ sheets'[s] = new
      BY <1>5, <1>8, <2>2
    <3> QED
      BY <1>5, <1>8, <1>a, <3>1
  <2> QED
    BY <2>1, <2>2
<1>11. SheetsBehind' /\ Vouched'
  BY <1>10 DEF SheetsBehind, Vouched
<1>12. PICK rest : rest = Tail(q)
  OBVIOUS
<1>13. Form(rest)'
  <2>1. Persisting(q, 4)
    BY <1>2, <1>3, NextForm
  <2>2. rest = From(PersistProgram, 5)
    BY <1>12, <2>1, PersistingStep
  <2>3. Persisting(rest, 5)'
    BY <1>11, <2>2 DEF Persisting
  <2> QED
    BY <2>3 DEF Form
<1>14. Agrees(Apply(journal, r))'
  <2>1. PICK J : J = Apply(journal, r)
    OBVIOUS
  <2>2. /\ J.stage = journal.stage /\ J.open = journal.open
        /\ J.running = journal.running /\ J.latched = journal.latched
        /\ J.level = journal.level /\ J.generation = g
    BY <1>6, <1>b, <2>1, PersistedApplied
  <2>3. /\ journal.open = open /\ journal.running = running /\ journal.latched = latched
        /\ journal.stage = stage
    BY <1>3 DEF Agrees
  <2> QED
    BY <1>3, <1>8, <2>1, <2>2, <2>3, ReportAgrees, Zenon
<1>15. Between(Apply(stream, r))' /\ StreamInv(Apply(stream, r))'
  <2>1. PICK S : S = Apply(stream, r)
    OBVIOUS
  <2>2. S.stage = stream.stage /\ S.running = stream.running /\ S.generation = g
    BY <1>6, <1>b, <2>1, PersistedApplied
  <2>3. saved.generation \in Nat /\ stream.generation \in Nat
    BY <1>b DEF OneRequest, TypeInv, TypeOK, Projections
  <2>4. Between(S)'
    BY <1>3, <1>4, <1>5, <1>8, <2>2, <2>3 DEF Between, GenerationKept
  <2>5. StreamInv(S)'
    BY <1>3, <1>8, <2>2 DEF StreamInv, Reached, StageKept
  <2> QED
    BY <1>8, <2>1, <2>4, <2>5, ReportStreams, Zenon
<1> QED
  BY <1>3, <1>7, <1>8, <1>9, <1>11, <1>12, <1>13, <1>14, <1>15, FocusReport DEF OneRequest

LEMMA UseKeeps ==
  ASSUME OneRequest, NEW t \in Threads, UseSheet(t)
  PROVE  RequestInv'
<1>1. PICK q : q = todo[t]
  OBVIOUS
<1>2. q # <<>> /\ Head(q).op = "use"
  BY <1>1 DEF UseSheet, At
<1>3. /\ StageInv /\ SheetsBehind /\ Form(q) /\ Vouched /\ Step(t) = Head(q)
      /\ Agrees(journal) /\ Between(stream) /\ StreamInv(stream)
  BY <1>1, <1>2, Here
<1>4. PICK p \in Pumps, s \in Nat : Starting(q, p, s, 3)
  BY <1>2, <1>3, NextForm
<1>5. PICK r : r = Tail(q)
  OBVIOUS
<1>6. Head(q).sheet = s /\ r = From(StartProgram(p, s), 4)
  BY <1>4, <1>5, StartingStep
<1>7. /\ sheets' = [sheets EXCEPT ![s].uses = @ + 1] /\ todo'[t] = r
      /\ UNCHANGED <<stage, facts, open, durable, running, latched, level, vouching, generation,
                     journal, stream, past, saved, jumped, undone>>
  BY <1>1, <1>3, <1>5, <1>6, Left DEF UseSheet, sequence, valves, plant, logged, bounds
<1>8. sheets \in Seq(Sheets) /\ DOMAIN sheets' = DOMAIN sheets
  BY <1>7 DEF OneRequest, TypeInv, TypeOK
<1>9. ASSUME NEW n \in DOMAIN sheets
      PROVE  sheets'[n].generation = sheets[n].generation /\ sheets'[n].uses <= 1
  <2>1. sheets[n] \in Sheets
    BY <1>8
  <2>2. \A x \in Sheets : /\ [x EXCEPT !.uses = @ + 1].uses = x.uses + 1
                          /\ [x EXCEPT !.uses = @ + 1].generation = x.generation
    BY DEF Sheets
  <2>3. sheets'[n] = IF n = s THEN [sheets[n] EXCEPT !.uses = @ + 1] ELSE sheets[n]
    BY <1>7, <1>8
  <2>4. sheets[n].uses <= 1 /\ (n = s => sheets[n].uses = 0)
    BY <1>3, <1>4 DEF SheetsBehind, Starting
  <2>5. CASE n = s
    BY <2>1, <2>2, <2>3, <2>4, <2>5
  <2>6. CASE n # s
    BY <2>3, <2>4, <2>6
  <2> QED
    BY <2>5, <2>6
<1>10. SheetsBehind' /\ Vouched'
  BY <1>3, <1>7, <1>8, <1>9 DEF SheetsBehind, Vouched
<1>11. /\ StageInv' /\ (Shown => Shown')
       /\ Agrees(journal)' /\ Between(stream)' /\ StreamInv(stream)'
  BY <1>3, <1>7 DEF StageInv, Shown, Agrees, Between, StreamInv, Reached, StageLives, StageKept,
                    GenerationKept, MayClear
<1>12. Starting(r, p, s, 4)'
  <2>1. /\ s \in DOMAIN sheets /\ Shown /\ (saved.stage = stage \/ ~ StageKept)
        /\ stage = OldTankClosed /\ (StageLives => running = {})
        /\ (StageKept => saved.stage = OldTankClosed) /\ ~ latched /\ s \in vouching
    BY <1>4 DEF Starting
  <2> QED
    BY <1>6, <1>7, <1>8, <1>11, <2>1 DEF Starting, StageLives, StageKept
<1>13. Form(r)'
  BY <1>10, <1>12 DEF Form
<1> QED
  BY <1>7, <1>10, <1>11, <1>13, FocusForm DEF OneRequest

LEMMA EnergiseKeeps ==
  ASSUME OneRequest, NEW t \in Threads, EnergisePump(t)
  PROVE  RequestInv'
<1>1. PICK q : q = todo[t]
  OBVIOUS
<1>2. q # <<>> /\ Head(q).op = "energise"
  BY <1>1 DEF EnergisePump, At
<1>3. /\ StageInv /\ SheetsBehind /\ Form(q) /\ Vouched /\ Step(t) = Head(q)
      /\ Agrees(journal) /\ Between(stream) /\ StreamInv(stream)
      /\ Tail(q) \in Seq(Steps)
  BY <1>1, <1>2, Here
<1>4. PICK p \in Pumps, s \in Nat : Starting(q, p, s, 6)
  BY <1>2, <1>3, NextForm
<1>5. Head(q).pump = p /\ Tail(q) = <<Do("commit")>>
  <2>1. Head(q).pump = p /\ Tail(q) = From(StartProgram(p, s), 7)
    BY <1>4, StartingStep
  <2> QED
    BY <2>1, CalmEnds
<1>6. /\ Shown /\ stage = PumpRunning /\ (StageLives => running = {})
      /\ (StageKept => saved.stage = OldTankClosed)
  BY <1>4 DEF Starting
<1>7. CASE p \in running
  <2>1. Raise(t) /\ running' = running
    BY <1>3, <1>5, <1>7 DEF EnergisePump
  <2>2. Quiet
    <3>1. plant' = plant /\ UNCHANGED <<sequence, valves, papers, logged, saved, bounds>>
      BY <2>1 DEF EnergisePump, plant
    <3> QED
      BY <3>1, QuietIs DEF bounds
  <2>3. PICK r : r = todo'[t]
    OBVIOUS
  <2>4. r = <<>>
    BY <1>1, <2>1, <2>3, Left
  <2>5. Settled
    BY <1>6, <1>7 DEF Settled, StageLives
  <2>6. Form(r)
    BY <1>3, <2>4, <2>5 DEF Form, Uncommitted
  <2> QED
    BY <1>1, <1>2, <2>2, <2>3, <2>6, QuietKeeps
<1>8. CASE p \notin running
  <2>1. PICK r : r = EntryOf("pump", p, TRUE)
    OBVIOUS
  <2>2. r \in Records
    BY <2>1, RecordMembers
  <2>3. /\ running' = running \cup {p} /\ todo'[t] = <<Write(r)>> \o Tail(q)
        /\ UNCHANGED <<stage, facts, open, durable, latched, level, sheets, vouching, generation,
                       journal, stream, past, saved, jumped, undone>>
    BY <1>1, <1>3, <1>5, <1>8, <2>1, Left
    DEF EnergisePump, sequence, valves, papers, logged, bounds
  <2>4. SheetsBehind' /\ Vouched'
    BY <1>3, <2>3 DEF SheetsBehind, Vouched
  <2>5. Form(Tail(q))'
    <3>1. PICK rest : rest = <<Do("commit")>>
      OBVIOUS
    <3>2. Calm(rest)
      BY <3>1, CalmShort, Zenon
    <3>3. Form(rest)'
      BY <2>4, <3>2 DEF Form
    <3>4. todo[t] = q /\ Tail(q) = rest
      BY <1>1, <1>5, <3>1
    <3> QED
      BY <3>3, <3>4
  <2>6. StageInv'
    <3>1. ~ jumped => Single(running \cup {p})
      BY <1>6 DEF StageLives, Single
    <3> QED
      BY <1>3, <1>6, <2>3, <3>1 DEF StageInv, StageLives, StageKept
  <2>a. journal \in Projections /\ stream \in Projections /\ saved.stage \in 0 .. 4
        /\ stream.stage \in 0 .. 4
    BY DEF OneRequest, TypeInv, TypeOK, Projections, Idle, PumpRunning
  <2>7. Agrees(Apply(journal, r))'
    <3>1. PICK J : J = Apply(journal, EntryOf("pump", p, TRUE))
      OBVIOUS
    <3>a. J = Apply(journal, r)
      BY <2>1, <3>1, Zenon
    <3>b. J = [journal EXCEPT !.running = @ \cup {p}]
      BY <3>1, AppliedPump, Zenon
    <3>2. /\ J.stage = journal.stage /\ J.open = journal.open
          /\ J.running = journal.running \cup {p} /\ J.latched = journal.latched
          /\ J.level = journal.level /\ J.generation = journal.generation
      BY <2>a, <3>b DEF Projections
    <3>3. /\ journal.open = open /\ journal.running = running /\ journal.latched = latched
          /\ journal.stage = stage
      BY <1>3 DEF Agrees
    <3> QED
      BY <1>3, <2>3, <3>a, <3>2, <3>3, ReportAgrees, Zenon
  <2>8. Between(Apply(stream, r))' /\ StreamInv(Apply(stream, r))'
    <3>1. PICK S : S = Apply(stream, EntryOf("pump", p, TRUE))
      OBVIOUS
    <3>a. S = Apply(stream, r)
      BY <2>1, <3>1, Zenon
    <3>b. S = [stream EXCEPT !.running = @ \cup {p}]
      BY <3>1, AppliedPump, Zenon
    <3>2. S.stage = stream.stage /\ S.generation = stream.generation
      BY <2>a, <3>b DEF Projections
    <3>3. Between(S)'
      BY <1>3, <2>3, <3>2 DEF Between, GenerationKept
    <3>4. StageKept => /\ saved.stage = 3 /\ stream.stage = 4 /\ Reached(stream)
      BY <1>3, <1>6, <2>a DEF StreamInv, PumpRunning, OldTankClosed
    <3>5. StreamInv(S)'
      BY <1>6, <2>3, <3>2, <3>4
      DEF StreamInv, Reached, StageKept, PumpRunning, OldTankClosed
    <3> QED
      BY <2>3, <3>a, <3>3, <3>5, ReportStreams, Zenon
  <2> QED
    BY <1>3, <2>2, <2>3, <2>4, <2>5, <2>6, <2>7, <2>8, FocusReport DEF OneRequest
<1> QED
  BY <1>7, <1>8

LEMMA OffKeeps ==
  ASSUME OneRequest, NEW t \in Threads, SwitchOff(t)
  PROVE  RequestInv'
<1>1. PICK q : q = todo[t]
  OBVIOUS
<1>2. q # <<>> /\ Head(q).op = "off"
  BY <1>1 DEF SwitchOff, At
<1>3. /\ StageInv /\ SheetsBehind /\ Form(q) /\ Vouched /\ Step(t) = Head(q)
      /\ Agrees(journal) /\ Between(stream) /\ StreamInv(stream)
      /\ Head(q) \in Steps /\ Tail(q) \in Seq(Steps)
  BY <1>1, <1>2, Here
<1>4. PICK p : p = Head(q).pump
  OBVIOUS
<1>5. p \in Pumps
  BY <1>2, <1>3, <1>4, StepTypes
<1>6. PICK r : r = EntryOf("pump", p, FALSE)
  OBVIOUS
<1>7. r \in Records
  BY <1>5, <1>6, RecordMembers
<1>8. /\ running' = running \ {p} /\ todo'[t] = <<Write(r)>> \o Tail(q)
      /\ UNCHANGED <<stage, facts, open, durable, latched, level, sheets, vouching, generation,
                     journal, stream, past, saved, jumped, undone>>
  BY <1>1, <1>3, <1>4, <1>6, Left DEF SwitchOff, sequence, valves, papers, logged, bounds
<1>9. PICK rest : rest = Tail(q)
  OBVIOUS
<1>10. SheetsBehind' /\ Vouched' /\ Form(rest)'
  <2>1. Calm(rest)
    BY <1>2, <1>3, <1>9, NextForm, SwitchingStep
  <2>2. SheetsBehind' /\ Vouched'
    BY <1>3, <1>8 DEF SheetsBehind, Vouched
  <2> QED
    BY <2>1, <2>2, Zenon DEF Form
<1>11. StageInv'
  <2>1. Single(running) => Single(running \ {p})
    BY DEF Single
  <2>2. running = {} => running \ {p} = {}
    OBVIOUS
  <2> QED
    BY <1>3, <1>8, <2>1, <2>2 DEF StageInv, StageLives, StageKept
<1>a. journal \in Projections /\ stream \in Projections
  BY DEF OneRequest, TypeInv, TypeOK
<1>12. Agrees(Apply(journal, r))'
  <2>1. PICK J : J = Apply(journal, EntryOf("pump", p, FALSE))
    OBVIOUS
  <2>a. J = Apply(journal, r)
    BY <1>6, <2>1, Zenon
  <2>b. J = [journal EXCEPT !.running = @ \ {p}]
    BY <2>1, AppliedPump, Zenon
  <2>2. /\ J.stage = journal.stage /\ J.open = journal.open
        /\ J.running = journal.running \ {p} /\ J.latched = journal.latched
        /\ J.level = journal.level /\ J.generation = journal.generation
    BY <1>a, <2>b DEF Projections
  <2>3. /\ journal.open = open /\ journal.running = running /\ journal.latched = latched
        /\ journal.stage = stage
    BY <1>3 DEF Agrees
  <2> QED
    BY <1>3, <1>8, <2>a, <2>2, <2>3, ReportAgrees, Zenon
<1>13. Between(Apply(stream, r))' /\ StreamInv(Apply(stream, r))'
  <2>1. PICK S : S = Apply(stream, EntryOf("pump", p, FALSE))
    OBVIOUS
  <2>a. S = Apply(stream, r)
    BY <1>6, <2>1, Zenon
  <2>b. S = [stream EXCEPT !.running = @ \ {p}]
    BY <2>1, AppliedPump, Zenon
  <2>2. /\ S.stage = stream.stage /\ S.running = stream.running \ {p}
        /\ S.generation = stream.generation
    BY <1>a, <2>b DEF Projections
  <2>3. stream.running = {} => S.running = {}
    BY <2>2
  <2>4. Between(S)' /\ StreamInv(S)'
    BY <1>3, <1>8, <2>2, <2>3 DEF Between, StreamInv, Reached, GenerationKept, StageKept
  <2> QED
    BY <1>8, <2>a, <2>4, ReportStreams, Zenon
<1> QED
  BY <1>3, <1>7, <1>8, <1>9, <1>10, <1>11, <1>12, <1>13, FocusReport DEF OneRequest

LEMMA LevelKeeps ==
  ASSUME OneRequest, NEW t \in Threads, MoveLevel(t)
  PROVE  RequestInv'
<1>1. PICK q : q = todo[t]
  OBVIOUS
<1>2. q # <<>> /\ Head(q).op = "level"
  BY <1>1 DEF MoveLevel, At
<1>3. /\ StageInv /\ SheetsBehind /\ Form(q) /\ Vouched /\ Step(t) = Head(q)
      /\ Agrees(journal) /\ Between(stream) /\ StreamInv(stream)
      /\ Head(q) \in Steps /\ Tail(q) \in Seq(Steps)
  BY <1>1, <1>2, Here
<1>4. PICK to : to = Head(q).to
  OBVIOUS
<1>5. to \in Levels
  BY <1>2, <1>3, <1>4, StepTypes
<1>6. PICK r : r = Entry("level", to)
  OBVIOUS
<1>7. r \in Records
  BY <1>5, <1>6, RecordMembers
<1>8. /\ level' = to /\ todo'[t] = <<Write(r)>> \o Tail(q)
      /\ UNCHANGED <<stage, facts, open, durable, running, latched, sheets, vouching, generation,
                     journal, stream, past, saved, jumped, undone>>
  BY <1>1, <1>3, <1>4, <1>6, Left DEF MoveLevel, sequence, valves, papers, logged, bounds
<1>9. PICK rest : rest = Tail(q)
  OBVIOUS
<1>10. StageInv' /\ SheetsBehind' /\ Vouched' /\ Form(rest)'
  <2>1. Calm(rest)
    BY <1>2, <1>3, <1>9, NextForm, SwitchingStep
  <2>2. StageInv' /\ SheetsBehind' /\ Vouched'
    BY <1>3, <1>8 DEF StageInv, StageLives, StageKept, SheetsBehind, Vouched
  <2> QED
    BY <2>1, <2>2, Zenon DEF Form
<1>a. journal \in Projections /\ stream \in Projections
  BY DEF OneRequest, TypeInv, TypeOK
<1>11. Agrees(Apply(journal, r))'
  <2>1. PICK J : J = Apply(journal, r)
    OBVIOUS
  <2>2. /\ J.stage = journal.stage /\ J.open = journal.open /\ J.running = journal.running
        /\ J.latched = journal.latched /\ J.level = to /\ J.generation = journal.generation
    BY <1>6, <1>a, <2>1, LevelApplied
  <2>3. /\ journal.open = open /\ journal.running = running /\ journal.latched = latched
        /\ journal.stage = stage
    BY <1>3 DEF Agrees
  <2> QED
    BY <1>3, <1>8, <2>1, <2>2, <2>3, ReportAgrees, Zenon
<1>12. Between(Apply(stream, r))' /\ StreamInv(Apply(stream, r))'
  <2>1. PICK S : S = Apply(stream, r)
    OBVIOUS
  <2>2. /\ S.stage = stream.stage /\ S.running = stream.running
        /\ S.generation = stream.generation
    BY <1>6, <1>a, <2>1, LevelApplied
  <2>3. Between(S)' /\ StreamInv(S)'
    BY <1>3, <1>8, <2>2 DEF Between, StreamInv, Reached, GenerationKept, StageKept
  <2> QED
    BY <1>8, <2>1, <2>3, ReportStreams, Zenon
<1> QED
  BY <1>3, <1>7, <1>8, <1>9, <1>10, <1>11, <1>12, FocusReport DEF OneRequest

LEMMA LatchKeeps ==
  ASSUME OneRequest, NEW t \in Threads, ApplyLatch(t)
  PROVE  RequestInv'
<1>1. PICK q : q = todo[t]
  OBVIOUS
<1>2. q # <<>> /\ Head(q).op = "latch"
  BY <1>1 DEF ApplyLatch, At
<1>3. /\ StageInv /\ SheetsBehind /\ Form(q) /\ Vouched /\ Step(t) = Head(q)
      /\ Agrees(journal) /\ Between(stream) /\ StreamInv(stream)
      /\ Head(q) \in Steps /\ Tail(q) \in Seq(Steps)
  BY <1>1, <1>2, Here
<1>4. PICK on : on = Head(q).active
  OBVIOUS
<1>5. on \in BOOLEAN
  BY <1>2, <1>3, <1>4, StepTypes
<1>6. PICK r : r = Entry("latch", on)
  OBVIOUS
<1>7. r \in Records
  BY <1>5, <1>6, RecordMembers
<1>8. /\ latched' = on /\ todo'[t] = <<Write(r)>> \o Tail(q)
      /\ UNCHANGED <<stage, facts, open, durable, running, level, sheets, vouching, generation,
                     journal, stream, past, saved, jumped, undone>>
  BY <1>1, <1>3, <1>4, <1>6, Left DEF ApplyLatch, sequence, valves, papers, logged, bounds
<1>9. PICK rest : rest = Tail(q)
  OBVIOUS
<1>10. StageInv' /\ SheetsBehind' /\ Vouched'
  BY <1>3, <1>8 DEF StageInv, StageLives, StageKept, SheetsBehind, Vouched
<1>11. Form(rest)'
  <2>1. CASE Uncommitted(q)
    <3>1. /\ rest = <<>> /\ Shown /\ (saved.stage = stage \/ ~ StageKept)
          /\ \/ Head(q) = SetLatch /\ level = "limit"
             \/ Head(q) = ClearLatch /\ MayClear
      <4>1. Note.op # "latch" /\ Do("evaluate").op # "latch"
        BY FixedOps
      <4> QED
        BY <1>2, <1>9, <2>1, <4>1, UncommittedStep DEF Uncommitted, Settled
    <3>2. Shown'
      <4>1. /\ latched' => level' = "limit"
            /\ ~ latched' => MayClear'
        <5>1. SetLatch.active = TRUE /\ ClearLatch.active = FALSE
          BY DEF SetLatch, ClearLatch, Latch
        <5>2. CASE Head(q) = SetLatch /\ level = "limit"
          BY <1>4, <1>8, <5>1, <5>2
        <5>3. CASE Head(q) = ClearLatch /\ MayClear
          BY <1>4, <1>8, <5>1, <5>3 DEF MayClear
        <5> QED
          BY <3>1, <5>2, <5>3
      <4> QED
        BY <1>8, <3>1, <4>1 DEF Shown, GenerationKept
    <3>3. Settled'
      BY <1>8, <3>1, <3>2 DEF Settled, StageKept
    <3> QED
      BY <1>10, <3>1, <3>3 DEF Form, Uncommitted
  <2>2. CASE Calm(q)
    <3>1. Calm(rest)
      BY <1>2, <1>9, <2>2, CalmStep
    <3> QED
      BY <1>10, <3>1, Zenon DEF Form
  <2>3. CASE Switching(q)
    <3>1. Calm(rest)
      BY <1>9, <2>3, SwitchingStep
    <3> QED
      BY <1>10, <3>1, Zenon DEF Form
  <2> QED
    BY <1>2, <1>3, <2>1, <2>2, <2>3, NextForm
<1>a. journal \in Projections /\ stream \in Projections
  BY DEF OneRequest, TypeInv, TypeOK
<1>12. Agrees(Apply(journal, r))'
  <2>1. PICK J : J = Apply(journal, r)
    OBVIOUS
  <2>2. /\ J.stage = journal.stage /\ J.open = journal.open /\ J.running = journal.running
        /\ J.latched = on /\ J.level = journal.level /\ J.generation = journal.generation
    BY <1>6, <1>a, <2>1, LatchApplied
  <2>3. /\ journal.open = open /\ journal.running = running /\ journal.stage = stage
    BY <1>3 DEF Agrees
  <2> QED
    BY <1>3, <1>8, <2>1, <2>2, <2>3, ReportAgrees, Zenon
<1>13. Between(Apply(stream, r))' /\ StreamInv(Apply(stream, r))'
  <2>1. PICK S : S = Apply(stream, r)
    OBVIOUS
  <2>2. /\ S.stage = stream.stage /\ S.running = stream.running
        /\ S.generation = stream.generation
    BY <1>6, <1>a, <2>1, LatchApplied
  <2>3. Between(S)' /\ StreamInv(S)'
    BY <1>3, <1>8, <2>2 DEF Between, StreamInv, Reached, GenerationKept, StageKept
  <2> QED
    BY <1>8, <2>1, <2>3, ReportStreams, Zenon
<1> QED
  BY <1>3, <1>7, <1>8, <1>9, <1>10, <1>11, <1>12, <1>13, FocusReport DEF OneRequest

LEMMA CommitKeeps ==
  ASSUME OneRequest, NEW t \in Threads, Commit(t)
  PROVE  RequestInv'
<1>1. PICK q : q = todo[t]
  OBVIOUS
<1>2. q # <<>> /\ Head(q).op = "commit"
  BY <1>1 DEF Commit, At
<1>3. /\ StageInv /\ SheetsBehind /\ Form(q) /\ Vouched
      /\ Agrees(journal) /\ Between(stream) /\ StreamInv(stream)
  BY <1>1, <1>2, Here
<1>4. Tail(q) = <<>>
  <2>1. Calm(q)
    BY <1>2, <1>3, NextForm
  <2> QED
    BY <1>2, <2>1, CalmStep
<1>5. /\ saved' = journal /\ todo'[t] = <<>>
      /\ UNCHANGED <<stage, facts, open, durable, running, latched, level, sheets, vouching,
                     generation, journal, stream, past, jumped, undone>>
  BY <1>1, <1>4, Left DEF Commit, sequence, valves, plant, papers, logged, bounds
<1>6. /\ journal.open = open /\ journal.running = running /\ journal.latched = latched
      /\ journal.stage = stage
      /\ journal.level = level \/ "level" \in undone
      /\ journal.generation = generation \/ ~ GenerationKept
  BY <1>3 DEF Agrees
<1>7. stage \in Nat /\ saved.stage \in Nat /\ generation \in Nat
  BY DEF OneRequest, TypeInv, TypeOK, Projections, Idle, PumpRunning
<1>8. StageInv'
  BY <1>3, <1>5, <1>6, <1>7 DEF StageInv, StageLives, StageKept
<1>9. SheetsBehind' /\ Vouched'
  BY <1>3, <1>5 DEF SheetsBehind, Vouched
<1>10. Settled'
  <2>1. /\ saved'.open = open' /\ saved'.running = running' /\ saved'.latched = latched'
        /\ saved'.stage = stage'
        /\ saved'.level = level' \/ "level" \in undone'
        /\ saved'.generation = generation' \/ ~ GenerationKept'
    BY <1>5, <1>6, Zenon DEF GenerationKept
  <2> QED
    BY <2>1, Zenon DEF Settled, Shown
<1>11. Form(<<>>)'
  BY <1>9, <1>10 DEF Form, Uncommitted
<1>12. Agrees(journal)'
  BY <1>5, <1>6, Zenon DEF Agrees, GenerationKept
<1>13. Between(stream)'
  BY <1>3, <1>5, <1>6, <1>7 DEF Between, GenerationKept
<1>14. StreamInv(stream)'
  <2>1. StageKept => saved.stage <= stage
    BY <1>3 DEF StageInv, StageLives
  <2> QED
    BY <1>3, <1>5, <1>6, <1>7, <2>1 DEF StreamInv, Reached, StageKept, OldTankClosed
<1> QED
  BY <1>5, <1>8, <1>9, <1>11, <1>12, <1>13, <1>14, FocusForm DEF OneRequest

LEMMA LargerIs ==
  ASSUME NEW m \in Nat, NEW n \in Nat
  PROVE  Larger(m, n) \in Nat /\ m <= Larger(m, n) /\ (m <= n => Larger(m, n) = n)
  BY DEF Larger

\* What each record adds to what was put in at any time.
LEMMA Extended ==
  /\ \A n : Extend(Entry("stage", n)) = [past EXCEPT !.stage = Larger(@, n)]
  /\ \A n : Extend(Entry("persisted", n)) = [past EXCEPT !.generation = Larger(@, n)]
  /\ \A p, to : Extend(EntryOf("pump", p, to))
                 = [past EXCEPT !.pumps = IF to THEN @ \cup {p} ELSE @]
  /\ \A v, to : Extend(EntryOf("valve", v, to)) = past
  /\ \A b : Extend(Entry("latch", b)) = past
  /\ \A to : Extend(Entry("level", to)) = past
  /\ Extend(Other) = past
  BY DEF Extend, Entry, EntryOf, Other

\* Only the record that a pump runs adds a pump to those ever named.
LEMMA ExtendGrows ==
  ASSUME TypeInv, NEW r \in Records, past' = Extend(r)
  PROVE  past'.pumps = past.pumps \/ \E p \in Pumps : r = EntryOf("pump", p, TRUE)
<1>0. /\ past.stage \in Nat /\ past.generation \in Nat
      /\ past \in [stage : Idle .. PumpRunning, generation : Nat, pumps : SUBSET Pumps]
  BY DEF TypeInv, TypeOK, Idle, PumpRunning
<1> DEFINE adds == \E p \in Pumps : r = EntryOf("pump", p, TRUE)
<1> HIDE DEF adds
<1>1. /\ past.stage <= past'.stage /\ past.generation <= past'.generation
      /\ past.pumps \subseteq past'.pumps /\ past'.stage \in Nat /\ past'.generation \in Nat
      /\ past'.pumps = past.pumps \/ adds
  <2>1. CASE r \in {Entry("stage", n) : n \in Idle .. PumpRunning}
    <3>1. PICK n \in Idle .. PumpRunning : r = Entry("stage", n)
      BY <2>1
    <3>2. past' = [past EXCEPT !.stage = Larger(@, n)]
      BY <3>1, Extended
    <3>3. n \in Nat
      BY DEF Idle, PumpRunning
    <3>4. past'.stage = Larger(past.stage, n) /\ past'.generation = past.generation
          /\ past'.pumps = past.pumps
      BY <1>0, <3>2
    <3> QED
      BY <1>0, <3>3, <3>4, LargerIs
  <2>2. CASE r \in {Entry("persisted", n) : n \in Nat}
    <3>1. PICK n \in Nat : r = Entry("persisted", n)
      BY <2>2
    <3>2. past' = [past EXCEPT !.generation = Larger(@, n)]
      BY <3>1, Extended
    <3>3. past'.generation = Larger(past.generation, n) /\ past'.stage = past.stage
          /\ past'.pumps = past.pumps
      BY <1>0, <3>2
    <3> QED
      BY <1>0, <3>3, LargerIs
  <2>3. CASE r \in {EntryOf("pump", p, to) : p \in Pumps, to \in BOOLEAN}
    <3>1. PICK p \in Pumps, to \in BOOLEAN : r = EntryOf("pump", p, to)
      BY <2>3
    <3>2. past' = [past EXCEPT !.pumps = IF to THEN @ \cup {p} ELSE @]
      BY <3>1, Extended
    <3>a. /\ past'.stage = past.stage /\ past'.generation = past.generation
          /\ past'.pumps = IF to THEN past.pumps \cup {p} ELSE past.pumps
      BY <1>0, <3>2
    <3>3. CASE to = TRUE
      <4>1. adds
        BY <3>1, <3>3, Zenon DEF adds
      <4>2. past'.pumps = past.pumps \cup {p}
        BY <3>a, <3>3
      <4> QED
        BY <1>0, <3>a, <4>1, <4>2
    <3>4. CASE to = FALSE
      BY <1>0, <3>a, <3>4
    <3> QED
      BY <3>3, <3>4
  <2>4. CASE r \in {EntryOf("valve", v, to) : v \in Valves, to \in BOOLEAN}
    <3>1. past' = past
      BY <2>4, Extended
    <3> QED
      BY <1>0, <3>1
  <2>5. CASE r \in {Entry("latch", b) : b \in BOOLEAN} \cup {Entry("level", to) : to \in Levels}
                     \cup {Other}
    <3>1. past' = past
      BY <2>5, Extended
    <3> QED
      BY <1>0, <3>1
  <2> QED
    BY <2>1, <2>2, <2>3, <2>4, <2>5 DEF Records
<1> QED
  BY <1>1, Zenon DEF adds

\* A record that says nothing the model tells apart.
LEMMA NoteKeeps ==
  ASSUME OneRequest, NEW t \in Threads, AppendRecord(t), Form(todo[t])
  PROVE  RequestInv'
<1>1. PICK q : q = todo[t]
  OBVIOUS
<1>2. q # <<>> /\ Head(q).op = "write" /\ Form(q)
  BY <1>1 DEF AppendRecord, At
<1>3. Head(q) = Note /\ Head(q).record = Other /\ Vouched
  BY <1>2, NextForm, Fields
<1>4. /\ StageInv /\ SheetsBehind
      /\ Agrees(journal) /\ Between(stream) /\ StreamInv(stream)
  <2>1. ToBe(journal, q) = journal /\ ToBe(stream, q) = stream
    BY <1>2, FormRecords DEF FormsRecord
  <2> QED
    BY <1>1, <2>1 DEF OneRequest, RequestInv
<1>5. PICK r : r = Tail(q)
  OBVIOUS
<1>6. /\ journal' = journal /\ stream' = stream /\ past' = past /\ todo'[t] = r
      /\ UNCHANGED <<sequence, valves, plant, papers, saved, bounds>>
  <2>1. Step(t).record = Other
    BY <1>1, <1>3 DEF Step
  <2>2. Extend(Other) = past
    BY DEF Extend, Other, Entry
  <2> QED
    BY <1>1, <1>5, <2>1, <2>2, Written, Applied, Left DEF OneRequest
<1>7. Quiet
  BY <1>6, QuietIs DEF bounds, logged
<1>8. Form(r)
  <2>1. CASE Changing(q, 4)
    <3>1. r = From(ChangeProgram, 5) /\ stage = NewTankOpen /\ New \in open
      BY <1>5, <2>1, ChangingStep DEF Changing
    <3>2. Changing(r, 5)
      BY <3>1 DEF Changing
    <3> QED
      BY <1>3, <3>2 DEF Form
  <2>2. CASE Calm(q)
    <3>1. Calm(r)
      BY <1>2, <1>5, <2>2, CalmStep
    <3> QED
      BY <1>3, <3>1, Zenon DEF Form
  <2>3. CASE Retrying(q)
    <3>1. New \in open /\ r = <<Ensure(Old, FALSE), Do("commit")>>
      <4>1. Ensure(New, TRUE).op # "write" /\ Ensure(Old, FALSE).op # "write"
            /\ OpenNew.op # "write" /\ CloseOld.op # "write"
        BY FixedOps, Fields
      <4> QED
        BY <1>2, <1>5, <2>3, <4>1, RetryingStep, Zenon
    <3>2. Retrying(r)
      BY <3>1, Zenon DEF Retrying
    <3> QED
      BY <1>3, <3>2, Zenon DEF Form
  <2>4. CASE Uncommitted(q)
    <3>1. r = <<>> /\ Settled
      BY <1>2, <1>5, <2>4, UncommittedStep DEF Uncommitted
    <3> QED
      BY <1>3, <3>1 DEF Form, Uncommitted
  <2> QED
    BY <1>2, <2>1, <2>2, <2>3, <2>4, NextForm
<1>9. StageInv' /\ SheetsBehind' /\ Form(r)'
  BY <1>4, <1>7, <1>8, StillKeeps DEF Quiet
<1>10. PICK J, S : J = journal /\ S = stream
  OBVIOUS
<1>11. Agrees(J)' /\ Between(S)' /\ StreamInv(S)'
  BY <1>4, <1>7, <1>10, QuietRecords
<1>12. Agrees(journal)' /\ Between(stream)' /\ StreamInv(stream)'
  BY <1>6, <1>10, <1>11 DEF Agrees, Between, StreamInv, Reached
<1> QED
  BY <1>6, <1>9, <1>12, FocusForm DEF OneRequest

\* The record of what a device did.
LEMMA ReportedKeeps ==
  ASSUME OneRequest, NEW t \in Threads, AppendRecord(t), Form(Tail(todo[t]))
  PROVE  RequestInv'
<1>1. PICK q : q = todo[t]
  OBVIOUS
<1>2. Reports(q) /\ Form(Tail(q)) /\ Head(q) \in Steps /\ Step(t) = Head(q)
  BY <1>1 DEF AppendRecord, At, Reports, OneRequest, TypeInv, Step
<1>3. PICK r, rec : r = Tail(q) /\ rec = Head(q).record
  OBVIOUS
<1>4. rec \in Records
  BY <1>2, <1>3, StepTypes DEF Reports
<1>5. PICK J, S : J = Apply(journal, rec) /\ S = Apply(stream, rec)
  OBVIOUS
<1>6. /\ StageInv /\ SheetsBehind /\ Agrees(J) /\ Between(S) /\ StreamInv(S)
  <2>1. ToBe(journal, q) = J /\ ToBe(stream, q) = S
    BY <1>2, <1>3, <1>5 DEF ToBe
  <2> QED
    BY <1>1, <2>1 DEF OneRequest, RequestInv
<1>7. /\ journal' = J /\ stream' = S /\ past' = Extend(rec) /\ todo'[t] = r
      /\ UNCHANGED <<stage, facts, open, durable, running, latched, level, sheets, vouching,
                     generation, saved, jumped, undone>>
  BY <1>1, <1>2, <1>3, <1>5, Written, Left
  DEF OneRequest, sequence, valves, plant, papers, bounds
<1>8. past'.pumps = past.pumps \/ \E p \in Pumps : rec = EntryOf("pump", p, TRUE)
  BY <1>4, <1>7, ExtendGrows DEF OneRequest
<1>9. Still
  BY <1>7, <1>8 DEF Still
<1>10. StageInv' /\ SheetsBehind' /\ Form(r)'
  BY <1>2, <1>3, <1>6, <1>9, StillKeeps
<1>11. Agrees(journal)'
  BY <1>6, <1>7, Zenon DEF Agrees, GenerationKept
<1>12. /\ S \in Projections /\ stream \in Projections /\ saved.stage \in Nat /\ stage \in Nat
       /\ saved.generation \in Nat /\ generation \in Nat /\ S.stage \in Nat
       /\ S.generation \in Nat
  <2>1. stream \in Projections /\ saved \in Projections /\ stage \in 0 .. 4 /\ generation \in Nat
    BY DEF OneRequest, TypeInv, TypeOK, Idle, PumpRunning
  <2>2. S \in Projections
    BY <1>4, <1>5, <2>1, ApplyType
  <2> QED
    BY <2>1, <2>2 DEF Projections, Idle, PumpRunning
<1>13. Between(stream)'
  BY <1>6, <1>7, <1>12 DEF Between, GenerationKept
<1>14. StreamInv(stream)'
  <2>1. past'.pumps # {} => past.pumps # {} \/ S.running # {}
    <3>1. ASSUME NEW p \in Pumps, rec = EntryOf("pump", p, TRUE) PROVE S.running # {}
      <4>1. S = [stream EXCEPT !.running = @ \cup {p}]
        BY <1>5, <3>1, AppliedPump, Zenon
      <4> QED
        BY <1>12, <4>1 DEF Projections
    <3> QED
      BY <1>8, <3>1
  <2>2. StageKept => saved.stage <= stage
    BY <1>6 DEF StageInv, StageLives
  <2> QED
    BY <1>6, <1>7, <1>12, <2>1, <2>2 DEF StreamInv, Reached, StageKept
<1> QED
  BY <1>7, <1>10, <1>11, <1>13, <1>14, FocusForm DEF OneRequest

LEMMA AppendKeeps ==
  ASSUME OneRequest, NEW t \in Threads, AppendRecord(t)
  PROVE  RequestInv'
<1>1. Form(todo[t]) \/ Form(Tail(todo[t]))
  BY DEF OneRequest, RequestInv, Doing
<1> QED
  BY <1>1, NoteKeeps, ReportedKeeps

LEMMA UndoKeeps ==
  ASSUME OneRequest, NEW t \in Threads, UndoRecord(t)
  PROVE  RequestInv'
<1>1. PICK q : q = todo[t]
  OBVIOUS
<1>2. q # <<>> /\ Head(q).op = "undo"
  BY <1>1 DEF UndoRecord, At
<1>3. /\ StageInv /\ SheetsBehind /\ Form(q) /\ Vouched /\ Step(t) = Head(q)
      /\ Agrees(journal) /\ Between(stream) /\ StreamInv(stream)
  BY <1>1, <1>2, Here
<1>4. PICK r : r = Tail(q)
  OBVIOUS
<1>5. r = <<Do("rebuild"), Do("commit")>>
  <2>1. Undoing(q)
    BY <1>2, <1>3, NextForm
  <2> QED
    BY <1>2, <1>4, <2>1, UndoingStep, Fields
<1>6. PICK rec \in Undoable :
        /\ stream' = Apply(stream, rec)
        /\ undone' = undone \cup {kind \in {"stage", "persisted", "level"} :
                                  kind = rec.kind /\ (stream' # stream \/ kind = "level")}
  BY DEF UndoRecord
<1>s. PICK S : S = Apply(stream, rec)
  OBVIOUS
<1>7. /\ stream' = S /\ todo'[t] = r
      /\ UNCHANGED <<stage, facts, open, durable, running, latched, level, sheets, vouching,
                     generation, journal, past, saved, jumped>>
  <2>1. ~ (failures < MaxFailures)
    BY DEF OneRequest, TypeInv, TypeOK
  <2>2. Proceed(t) /\ UNCHANGED <<stage, facts, open, durable, running, latched, level, sheets,
                                  vouching, generation, journal, past, saved, jumped>>
    BY <2>1 DEF UndoRecord, sequence, valves, plant, papers
  <2> QED
    BY <1>1, <1>3, <1>4, <1>6, <1>s, <2>2, Left
<1>8. undone \subseteq undone'
  BY <1>6
<1>9. /\ StageKept' => StageKept
      /\ StageLives' => StageLives
      /\ GenerationKept' => GenerationKept
  BY <1>7, <1>8 DEF StageKept, StageLives, GenerationKept
<1>10. StageInv' /\ SheetsBehind' /\ Vouched'
  BY <1>3, <1>7, <1>9 DEF StageInv, SheetsBehind, Vouched
<1>11. Form(r)'
  BY <1>5, <1>10, Zenon DEF Form, Undoing
<1>12. Agrees(journal)'
  <2>1. /\ journal'.open = open' /\ journal'.running = running' /\ journal'.latched = latched'
        /\ journal'.stage = stage'
    BY <1>3, <1>7, Zenon DEF Agrees
  <2>2. journal'.level = level' \/ "level" \in undone'
    BY <1>3, <1>7, <1>8 DEF Agrees
  <2>3. journal'.generation = generation' \/ ~ GenerationKept'
    BY <1>3, <1>7, <1>9 DEF Agrees
  <2> QED
    BY <2>1, <2>2, <2>3, Zenon DEF Agrees
<1>13. /\ GenerationKept' => S.generation = stream.generation
       /\ StageKept' => /\ S.stage = stream.stage
                        /\ S.running # {} => stream.running # {} \/ past.pumps # {}
  <2>0. stream \in Projections
    BY DEF OneRequest, TypeInv, TypeOK
  <2>1. CASE rec \in {Entry("stage", n) : n \in Idle .. past.stage}
    <3>1. PICK n \in Idle .. past.stage : rec = Entry("stage", n)
      BY <2>1
    <3>2. S = stream \/ ~ StageKept'
      BY <1>6, <1>7, <3>1 DEF StageKept, Entry
    <3> QED
      BY <1>s, <2>0, <3>1, <3>2, StageApplied
  <2>2. CASE rec \in {Entry("persisted", n) : n \in 0 .. past.generation}
    <3>1. PICK n \in 0 .. past.generation : rec = Entry("persisted", n)
      BY <2>2
    <3>2. S = stream \/ ~ GenerationKept'
      BY <1>6, <1>7, <3>1 DEF GenerationKept, Entry
    <3> QED
      BY <1>s, <2>0, <3>1, <3>2, PersistedApplied
  <2>3. CASE rec \in {EntryOf("pump", p, on) : p \in past.pumps, on \in BOOLEAN}
    <3>1. PICK p \in past.pumps, on \in BOOLEAN : rec = EntryOf("pump", p, on)
      BY <2>3
    <3> QED
      BY <1>s, <2>0, <3>1, PumpApplied
  <2>4. CASE rec \in {EntryOf("valve", v, to) : v \in Valves, to \in BOOLEAN}
    <3>1. PICK v \in Valves, to \in BOOLEAN : rec = EntryOf("valve", v, to)
      BY <2>4
    <3> QED
      BY <1>s, <2>0, <3>1, ValveApplied
  <2>5. CASE rec \in {Entry("latch", active) : active \in BOOLEAN}
    <3>1. PICK active \in BOOLEAN : rec = Entry("latch", active)
      BY <2>5
    <3>2. S = [stream EXCEPT !.latched = active]
      BY <1>s, <3>1, Applied, Zenon
    <3> QED
      BY <2>0, <3>2 DEF Projections
  <2>6. CASE rec = Entry("level", stream.level)
    BY <1>s, <2>0, <2>6, LevelApplied DEF Projections
  <2>7. CASE rec = Other
    BY <1>s, <2>7, Applied
  <2> QED
    BY <1>6, <2>1, <2>2, <2>3, <2>4, <2>5, <2>6, <2>7 DEF Undoable
<1>14. Between(stream)' /\ StreamInv(stream)'
  BY <1>3, <1>7, <1>9, <1>13 DEF Between, StreamInv, Reached
<1> QED
  BY <1>7, <1>10, <1>11, <1>12, <1>14, FocusForm DEF OneRequest

LEMMA RebuildKeeps ==
  ASSUME OneRequest, NEW t \in Threads, Rebuild(t)
  PROVE  RequestInv'
<1>1. PICK q : q = todo[t]
  OBVIOUS
<1>2. q # <<>> /\ Head(q).op = "rebuild"
  BY <1>1 DEF Rebuild, At
<1>3. /\ StageInv /\ SheetsBehind /\ Form(q) /\ Step(t) = Head(q)
      /\ Agrees(journal) /\ Between(stream) /\ StreamInv(stream)
  BY <1>1, <1>2, Here
<1>4. PICK r : r = <<Do("commit")>>
  OBVIOUS
<1>5. Tail(q) = r
  <2>1. Undoing(q)
    BY <1>2, <1>3, NextForm
  <2> QED
    BY <1>2, <1>4, <2>1, UndoingStep
<1>6. /\ journal' = stream /\ stage' = stream.stage /\ open' = stream.open /\ durable' = {}
      /\ running' = stream.running /\ latched' = stream.latched /\ level' \in LevelsOf(stream)
      /\ generation' = Larger(generation, stream.generation)
      /\ jumped' = (jumped \/ stream # journal) /\ todo'[t] = r
      /\ UNCHANGED <<stream, past, saved, sheets, undone>>
  BY <1>1, <1>5, Left DEF Rebuild
<1>7. /\ generation \in Nat /\ stream.generation \in Nat /\ saved.generation \in Nat
      /\ saved.stage \in Nat /\ stream.stage \in Nat /\ sheets \in Seq(Sheets)
      /\ jumped \in BOOLEAN
  BY DEF OneRequest, TypeInv, TypeOK, Projections, Idle, PumpRunning
<1>8. /\ generation' \in Nat /\ generation <= generation'
      /\ GenerationKept => generation' = stream.generation
  BY <1>3, <1>6, <1>7, LargerIs DEF Between
<1>9. SheetsBehind'
  <2>1. ASSUME NEW s \in DOMAIN sheets PROVE sheets[s].generation \in Nat
    <3>1. sheets[s] \in Sheets
      BY <1>7
    <3> QED
      BY <3>1 DEF Sheets
  <2> QED
    BY <1>3, <1>6, <1>7, <1>8, <2>1 DEF SheetsBehind
<1>10. Vouched'
  <2>1. durable' # Valves
    BY <1>6 DEF Valves
  <2> QED
    BY <2>1 DEF Vouched
<1>11. Form(r)'
  <2>1. Calm(r)
    BY <1>4, CalmShort, Zenon
  <2> QED
    BY <1>10, <2>1, Zenon DEF Form
<1>12. Agrees(journal)'
  <2>1. level' = stream.level \/ "level" \in undone
    BY <1>6 DEF LevelsOf
  <2>2. stream.generation = generation' \/ ~ GenerationKept
    BY <1>8
  <2> QED
    BY <1>6, <2>1, <2>2, Zenon DEF Agrees, GenerationKept
<1>13. Between(stream)'
  BY <1>3, <1>6, <1>7, <1>8 DEF Between, GenerationKept
<1>14. StreamInv(stream)'
  BY <1>3, <1>6, <1>7 DEF StreamInv, Reached, StageKept
<1>15. StageInv'
  <2>1. ~ jumped' => ~ jumped /\ stage' = stage /\ running' = running
    BY <1>3, <1>6, <1>7 DEF Agrees
  <2>2. CASE StageKept
    <3>1. /\ saved.stage <= stream.stage
          /\ stream.running # {} => stream.stage = PumpRunning
          /\ saved.running # {} => saved.stage = PumpRunning
      BY <1>3, <2>2 DEF StageInv, StageLives, StreamInv, Reached
    <3> QED
      BY <1>3, <1>6, <2>1, <3>1 DEF StageInv
  <2>3. CASE ~ StageKept
    BY <1>3, <1>6, <2>1, <2>3 DEF StageInv, StageLives, StageKept
  <2> QED
    BY <2>2, <2>3
<1> QED
  BY <1>6, <1>9, <1>11, <1>12, <1>13, <1>14, <1>15, FocusForm DEF OneRequest

-----------------------------------------------------------------------------
(* Every step, and what follows.                                           *)

LEMMA StutterKeeps ==
  ASSUME OneRequest, UNCHANGED vars
  PROVE  RequestInv'
<1>1. PICK t \in Threads : TRUE
  BY DEF OneRequest, OneThread
<1>2. PICK q : q = todo[t]
  OBVIOUS
<1>3. PICK J, S : J = ToBe(journal, q) /\ S = ToBe(stream, q)
  OBVIOUS
<1>4. /\ StageInv /\ SheetsBehind /\ Doing(q) /\ Agrees(J) /\ Between(S) /\ StreamInv(S)
  BY <1>2, <1>3 DEF OneRequest, RequestInv
<1>5. UNCHANGED <<sequence, valves, plant, papers, logged, saved, bounds>> /\ todo' = todo
  BY DEF vars
<1>6. Quiet
  BY <1>5, QuietIs DEF bounds
<1>7. StageInv' /\ SheetsBehind' /\ Doing(q)'
  BY <1>4, <1>6, StillKeeps, Zenon DEF Quiet, Doing
<1>8. Agrees(J)' /\ Between(S)' /\ StreamInv(S)'
  BY <1>4, <1>6, QuietRecords
<1>9. ToBe(journal', q) = J /\ ToBe(stream', q) = S
  BY <1>3, <1>6 DEF Quiet
<1>10. Agrees(ToBe(journal, q))' /\ Between(ToBe(stream, q))' /\ StreamInv(ToBe(stream, q))'
  <2>1. Agrees(ToBe(journal, q))'
    BY <1>8, <1>9, Zenon DEF Agrees
  <2>2. Between(ToBe(stream, q))' /\ StreamInv(ToBe(stream, q))'
    BY <1>8, <1>9 DEF Between, StreamInv, Reached
  <2> QED
    BY <2>1, <2>2
<1>11. todo'[t] = q
  BY <1>2, <1>5
<1> QED
  BY <1>7, <1>10, <1>11, Focus DEF OneRequest

LEMMA RequestStep ==
  ASSUME OneRequest, [Next]_vars
  PROVE  RequestInv'
<1>1. CASE UNCHANGED vars
  BY <1>1, StutterKeeps
<1>2. CASE Restart
  BY <1>2, RestartKeeps
<1>3. ASSUME NEW t \in Threads, Request(t) PROVE RequestInv'
  BY <1>3, RequestKeeps
<1>4. ASSUME NEW t \in Threads, Advance(t) PROVE RequestInv'
  <2>1. CASE CheckStage(t) \/ EnterStage(t) \/ SetFact(t) \/ AdvanceIfIdle(t)
    BY <2>1, CheckKeeps, EnterKeeps, FactKeeps, AdvanceIfIdleKeeps
  <2>2. CASE SwitchValve(t) \/ EnsureValve(t) \/ SaveValve(t)
    BY <2>2, SwitchKeeps, EnsureKeeps, SaveKeeps
  <2>3. CASE IssueSheet(t) \/ VerifySheet(t) \/ UseSheet(t)
    BY <2>3, IssueKeeps, VerifyKeeps, UseKeeps
  <2>4. CASE EnergisePump(t) \/ StopOne(t) \/ StopNext(t) \/ SwitchOff(t)
    BY <2>4, EnergiseKeeps, StopKeeps, StopNextKeeps, OffKeeps
  <2>5. CASE MoveLevel(t) \/ ApplyLatch(t) \/ Evaluate(t)
    BY <2>5, LevelKeeps, LatchKeeps, EvaluateKeeps
  <2>6. CASE AppendRecord(t) \/ Commit(t) \/ UndoRecord(t) \/ Rebuild(t)
    BY <2>6, AppendKeeps, CommitKeeps, UndoKeeps, RebuildKeeps
  <2> QED
    BY <1>4, <2>1, <2>2, <2>3, <2>4, <2>5, <2>6, Zenon DEF Advance
<1> QED
  BY <1>1, <1>2, <1>3, <1>4, Zenon DEF Next

LEMMA AlwaysOneRequest ==
  ASSUME OneThread, MaxFailures = 0
  PROVE  Spec => []OneRequest
<1>1. Init => OneRequest
  BY TypeInit, RequestInit DEF OneRequest
<1>2. OneRequest /\ [Next]_vars => OneRequest'
  BY TypeStep, RequestStep DEF OneRequest
<1> QED
  BY <1>1, <1>2, PTL DEF Spec

\* One request at a time, a pump runs only at the end of the sequence, through
\* every restart and every rollback but that of a stage, and alone unless a
\* rollback brought back more.
THEOREM PumpsAtLastStage ==
  ASSUME OneThread, MaxFailures = 0
  PROVE  Spec => []RunsAtLastStage
<1>1. OneRequest => RunsAtLastStage
  <2> SUFFICES ASSUME OneRequest, running # {}
               PROVE  /\ stage = PumpRunning \/ "stage" \in undone
                      /\ Cardinality(running) = 1 \/ jumped
    BY DEF RunsAtLastStage
  <2>1. StageInv
    BY DEF OneRequest, RequestInv
  <2>2. stage = PumpRunning \/ "stage" \in undone
    BY <2>1 DEF StageInv, StageLives, StageKept
  <2>3. ASSUME ~ jumped PROVE Cardinality(running) = 1
    <3>1. Single(running)
      BY <2>1, <2>3 DEF StageInv
    <3>2. PICK p : running = {p}
      BY <3>1 DEF Single
    <3> QED
      BY <3>2, FS_Singleton
  <2> QED
    BY <2>2, <2>3
<1> QED
  BY <1>1, AlwaysOneRequest, PTL

\* Between requests the checkpoint is the plant: a resume restores it.
THEOREM CheckpointIsPlant ==
  ASSUME OneThread, MaxFailures = 0
  PROVE  Spec => []IdleIsSaved
<1>1. OneRequest => IdleIsSaved
  <2> SUFFICES ASSUME OneRequest, \A t \in Threads : todo[t] = <<>>
               PROVE  Settled
    BY DEF IdleIsSaved, Settled, Shown, StageKept, GenerationKept
  <2>1. PICK t \in Threads : TRUE
    BY DEF OneRequest, OneThread
  <2>2. Form(<<>>)
    BY <2>1 DEF OneRequest, RequestInv, Doing, Reports
  <2> QED
    BY <2>2, IdleForm
<1> QED
  BY <1>1, AlwaysOneRequest, PTL

\* One request at a time, every sheet is used at most once.
THEOREM SheetsUsedOnce ==
  ASSUME OneThread, MaxFailures = 0
  PROVE  Spec => []SheetUsedOnce
<1>1. OneRequest => SheetUsedOnce
  BY DEF OneRequest, RequestInv, SheetsBehind, SheetUsedOnce
<1> QED
  BY <1>1, AlwaysOneRequest, PTL

\* The steps that change stage, pumps and latch, where nothing is restored.
LEMMA Deciding ==
  ASSUME OneRequest, [Next]_vars, Decides
  PROVE  \/ UNCHANGED <<stage, running, latched>>
         \/ \E t \in Threads : EnterStage(t) /\ UNCHANGED <<running, latched>>
         \/ \E t \in Threads : EnergisePump(t) /\ UNCHANGED <<stage, latched>>
         \/ \E t \in Threads : SwitchOff(t) /\ UNCHANGED <<stage, latched>>
         \/ \E t \in Threads : ApplyLatch(t) /\ UNCHANGED <<stage, running>>
<1> USE DEF sequence, valves, plant, papers, logged, bounds
<1>1. CASE UNCHANGED vars
  BY <1>1 DEF vars
<1>2. ~ Restart
  BY DEF Decides, Restart, OneRequest, TypeInv, TypeOK
<1>3. ASSUME NEW t \in Threads, Request(t) PROVE UNCHANGED <<stage, running, latched>>
  BY <1>3 DEF Request, PersistValves, ChangeTank, RetryChangeTank, MoveValve, StartPump,
              StopPump, ChangeLevel, Reassess, TripEsd, RetripEsd, TestEsd, ResetEsd,
              EvaluateInterlocks, OtherRequest, Rollback, Begin
<1>4. ASSUME NEW t \in Threads, Rebuild(t) PROVE FALSE
  <2>1. PICK q : q = todo[t]
    OBVIOUS
  <2>2. q # <<>> /\ Head(q).op = "rebuild"
    BY <1>4, <2>1 DEF Rebuild, At
  <2>3. Form(q)
    BY <2>1, <2>2, Here
  <2>4. Undoing(q)
    BY <2>2, <2>3, NextForm
  <2>5. Tail(q) = <<Do("commit")>>
    BY <2>2, <2>4, UndoingStep
  <2>6. todo'[t] = Tail(q)
    BY <1>4, <2>1, Left DEF Rebuild
  <2>7. Head(Tail(q)).op = "commit"
    <3>1. Do("commit").op = "commit"
      BY DEF Do
    <3> QED
      BY <2>5, <3>1, Heads1
  <2>8. At(t, "rebuild")
    BY <1>4 DEF Rebuild
  <2> QED
    BY <2>1, <2>2, <2>6, <2>7, <2>8 DEF Decides
<1>5. ASSUME NEW t \in Threads,
             \/ CheckStage(t) \/ SetFact(t) \/ AdvanceIfIdle(t) \/ SwitchValve(t)
             \/ EnsureValve(t) \/ SaveValve(t) \/ IssueSheet(t) \/ VerifySheet(t)
             \/ UseSheet(t) \/ StopOne(t) \/ StopNext(t) \/ MoveLevel(t) \/ Evaluate(t)
             \/ AppendRecord(t) \/ UndoRecord(t) \/ Commit(t)
      PROVE  UNCHANGED <<stage, running, latched>>
  BY <1>5 DEF CheckStage, SetFact, AdvanceIfIdle, SwitchValve, EnsureValve, SaveValve,
              IssueSheet, VerifySheet, UseSheet, StopOne, StopNext, MoveLevel, Evaluate,
              AppendRecord, UndoRecord, Commit
<1>6. /\ \A t \in Threads : EnterStage(t) => UNCHANGED <<running, latched>>
      /\ \A t \in Threads : EnergisePump(t) \/ SwitchOff(t) => UNCHANGED <<stage, latched>>
      /\ \A t \in Threads : ApplyLatch(t) => UNCHANGED <<stage, running>>
  BY DEF EnterStage, EnergisePump, SwitchOff, ApplyLatch
<1> QED
  BY <1>1, <1>2, <1>3, <1>4, <1>5, <1>6 DEF Next, Advance

\* A thread that is at an operation other than an append is at one of the forms
\* with it, and the journal is the plant.
LEMMA AtForm ==
  ASSUME OneRequest, NEW t \in Threads, NEW op, At(t, op), op # "write"
  PROVE  /\ Form(todo[t]) /\ todo[t] # <<>> /\ Head(todo[t]).op = op
         /\ Step(t) = Head(todo[t]) /\ StageInv /\ journal.open = open
<1>1. PICK q : q = todo[t]
  OBVIOUS
<1>2. q # <<>> /\ Head(q).op = op
  BY <1>1 DEF At
<1>3. Form(q) /\ Step(t) = Head(q) /\ StageInv /\ Agrees(journal)
  BY <1>1, <1>2, Here
<1> QED
  BY <1>1, <1>2, <1>3 DEF Agrees

\* What is known where a pump starts.
LEMMA StartingPump ==
  ASSUME OneRequest, [Next]_vars, Decides, running' \ running # {}
  PROVE  journal.open = open /\ \E t \in Threads, p \in Pumps, s \in Nat : Starting(todo[t], p, s, 6)
<1>1. PICK t \in Threads : EnergisePump(t)
  BY Deciding DEF SwitchOff
<1>2. At(t, "energise")
  BY <1>1 DEF EnergisePump
<1>3. /\ journal.open = open
      /\ Form(todo[t]) /\ todo[t] # <<>> /\ Head(todo[t]).op = "energise"
  BY <1>2, AtForm
<1>4. \E p \in Pumps, s \in Nat : Starting(todo[t], p, s, 6)
  BY <1>3, NextForm
<1> QED
  BY <1>3, <1>4

\* A pump starts on positions that nobody moved since its sheet was issued.
THEOREM EvidenceIsCurrent ==
  ASSUME OneThread, MaxFailures = 0
  PROVE  Spec => StartsOnCurrentEvidence
<1>1. ASSUME OneRequest, NEW t \in Threads, At(t, "energise")
      PROVE  Step(t).sheet \in vouching
  <2>1. PICK p \in Pumps, s \in Nat : Starting(todo[t], p, s, 6)
    BY <1>1, AtForm, NextForm
  <2>2. Step(t).sheet = s
    BY <1>1, <2>1, AtForm, StartingStep
  <2> QED
    BY <2>1, <2>2 DEF Starting
<1>2. OneRequest /\ [Next]_vars
        => [\A t \in Threads :
              At(t, "energise") /\ Step(t).pump \in running' \ running /\ Decides
                => Step(t).sheet \in vouching]_vars
  BY <1>1
<1> QED
  BY <1>2, AlwaysOneRequest, PTL DEF Spec, StartsOnCurrentEvidence

\* When a pump starts, the journal knows the positions of the valves.
THEOREM PositionsAlwaysWritten ==
  ASSUME OneThread, MaxFailures = 0
  PROVE  Spec => StartsOnWrittenPositions
<1>1. OneRequest /\ [Next]_vars
        => [running' \ running # {} /\ Decides => journal.open = open]_vars
  BY StartingPump
<1> QED
  BY <1>1, AlwaysOneRequest, PTL DEF Spec, StartsOnWrittenPositions

\* No pump starts while the latch is set, nor beside another one unless the record
\* of a stage was rolled back.
THEOREM PumpsStartAlone ==
  ASSUME OneThread, MaxFailures = 0
  PROVE  Spec => StartsAlone
<1>1. ASSUME OneRequest, [Next]_vars, running' \ running # {}, Decides
      PROVE  /\ ~ latched /\ stage = PumpRunning
             /\ running = {} \/ "stage" \in undone
  BY <1>1, StartingPump DEF Starting, StageLives, StageKept
<1>2. OneRequest /\ [Next]_vars
        => [running' \ running # {} /\ Decides
              => /\ ~ latched /\ stage = PumpRunning
                 /\ running = {} \/ "stage" \in undone]_vars
  BY <1>1
<1> QED
  BY <1>2, AlwaysOneRequest, PTL DEF Spec, StartsAlone

\* The three valves are three.
LEMMA ThreeValves == Esd # Old
<1> SUFFICES ASSUME Esd = Old PROVE FALSE
  OBVIOUS
<1>1. {New, Old, Esd} = {New} \cup {Old}
  OBVIOUS
<1>2. IsFiniteSet({New}) /\ Cardinality({New}) = 1
  BY FS_Singleton
<1>3. \/ Cardinality({New} \cup {Old}) = Cardinality({New})
      \/ Cardinality({New} \cup {Old}) = Cardinality({New}) + 1
  BY <1>2, FS_AddElement
<1> QED
  BY <1>1, <1>2, <1>3, ValvesAssumption

\* The old tank is closed, in a handover or its repetition, only where the journal
\* has the new one open.
THEOREM HandoverKeepsPath ==
  ASSUME OneThread, MaxFailures = 0
  PROVE  Spec => NewOpensFirst
<1>1. ASSUME OneRequest, [Next]_vars, stage = NewTankOpen, stage' = OldTankClosed, Decides
      PROVE  New \in journal.open
  <2>1. stage' # stage
    BY <1>1 DEF NewTankOpen, OldTankClosed
  <2>2. PICK t \in Threads : EnterStage(t)
    BY <1>1, <2>1, Deciding
  <2>3. At(t, "enter") /\ stage' = Step(t).target
    BY <2>2 DEF EnterStage
  <2>4. /\ Form(todo[t]) /\ todo[t] # <<>> /\ Head(todo[t]).op = "enter"
        /\ journal.open = open
    BY <1>1, <2>3, AtForm
  <2>5. CASE Changing(todo[t], 2)
    BY <1>1, <2>5 DEF Changing, ValvesSaved, NewTankOpen
  <2>6. CASE Changing(todo[t], 7)
    BY <2>4, <2>6 DEF Changing
  <2>7. CASE \E p \in Pumps, s \in Nat : Starting(todo[t], p, s, 5)
    BY <1>1, <2>7 DEF Starting, OldTankClosed, NewTankOpen
  <2>8. CASE Advancing(todo[t])
    BY <1>1, <2>8 DEF Advancing, Idle, NewTankOpen
  <2> QED
    BY <2>4, <2>5, <2>6, <2>7, <2>8, NextForm
<1>2. ASSUME OneRequest, NEW t \in Threads, ClosesOld(t) PROVE New \in journal.open
  <2>1. PICK q : q = todo[t]
    OBVIOUS
  <2>2. At(t, "move") /\ Step(t) = CloseOld /\ Head(Tail(q)) = Note
    BY <1>2, <2>1, Zenon DEF ClosesOld, CloseOld
  <2>3. /\ Form(q) /\ q # <<>> /\ Head(q).op = "move" /\ Head(q) = CloseOld
        /\ journal.open = open
    BY <1>2, <2>1, <2>2, AtForm
  <2>4. CloseOld # OpenNew /\ CloseOld # ShutEsd
    BY FixedSteps, ThreeValves
  <2>5. CASE Changing(q, 3)
    BY <2>3, <2>4, <2>5, ChangingStep
  <2>6. CASE Changing(q, 8)
    BY <2>3, <2>6 DEF Changing
  <2>7. CASE Calm(q)
    BY <2>3, <2>4, <2>7, CalmStep, CalmTypes
  <2>8. CASE Stopping(q)
    BY <2>3, <2>4, <2>8, StoppingStep
  <2>9. CASE Retrying(q)
    <3>1. Ensure(New, TRUE).op # "move" /\ Ensure(Old, FALSE).op # "move" /\ Note.op # "move"
      BY Fields
    <3> QED
      BY <2>3, <2>4, <2>9, <3>1, RetryingStep, Zenon
  <2>10. CASE Moving(q)
    <3>1. Head(Tail(q)) = Do("commit")
      BY <2>10, MovingStep, Heads1
    <3>2. Do("commit") # Note
      BY Fields
    <3> QED
      BY <2>2, <3>1, <3>2
  <2> QED
    BY <2>3, <2>5, <2>6, <2>7, <2>8, <2>9, <2>10, NextForm
<1>3. OneRequest /\ [Next]_vars
        => [Decides /\ (\/ stage = NewTankOpen /\ stage' = OldTankClosed
                        \/ \E t \in Threads : ClosesOld(t) /\ todo'[t] # todo[t])
              => New \in journal.open]_vars
  BY <1>1, <1>2
<1> QED
  BY <1>3, AlwaysOneRequest, PTL DEF Spec, NewOpensFirst

\* A pump is switched off only behind a closed emergency valve.
THEOREM EsdClosesFirst ==
  ASSUME OneThread, MaxFailures = 0
  PROVE  Spec => EsdBeforeOff
<1>1. ASSUME OneRequest, [Next]_vars, running \ running' # {}, Decides
      PROVE  Esd \notin open
  <2>1. PICK t \in Threads : EnergisePump(t) \/ SwitchOff(t)
    BY <1>1, Deciding
  <2>2. ~ EnergisePump(t)
    BY <1>1 DEF EnergisePump
  <2>3. At(t, "off")
    BY <2>1, <2>2 DEF SwitchOff
  <2>4. Switching(todo[t]) /\ Head(todo[t]).op = "off"
    BY <1>1, <2>3, AtForm, NextForm
  <2> QED
    BY <2>4, SwitchingStep
<1>2. OneRequest /\ [Next]_vars
        => [running \ running' # {} /\ Decides => Esd \notin open]_vars
  BY <1>1
<1> QED
  BY <1>2, AlwaysOneRequest, PTL DEF Spec, EsdBeforeOff

\* The latch is released only behind a closed emergency valve.
THEOREM LatchNeedsClosedEsd ==
  ASSUME OneThread, MaxFailures = 0
  PROVE  Spec => LatchOutlivesOpenEsd
<1>1. ASSUME OneRequest, [Next]_vars, latched, ~ latched', Decides
      PROVE  Esd \notin open
  <2>1. PICK t \in Threads : ApplyLatch(t)
    BY <1>1, Deciding
  <2>2. At(t, "latch") /\ latched' = Step(t).active
    BY <2>1 DEF ApplyLatch
  <2>3. /\ Form(todo[t]) /\ todo[t] # <<>> /\ Head(todo[t]).op = "latch"
        /\ Head(todo[t]) # SetLatch
    BY <1>1, <2>2, AtForm, FixedSteps
  <2>4. CASE Uncommitted(todo[t])
    <3>1. Note.op # "latch" /\ Do("evaluate").op # "latch"
      BY FixedOps
    <3> QED
      BY <2>3, <2>4, <3>1, UncommittedStep DEF MayClear
  <2>5. CASE Calm(todo[t])
    BY <2>3, <2>5, CalmStep, CalmTypes
  <2>6. CASE Switching(todo[t])
    BY <1>1, <2>3, <2>6, SwitchingStep
  <2> QED
    BY <2>3, <2>4, <2>5, <2>6, NextForm
<1>2. OneRequest /\ [Next]_vars
        => [latched /\ ~ latched' /\ Decides => Esd \notin open]_vars
  BY <1>1
<1> QED
  BY <1>2, AlwaysOneRequest, PTL DEF Spec, LatchOutlivesOpenEsd
=============================================================================
