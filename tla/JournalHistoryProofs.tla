------------------------ MODULE JournalHistoryProofs ------------------------
(***************************************************************************)
(* What the loop over the records computes (Fold), by induction on how far *)
(* it has come, and what follows for the live state and for what readers   *)
(* of the history see.                                                     *)
(***************************************************************************)
EXTENDS JournalProofs, WellFoundedInduction

-----------------------------------------------------------------------------
(* Induction.                                                              *)

\* A set that contains zero and the successor of each of its numbers contains
\* every number: otherwise there is a least one that it misses.
LEMMA InductiveSet ==
  ASSUME NEW S, 0 \in S, \A n \in Nat : n \in S => n + 1 \in S
  PROVE  Nat \subseteq S
<1> SUFFICES ASSUME ~ (Nat \subseteq S) PROVE FALSE
  OBVIOUS
<1> DEFINE below  == {pair \in Nat \X Nat : pair[1] < pair[2]}
           missed == Nat \ S
<1>1. IsWellFoundedOn(below, Nat)
  BY NatLessThanWellFounded DEF OpToRel
<1>2. PICK least \in missed : \A n \in missed : <<n, least>> \notin below
  <2>1. missed \subseteq Nat /\ missed # {}
    OBVIOUS
  <2> HIDE DEF below, missed
  <2> QED
    BY <1>1, <2>1, WFMin
<1>3. \A n \in missed : ~ (n < least)
  BY <1>2
<1>4. least # 0 /\ least - 1 \in Nat
  OBVIOUS
<1>5. least - 1 \in S
  BY <1>3, <1>4
<1> QED
  BY <1>4, <1>5

-----------------------------------------------------------------------------
(* The loop.                                                               *)

\* What the loop does at place n to the state before it.
Pass(state, records, counted, n) ==
  IF n \in counted THEN Apply(state, records[n]) ELSE state

\* The states of the loop after 0 .. m places.
IsRun(run, m, state, records, counted) ==
  run = [n \in 0 .. m |-> IF n = 0 THEN state
                          ELSE Pass(run[n - 1], records, counted, n)]

\* A run goes on as long as there are places.
LEMMA RunExtends ==
  ASSUME NEW m \in Nat, NEW state, NEW records, NEW counted, NEW run,
         IsRun(run, m, state, records, counted)
  PROVE  \E longer : IsRun(longer, m + 1, state, records, counted)
<1> DEFINE longer == [n \in 0 .. (m + 1) |->
                        IF n <= m THEN run[n] ELSE Pass(run[m], records, counted, m + 1)]
<1>1. run = [n \in 0 .. m |-> IF n = 0 THEN state ELSE Pass(run[n - 1], records, counted, n)]
  BY DEF IsRun
<1>2. ASSUME NEW n \in 0 .. (m + 1)
      PROVE  longer[n] = IF n = 0 THEN state ELSE Pass(longer[n - 1], records, counted, n)
  <2>1. CASE n = 0
    <3>1. run[0] = state
      BY <1>1
    <3> QED
      BY <2>1, <3>1
  <2>2. CASE n \in 1 .. m
    <3>1. run[n] = Pass(run[n - 1], records, counted, n)
      BY <1>1, <2>2
    <3>2. longer[n] = run[n] /\ longer[n - 1] = run[n - 1]
      BY <2>2
    <3> QED
      BY <2>2, <3>1, <3>2
  <2>3. CASE n = m + 1
    <3>1. longer[n] = Pass(run[m], records, counted, m + 1) /\ longer[n - 1] = run[m]
      BY <2>3
    <3> QED
      BY <2>3, <3>1
  <2> QED
    BY <2>1, <2>2, <2>3
<1>3. IsRun(longer, m + 1, state, records, counted)
  BY <1>2 DEF IsRun
<1> QED
  BY <1>3

\* There is a run of every length.
LEMMA RunExists ==
  ASSUME NEW m \in Nat, NEW state, NEW records, NEW counted
  PROVE  \E run : IsRun(run, m, state, records, counted)
<1> DEFINE Good == {n \in Nat : \E run : IsRun(run, n, state, records, counted)}
<1>1. 0 \in Good
  <2>1. IsRun([n \in 0 .. 0 |-> state], 0, state, records, counted)
    BY DEF IsRun
  <2> QED
    BY <2>1
<1>2. ASSUME NEW n \in Nat, n \in Good PROVE n + 1 \in Good
  BY <1>2, RunExtends
<1>3. Nat \subseteq Good
  <2> HIDE DEF Good
  <2> QED
    BY <1>1, <1>2, InductiveSet
<1> QED
  BY <1>3

\* The recursive definition of Fold has the value of a run at its end.
LEMMA FoldIsRun ==
  ASSUME NEW state, NEW records, NEW counted, Len(records) \in Nat
  PROVE  \E run : /\ IsRun(run, Len(records), state, records, counted)
                  /\ Fold(state, records, counted) = run[Len(records)]
<1> DEFINE run == CHOOSE r : IsRun(r, Len(records), state, records, counted)
<1>1. IsRun(run, Len(records), state, records, counted)
  BY RunExists
<1>2. Fold(state, records, counted) = run[Len(records)]
  BY DEF Fold, IsRun, Pass
<1> QED
  BY <1>1, <1>2

\* A run is the beginning of every longer one over the same records.
LEMMA RunsAgree ==
  ASSUME NEW state, NEW m \in Nat, NEW l \in Nat, m <= l,
         NEW records, NEW counted, NEW run, IsRun(run, m, state, records, counted),
         NEW others, NEW places, NEW walk, IsRun(walk, l, state, others, places),
         \A n \in 1 .. m : n \in places <=> n \in counted,
         \A n \in 1 .. m : others[n] = records[n]
  PROVE  run[m] = walk[m]
<1> DEFINE Good == {n \in Nat : n <= m => run[n] = walk[n]}
<1>1. 0 \in Good
  BY DEF IsRun
<1>2. ASSUME NEW n \in Nat, n \in Good PROVE n + 1 \in Good
  <2> SUFFICES ASSUME n + 1 <= m PROVE run[n + 1] = walk[n + 1]
    OBVIOUS
  <2>1. run[n] = walk[n]
    BY <1>2
  <2>2. run[n + 1] = Pass(run[n], records, counted, n + 1)
    BY DEF IsRun
  <2>3. walk[n + 1] = Pass(walk[n], others, places, n + 1)
    BY DEF IsRun
  <2> QED
    BY <2>1, <2>2, <2>3 DEF Pass
<1>3. Nat \subseteq Good
  <2> HIDE DEF Good
  <2> QED
    BY <1>1, <1>2, InductiveSet
<1> QED
  BY <1>3

\* One more record is applied to the fold of those before, or skipped.
LEMMA FoldOfAppend ==
  ASSUME NEW S, NEW records \in Seq(S), NEW record \in S, NEW state,
         NEW counted, NEW places,
         \A n \in 1 .. Len(records) : n \in places <=> n \in counted
  PROVE  Fold(state, Append(records, record), places) =
           IF Len(records) + 1 \in places
           THEN Apply(Fold(state, records, counted), record)
           ELSE Fold(state, records, counted)
<1> DEFINE longer == Append(records, record)
           m      == Len(records)
<1>1. /\ m \in Nat /\ Len(longer) = m + 1 /\ longer[m + 1] = record
      /\ \A n \in 1 .. m : longer[n] = records[n]
  OBVIOUS
<1>2. PICK run : /\ IsRun(run, m, state, records, counted)
                 /\ Fold(state, records, counted) = run[m]
  BY <1>1, FoldIsRun
<1>3. PICK walk : /\ IsRun(walk, m + 1, state, longer, places)
                  /\ Fold(state, longer, places) = walk[m + 1]
  <2>1. Len(longer) \in Nat /\ Len(longer) = m + 1
    BY <1>1
  <2> HIDE DEF longer, m
  <2>2. \E walk : /\ IsRun(walk, Len(longer), state, longer, places)
                 /\ Fold(state, longer, places) = walk[Len(longer)]
    BY <2>1, FoldIsRun
  <2> QED
    BY <2>1, <2>2
<1> HIDE DEF longer, m
<1>4. run[m] = walk[m]
  <2>1. m + 1 \in Nat /\ m <= m + 1
    BY <1>1
  <2>2. \A n \in 1 .. m : n \in places <=> n \in counted
    BY DEF m
  <2> QED
    BY <2>1, <2>2, <1>1, <1>2, <1>3, RunsAgree
<1>5. walk[m + 1] = Pass(walk[m], longer, places, m + 1)
  BY <1>1, <1>3 DEF IsRun
<1> QED
  BY <1>1, <1>2, <1>3, <1>4, <1>5 DEF Pass, longer, m

\* Nothing is folded of no records.
LEMMA FoldOfNothing == ASSUME NEW state, NEW counted PROVE Fold(state, <<>>, counted) = state
<1>1. PICK run : /\ IsRun(run, Len(<<>>), state, <<>>, counted)
                 /\ Fold(state, <<>>, counted) = run[Len(<<>>)]
  BY FoldIsRun
<1> QED
  BY <1>1 DEF IsRun

\* Nor when no record counts.
LEMMA FoldOfNone ==
  ASSUME NEW state, NEW records, Len(records) \in Nat PROVE Fold(state, records, {}) = state
<1> DEFINE m == Len(records)
<1>1. PICK run : IsRun(run, m, state, records, {}) /\ Fold(state, records, {}) = run[m]
  BY FoldIsRun
<1>2. m \in Nat
  OBVIOUS
<1> HIDE DEF m
<1> DEFINE Good == {n \in Nat : n <= m => run[n] = state}
<1>3. 0 \in Good
  BY <1>1, <1>2 DEF IsRun
<1>4. ASSUME NEW n \in Nat, n \in Good PROVE n + 1 \in Good
  <2> SUFFICES ASSUME n + 1 <= m PROVE run[n + 1] = state
    OBVIOUS
  <2>1. run[n] = state
    BY <1>2, <1>4
  <2>2. run[n + 1] = Pass(run[n], records, {}, n + 1)
    BY <1>1, <1>2 DEF IsRun
  <2> QED
    BY <2>1, <2>2 DEF Pass
<1>5. Nat \subseteq Good
  <2> HIDE DEF Good
  <2> QED
    BY <1>3, <1>4, InductiveSet
<1> QED
  BY <1>1, <1>2, <1>5

-----------------------------------------------------------------------------
(* The history of records that are numbered by position.                   *)

Numbered(records) == \A i \in DOMAIN records : records[i].seq = i

\* A record that is appended does not show below its own number.
LEMMA EarlierHistory ==
  ASSUME NEW records \in Seq(Record), Numbered(records), NEW record \in Record,
         record.seq = Len(records) + 1, NEW dropped, NEW limit \in 0 .. Len(records)
  PROVE  Project(Append(records, record), dropped, limit) = Project(records, dropped, limit)
<1> DEFINE longer  == Append(records, record)
           counted == UpTo(records, limit) \cap Kept(records, dropped)
           places  == UpTo(longer, limit) \cap Kept(longer, dropped)
<1>1. /\ Len(records) \in Nat /\ DOMAIN records = 1 .. Len(records)
      /\ DOMAIN longer = 1 .. (Len(records) + 1)
      /\ longer[Len(records) + 1] = record
      /\ \A n \in 1 .. Len(records) : longer[n] = records[n]
  OBVIOUS
<1> HIDE DEF longer
<1>2. \A n \in 1 .. Len(records) : n \in places <=> n \in counted
  BY <1>1 DEF UpTo, Kept
<1>3. Len(records) + 1 \notin places
  <2>1. Len(records) + 1 \in 1 .. (Len(records) + 1) /\ ~ (record.seq <= limit)
    BY <1>1
  <2> QED
    BY <2>1, <1>1 DEF UpTo
<1> HIDE DEF counted, places
<1>4. Fold(Blank, longer, places) = Fold(Blank, records, counted)
  BY <1>2, <1>3, FoldOfAppend DEF longer
<1> QED
  BY <1>4 DEF Project, counted, places, longer

\* At its own number it is the last one applied, unless it is rolled back.
LEMMA NextHistory ==
  ASSUME NEW records \in Seq(Record), Numbered(records), NEW record \in Record,
         record.seq = Len(records) + 1, NEW dropped, record.seq \notin dropped
  PROVE  Project(Append(records, record), dropped, Len(records) + 1)
           = Apply(Project(records, dropped, Len(records)), record)
<1> DEFINE longer  == Append(records, record)
           counted == UpTo(records, Len(records)) \cap Kept(records, dropped)
           places  == UpTo(longer, Len(records) + 1) \cap Kept(longer, dropped)
<1>1. /\ Len(records) \in Nat /\ DOMAIN records = 1 .. Len(records)
      /\ DOMAIN longer = 1 .. (Len(records) + 1)
      /\ longer[Len(records) + 1] = record
      /\ \A n \in 1 .. Len(records) : longer[n] = records[n]
  OBVIOUS
<1> HIDE DEF longer
<1>2. \A n \in 1 .. (Len(records) + 1) : longer[n].seq = n
  BY <1>1 DEF Numbered
<1>3. UpTo(longer, Len(records) + 1) = 1 .. (Len(records) + 1)
  BY <1>1, <1>2 DEF UpTo
<1>4. UpTo(records, Len(records)) = 1 .. Len(records)
  BY <1>1 DEF UpTo, Numbered
<1>5. \A n \in 1 .. Len(records) : n \in places <=> n \in counted
  BY <1>1, <1>3, <1>4 DEF Kept
<1>6. Len(records) + 1 \in places
  BY <1>1, <1>3 DEF Kept
<1> HIDE DEF counted, places
<1>7. Fold(Blank, longer, places) = Apply(Fold(Blank, records, counted), record)
  BY <1>5, <1>6, FoldOfAppend DEF longer
<1> QED
  BY <1>7 DEF Project, counted, places, longer

-----------------------------------------------------------------------------
(* What a fold shows.                                                      *)

\* The places up to the m-th that write the field of a kind.
Writers(records, counted, m, k) ==
  {i \in 1 .. m : i \in counted /\ records[i].kind = k}

\* The field is that of the last of them, or unset when there is none.
ShowsLast(state, records, writers, k) ==
  \/ writers = {} /\ state.field[k] = Unset
  \/ \E last \in writers : /\ state.field[k] = records[last].payload
                           /\ \A i \in writers : i <= last

\* One pass of the loop keeps what is shown up to date.
LEMMA PassShowsLast ==
  ASSUME NEW k \in Kinds, NEW records, NEW counted, NEW m \in Nat, NEW state,
         DOMAIN state.field = Kinds,
         ShowsLast(state, records, Writers(records, counted, m, k), k),
         IsTombstone(records[m + 1]) \/ records[m + 1].kind \in Kinds
  PROVE  LET next == Pass(state, records, counted, m + 1)
         IN  /\ DOMAIN next.field = Kinds
             /\ ShowsLast(next, records, Writers(records, counted, m + 1, k), k)
<1> DEFINE next    == Pass(state, records, counted, m + 1)
           record  == records[m + 1]
           before  == Writers(records, counted, m, k)
           writers == Writers(records, counted, m + 1, k)
<1>1. DOMAIN next.field = Kinds
  BY DEF Pass, Apply
<1>2. CASE m + 1 \in counted /\ record.kind = k
  <2>1. next.field[k] = record.payload
    <3>1. ~ IsTombstone(record)
      BY <1>2, KindsAssumption DEF IsTombstone
    <3> QED
      BY <1>2, <3>1 DEF Pass, Apply
  <2>2. m + 1 \in writers /\ \A i \in writers : i <= m + 1
    BY <1>2 DEF Writers
  <2> QED
    BY <1>1, <2>1, <2>2 DEF ShowsLast
<1>3. CASE ~ (m + 1 \in counted /\ record.kind = k)
  <2>1. next.field[k] = state.field[k]
    BY <1>3 DEF Pass, Apply
  <2>2. writers = before
    BY <1>3 DEF Writers
  <2> QED
    BY <1>1, <2>1, <2>2 DEF ShowsLast
<1> QED
  BY <1>2, <1>3

\* The state has a field for every kind and for nothing else.
LEMMA FoldHasFields ==
  ASSUME NEW records \in Seq(Record), NEW counted
  PROVE  DOMAIN Fold(Blank, records, counted).field = Kinds
<1> DEFINE m == Len(records)
<1>1. m \in Nat
  OBVIOUS
<1>2. PICK run : /\ IsRun(run, m, Blank, records, counted)
                 /\ Fold(Blank, records, counted) = run[m]
  BY <1>1, FoldIsRun
<1> HIDE DEF m
<1> DEFINE Good == {n \in Nat : n <= m => DOMAIN run[n].field = Kinds}
<1>3. 0 \in Good
  BY <1>1, <1>2 DEF IsRun, Blank
<1>4. ASSUME NEW n \in Nat, n \in Good PROVE n + 1 \in Good
  <2> SUFFICES ASSUME n + 1 <= m PROVE DOMAIN run[n + 1].field = Kinds
    OBVIOUS
  <2>1. DOMAIN run[n].field = Kinds
    BY <1>1, <1>4
  <2>2. run[n + 1] = Pass(run[n], records, counted, n + 1)
    BY <1>1, <1>2 DEF IsRun
  <2> QED
    BY <2>1, <2>2 DEF Pass, Apply
<1>5. Nat \subseteq Good
  <2> HIDE DEF Good
  <2> QED
    BY <1>3, <1>4, InductiveSet
<1> QED
  BY <1>1, <1>2, <1>5

\* The field of a kind is what the last record of that kind wrote, among those
\* that count.
LEMMA FoldShowsLast ==
  ASSUME NEW k \in Kinds, NEW records \in Seq(Record), NEW counted
  PROVE  ShowsLast(Fold(Blank, records, counted), records,
                   Writers(records, counted, Len(records), k), k)
<1> DEFINE m == Len(records)
<1>1. m \in Nat /\ DOMAIN records = 1 .. m
  OBVIOUS
<1>2. PICK run : /\ IsRun(run, m, Blank, records, counted)
                 /\ Fold(Blank, records, counted) = run[m]
  BY <1>1, FoldIsRun
<1>3. \A n \in 1 .. m : IsTombstone(records[n]) \/ records[n].kind \in Kinds
  BY <1>1 DEF Record, IsTombstone
<1> HIDE DEF m
<1> DEFINE Good == {n \in Nat : n <= m =>
                      /\ DOMAIN run[n].field = Kinds
                      /\ ShowsLast(run[n], records, Writers(records, counted, n, k), k)}
<1>4. 0 \in Good
  <2>1. run[0] = Blank
    BY <1>1, <1>2 DEF IsRun
  <2>2. Writers(records, counted, 0, k) = {}
    BY DEF Writers
  <2> QED
    BY <2>1, <2>2 DEF ShowsLast, Blank
<1>5. ASSUME NEW n \in Nat, n \in Good PROVE n + 1 \in Good
  <2> SUFFICES ASSUME n + 1 <= m
               PROVE  /\ DOMAIN run[n + 1].field = Kinds
                      /\ ShowsLast(run[n + 1], records, Writers(records, counted, n + 1, k), k)
    OBVIOUS
  <2>1. /\ DOMAIN run[n].field = Kinds
        /\ ShowsLast(run[n], records, Writers(records, counted, n, k), k)
    BY <1>1, <1>5
  <2>2. run[n + 1] = Pass(run[n], records, counted, n + 1)
    BY <1>1, <1>2 DEF IsRun
  <2>3. IsTombstone(records[n + 1]) \/ records[n + 1].kind \in Kinds
    BY <1>1, <1>3
  <2> QED
    BY <2>1, <2>2, <2>3, PassShowsLast
<1>6. Nat \subseteq Good
  <2> HIDE DEF Good
  <2> QED
    BY <1>4, <1>5, InductiveSet
<1> QED
  BY <1>1, <1>2, <1>6 DEF m

-----------------------------------------------------------------------------
(* The live state.                                                         *)

\* Before the first process ends.
LiveInv ==
  /\ phase = "down" => crashes > 0
  /\ crashes = 0 =>
       /\ projection = Project(stream, tombstones, Len(stream))
       /\ phase = "serving" /\ checkpoint.saved =>
            /\ checkpoint.head <= Len(stream)
            /\ checkpoint.state = Project(stream, tombstones, checkpoint.head)

\* Nothing is journalled and nothing is shown at first.
LEMMA LiveInvInit == Init => LiveInv
<1> SUFFICES ASSUME Init PROVE LiveInv
  OBVIOUS
<1>1. Project(<<>>, {}, 0) = Blank
  BY FoldOfNothing DEF Project
<1>2. Len(<<>>) = 0
  OBVIOUS
<1> QED
  BY <1>1, <1>2 DEF Init, LiveInv

\* What both layers of JournalProofs say of a process that is up.
LEMMA StreamIsNumbered ==
  ASSUME FileInv, CommitInv, phase # "down"
  PROVE  /\ stream \in Seq(Record) /\ Numbered(stream)
         /\ Len(stream) + 1 \notin tombstones
         /\ watermark <= Len(stream) /\ watermark \in Nat
<1>1. stream = journalFile /\ tombstones = Targets(journalFile)
  BY DEF FileInv, MarksMatchJournal
<1>2. Len(journalFile) \in Nat /\ checkpoint.watermark \in Nat
  BY DEF FileInv, TypeOK, CheckpointType
<1>3. watermark <= Len(stream)
  BY <1>1, <1>2 DEF CommitInv, FileInv, TypeOK
<1> QED
  BY <1>1, <1>2, <1>3 DEF FileInv, FileNumbered, Numbered, CommitInv, TypeOK

\* Every step keeps the live state and the one of the checkpoint in line with
\* the history.
LEMMA LiveInvStep ==
  ASSUME SavesHold, FileInv, CommitInv, LiveInv, [Next]_vars PROVE LiveInv'
<1> USE DEF SavesHold
<1>1. ASSUME NEW kind \in Kinds, NEW value \in Values, AppendRecord(kind, value)
      PROVE  LiveInv'
  <2> DEFINE record == NextRecord(kind, value)
  <2>1. /\ phase = "serving" /\ phase' = "serving"
        /\ stream' = Append(stream, record)
        /\ projection' = Apply(projection, record)
        /\ UNCHANGED <<tombstones, checkpoint, crashes>>
    BY <1>1 DEF AppendRecord
  <2>2. record \in Record /\ record.seq = Len(stream) + 1
    BY NextRecordType DEF FileInv
  <2> HIDE DEF record
  <2>3. /\ stream \in Seq(Record) /\ Numbered(stream)
        /\ Len(stream) + 1 \notin tombstones
    BY <2>1, StreamIsNumbered
  <2>4. Len(stream') = Len(stream) + 1 /\ Len(stream) \in Nat
    BY <2>1, <2>2, <2>3
  <2>5. Project(stream', tombstones, Len(stream'))
          = Apply(Project(stream, tombstones, Len(stream)), record)
    BY <2>1, <2>2, <2>3, <2>4, NextHistory
  <2>6. ASSUME crashes = 0, checkpoint.saved
        PROVE  /\ checkpoint.head <= Len(stream)
               /\ checkpoint.state = Project(stream', tombstones, checkpoint.head)
    <3>1. /\ checkpoint.head \in 0 .. Len(stream)
          /\ checkpoint.state = Project(stream, tombstones, checkpoint.head)
      BY <2>1, <2>4, <2>6 DEF LiveInv, FileInv, TypeOK, CheckpointType
    <3>2. Project(stream', tombstones, checkpoint.head)
            = Project(stream, tombstones, checkpoint.head)
      BY <2>1, <2>2, <2>3, <3>1, EarlierHistory
    <3> QED
      BY <3>1, <3>2
  <2> QED
    BY <2>1, <2>4, <2>5, <2>6 DEF LiveInv, FileInv, TypeOK, CheckpointType
<1>2. ASSUME NEW target \in 0 .. MaxRecords, Commit(target)
      PROVE  LiveInv'
  <2>1. /\ phase = "serving" /\ phase' = "serving"
        /\ checkpoint' = [saved |-> TRUE, watermark |-> target,
                          head |-> Len(stream), state |-> projection]
        /\ UNCHANGED <<stream, tombstones, projection, crashes>>
    BY <1>2 DEF Commit, SaveCheckpoint
  <2>2. Len(stream) \in Nat
    BY DEF FileInv, TypeOK
  <2> QED
    BY <2>1, <2>2 DEF LiveInv
<1>3. ASSUME NEW seq \in 1 .. MaxRecords, Rollback(seq)
      PROVE  LiveInv'
  <2> DEFINE tombstone == NextRecord(Tombstone, seq)
  <2>1. /\ phase = "serving" /\ phase' = "rolledback"
        /\ stream' = Append(stream, tombstone)
        /\ watermark' = tombstone.seq
        /\ projection' = Project(stream', tombstones', watermark')
    BY <1>3 DEF Rollback, Rebuild
  <2>2. tombstone \in Record /\ tombstone.seq = Len(stream) + 1
    <3>1. seq \in Nat \ {0}
      BY BoundsAssumption
    <3> QED
      BY <3>1, NextRecordType DEF FileInv
  <2> HIDE DEF tombstone
  <2>3. Len(stream') = Len(stream) + 1
    BY <2>1, <2>2 DEF FileInv, TypeOK
  <2> QED
    BY <2>1, <2>2, <2>3 DEF LiveInv
<1>4. ASSUME NEW seq \in 1 .. MaxRecords, RollbackRaises(seq)
      PROVE  LiveInv'
  <2>1. phase = "serving" /\ NextRecord(Tombstone, seq).seq < watermark
    BY <1>4 DEF RollbackRaises
  <2>2. watermark <= Len(stream) /\ watermark \in Nat /\ Len(stream) \in Nat
    BY <2>1, StreamIsNumbered DEF FileInv, TypeOK
  <2>3. NextRecord(Tombstone, seq).seq = Len(stream) + 1
    BY DEF NextRecord
  <2> QED
    BY <2>1, <2>2, <2>3
<1>5. ASSUME FinishRollback
      PROVE  LiveInv'
  <2>1. /\ phase = "rolledback" /\ phase' = "serving"
        /\ checkpoint' = [saved |-> TRUE, watermark |-> Len(stream),
                          head |-> Len(stream), state |-> projection]
        /\ UNCHANGED <<stream, tombstones, projection, crashes>>
    BY <1>5 DEF FinishRollback, SaveCheckpoint
  <2>2. Len(stream) \in Nat
    BY DEF FileInv, TypeOK
  <2> QED
    BY <2>1, <2>2 DEF LiveInv
<1>6. ASSUME Crash
      PROVE  LiveInv'
  BY <1>6 DEF Crash, LiveInv, FileInv, TypeOK
<1>7. ASSUME Resume
      PROVE  LiveInv'
  BY <1>7 DEF Resume, LiveInv
<1>8. ASSUME StartBlank
      PROVE  LiveInv'
  BY <1>8 DEF StartBlank, LiveInv
<1>9. ASSUME UNCHANGED vars
      PROVE  LiveInv'
  BY <1>9 DEF vars, memory, durable, LiveInv, Project, UpTo, Kept
<1> QED
  BY <1>1, <1>2, <1>3, <1>4, <1>5, <1>6, <1>7, <1>8, <1>9 DEF Next

\* All three layers hold in every reachable state.
LEMMA LiveLayer == ASSUME SavesHold PROVE Spec => [](FileInv /\ CommitInv /\ LiveInv)
<1>1. Init => FileInv /\ CommitInv /\ LiveInv
  BY FileInvInit, CommitInvInit, LiveInvInit
<1>2. FileInv /\ CommitInv /\ LiveInv /\ [Next]_vars => FileInv' /\ CommitInv' /\ LiveInv'
  BY FileInvStep, CommitInvStep, LiveInvStep DEF SavesHold, WritesHold
<1> QED
  BY <1>1, <1>2, PTL DEF Spec

\* Until the first process ends, the live state and the one of the checkpoint
\* are what the history shows whenever the watermark is at the head, after any
\* appends, commits and rollbacks.
THEOREM LiveStateIsHistory == ASSUME SavesHold PROVE Spec => []LiveIsHistory
<1>1. LiveInv => LiveIsHistory
  BY DEF LiveInv, LiveIsHistory, History
<1> QED
  BY <1>1, LiveLayer, PTL

\* Until then a record that is rolled back has no effect on the live state; a
\* crash inside a rollback is what can bring it back.
THEOREM NoEffectBeforeCrash ==
  ASSUME SavesHold PROVE Spec => [](crashes = 0 => NoEffectOfRolledBack)
<1>1. FileInv /\ CommitInv /\ LiveInv => (crashes = 0 => NoEffectOfRolledBack)
  <2> SUFFICES ASSUME FileInv, CommitInv, LiveInv, crashes = 0, phase = "serving",
                      NEW k \in Kinds, projection.field[k] # Unset
               PROVE  \E i \in DOMAIN stream :
                        /\ stream[i].kind = k /\ stream[i].payload = projection.field[k]
                        /\ stream[i].seq \notin tombstones
    BY DEF NoEffectOfRolledBack
  <2> DEFINE counted == UpTo(stream, Len(stream)) \cap Kept(stream, tombstones)
  <2>1. stream \in Seq(Record)
    BY DEF FileInv, TypeOK
  <2>2. projection = Fold(Blank, stream, counted)
    BY DEF LiveInv, Project
  <2>3. counted \subseteq {i \in DOMAIN stream : stream[i].seq \notin tombstones}
    BY DEF Kept
  <2> HIDE DEF counted
  <2>4. ShowsLast(projection, stream, Writers(stream, counted, Len(stream), k), k)
    BY <2>1, <2>2, FoldShowsLast
  <2> QED
    BY <2>3, <2>4 DEF ShowsLast, Writers
<1> QED
  BY <1>1, LiveLayer, PTL

-----------------------------------------------------------------------------
(* What readers of the history see.                                        *)

\* A step leaves the file alone or adds a record with the next number.
LEMMA FileGrows ==
  ASSUME WritesHold, FileInv, [Next]_vars
  PROVE  \/ journalFile' = journalFile
         \/ \E record \in Record : /\ record.seq = Len(journalFile) + 1
                                   /\ journalFile' = Append(journalFile, record)
<1>1. ASSUME NEW kind \in Kinds, NEW value \in Values, AppendRecord(kind, value)
      PROVE  \E record \in Record : /\ record.seq = Len(journalFile) + 1
                                    /\ journalFile' = Append(journalFile, record)
  BY <1>1, NextRecordType DEF AppendRecord, WriteLine, WritesHold, FileInv
<1>2. ASSUME NEW seq \in 1 .. MaxRecords, Rollback(seq) \/ RollbackRaises(seq)
      PROVE  \E record \in Record : /\ record.seq = Len(journalFile) + 1
                                    /\ journalFile' = Append(journalFile, record)
  <2>1. seq \in Nat \ {0}
    BY BoundsAssumption
  <2>2. /\ NextRecord(Tombstone, seq) \in Record
        /\ NextRecord(Tombstone, seq).seq = Len(stream) + 1
    BY <2>1, NextRecordType DEF FileInv
  <2> QED
    BY <1>2, <2>2 DEF Rollback, RollbackRaises, WriteLine, WritesHold, FileInv
<1>3. ASSUME NEW target \in 0 .. MaxRecords, Commit(target)
      PROVE  journalFile' = journalFile
  BY <1>3 DEF Commit
<1>4. ASSUME FinishRollback \/ Crash \/ Resume \/ StartBlank \/ UNCHANGED vars
      PROVE  journalFile' = journalFile
  BY <1>4 DEF FinishRollback, Crash, Resume, StartBlank, vars, durable
<1> QED
  BY <1>1, <1>2, <1>3, <1>4 DEF Next

\* What was shown at a committed watermark is shown again, until a record is
\* rolled back: through appends, commits that fail, crashes and restarts.
THEOREM HistoryStays == ASSUME WritesHold PROVE Spec => HistoryIsStable
<1>1. ASSUME FileInv, FileInv', MarkInv, [Next]_vars,
             NEW limit \in 0 .. checkpoint.watermark
      PROVE  Project(BySeq(journalFile'), Targets(journalFile), limit)
               = Project(BySeq(journalFile), Targets(journalFile), limit)
  <2>1. /\ BySeq(journalFile) = journalFile /\ BySeq(journalFile') = journalFile'
        /\ Numbered(journalFile) /\ journalFile \in Seq(Record)
    <3>1. \A i \in DOMAIN journalFile' : journalFile'[i].seq = i
      BY <1>1 DEF FileInv, FileNumbered
    <3>2. DOMAIN journalFile \subseteq Nat /\ DOMAIN journalFile' \subseteq Nat
      BY <1>1 DEF FileInv, TypeOK
    <3> QED
      BY <1>1, <3>1, <3>2, LoadKeepsNumberedFile DEF FileInv, FileNumbered, Numbered, TypeOK
  <2>2. limit \in 0 .. Len(journalFile)
    BY <1>1 DEF MarkInv, FileInv, TypeOK, CheckpointType
  <2>3. CASE journalFile' = journalFile
    BY <2>3
  <2>4. ASSUME NEW record \in Record, record.seq = Len(journalFile) + 1,
               journalFile' = Append(journalFile, record)
        PROVE  Project(journalFile', Targets(journalFile), limit)
                 = Project(journalFile, Targets(journalFile), limit)
    BY <2>1, <2>2, <2>4, EarlierHistory
  <2> QED
    BY <1>1, <2>1, <2>3, <2>4, FileGrows
<1>2. FileInv /\ FileInv' /\ MarkInv /\ [Next]_vars =>
        [ \A limit \in 0 .. checkpoint.watermark :
            Targets(journalFile') = Targets(journalFile) =>
              Project(BySeq(journalFile'), Targets(journalFile), limit)
                = Project(BySeq(journalFile), Targets(journalFile), limit) ]_vars
  BY <1>1
<1> QED
  BY <1>2, MarkLayer, PTL DEF Spec, HistoryIsStable

\* What a reader of a running process sees at any watermark is, for every kind,
\* what the last record wrote that has a number up to there and counts.
THEOREM HistoryShowsLast ==
  ASSUME WritesHold
  PROVE  Spec => [](phase # "down" =>
           \A limit \in Nat, k \in Kinds :
             ShowsLast(History(limit), stream,
               {i \in DOMAIN stream : /\ i <= limit /\ i \notin tombstones
                                      /\ stream[i].kind = k}, k))
<1>1. FileInv => (phase # "down" =>
           \A limit \in Nat, k \in Kinds :
             ShowsLast(History(limit), stream,
               {i \in DOMAIN stream : /\ i <= limit /\ i \notin tombstones
                                      /\ stream[i].kind = k}, k))
  <2> SUFFICES ASSUME FileInv, phase # "down", NEW limit \in Nat, NEW k \in Kinds
               PROVE  ShowsLast(History(limit), stream,
                        {i \in DOMAIN stream : /\ i <= limit /\ i \notin tombstones
                                               /\ stream[i].kind = k}, k)
    OBVIOUS
  <2> DEFINE counted == UpTo(stream, limit) \cap Kept(stream, tombstones)
  <2>1. stream \in Seq(Record) /\ DOMAIN stream = 1 .. Len(stream) /\ Len(stream) \in Nat
    BY DEF FileInv, TypeOK
  <2>2. \A i \in DOMAIN stream : stream[i].seq = i
    BY DEF FileInv, FileNumbered
  <2>3. counted = {i \in DOMAIN stream : i <= limit /\ i \notin tombstones}
    BY <2>1, <2>2 DEF UpTo, Kept
  <2>4. Writers(stream, counted, Len(stream), k)
          = {i \in DOMAIN stream : /\ i <= limit /\ i \notin tombstones
                                   /\ stream[i].kind = k}
    BY <2>1, <2>3 DEF Writers
  <2>5. ShowsLast(Fold(Blank, stream, counted), stream,
                  Writers(stream, counted, Len(stream), k), k)
    BY <2>1, FoldShowsLast
  <2> QED
    BY <2>4, <2>5 DEF History, Project
<1> QED
  BY <1>1, MarkLayer, PTL

-----------------------------------------------------------------------------
(* What a restart, a rollback and any other step show.  The other modules  *)
(* keep no records: their saved, stream and journalled values stand for    *)
(* what is proved here.                                                    *)

\* A line of the file wrote what a field of the state has.
FromFile(state) ==
  /\ DOMAIN state.field = Kinds
  /\ \A k \in Kinds : state.field[k] # Unset =>
       \E i \in DOMAIN journalFile : /\ journalFile[i].kind = k
                                     /\ journalFile[i].payload = state.field[k]

ShownInv ==
  /\ FromFile(projection) /\ FromFile(checkpoint.state)
  /\ ~ checkpoint.saved => checkpoint.state = Blank

\* The blank state has nothing to account for.
LEMMA BlankFromFile == FromFile(Blank)
  BY DEF FromFile, Blank

\* What a longer file accounts for.
LEMMA FromLongerFile ==
  ASSUME WritesHold, FileInv, [Next]_vars, NEW state, FromFile(state)
  PROVE  /\ DOMAIN state.field = Kinds
         /\ \A k \in Kinds : state.field[k] # Unset =>
              \E i \in DOMAIN journalFile' : /\ journalFile'[i].kind = k
                                             /\ journalFile'[i].payload = state.field[k]
<1>1. \A i \in DOMAIN journalFile :
        i \in DOMAIN journalFile' /\ journalFile'[i] = journalFile[i]
  BY FileGrows DEF FileInv, TypeOK
<1> QED
  BY <1>1 DEF FromFile

\* What a rollback rebuilds: the last of all lines that count, of each kind,
\* those of requests that were cut off before their commit included.
LEMMA RebuiltFromFile ==
  ASSUME WritesHold, FileInv, FileInv', NEW seq \in 1 .. MaxRecords, Rollback(seq)
  PROVE  /\ DOMAIN projection'.field = Kinds
         /\ \A k \in Kinds :
              ShowsLast(projection', journalFile',
                {i \in DOMAIN journalFile' : /\ i \notin Targets(journalFile')
                                             /\ journalFile'[i].kind = k}, k)
<1>1. /\ phase' = "rolledback" /\ phase = "serving"
      /\ stream' = Append(stream, NextRecord(Tombstone, seq))
      /\ watermark' = NextRecord(Tombstone, seq).seq
      /\ projection' = Project(stream', tombstones', watermark')
  BY DEF Rollback, Rebuild
<1>2. /\ stream' \in Seq(Record) /\ stream' = journalFile'
      /\ tombstones' = Targets(journalFile')
      /\ \A i \in DOMAIN stream' : stream'[i].seq = i
  BY <1>1 DEF FileInv, TypeOK, FileNumbered, MarksMatchJournal
<1>3. watermark' = Len(stream') /\ DOMAIN stream' = 1 .. Len(stream') /\ Len(stream') \in Nat
  <2> DEFINE tombstone == NextRecord(Tombstone, seq)
  <2>1. stream \in Seq(Record) /\ tombstone.seq = Len(stream) + 1
    BY DEF FileInv, TypeOK, NextRecord
  <2>2. tombstone \in Record
    BY NextRecordType, BoundsAssumption DEF FileInv
  <2> HIDE DEF tombstone
  <2>3. stream' = Append(stream, tombstone) /\ watermark' = tombstone.seq
    BY <1>1 DEF tombstone
  <2> QED
    BY <2>1, <2>2, <2>3
<1> DEFINE counted == UpTo(stream', watermark') \cap Kept(stream', tombstones')
<1>4. counted = {i \in DOMAIN stream' : i \notin tombstones'}
  BY <1>2, <1>3 DEF UpTo, Kept
<1>5. ASSUME NEW k \in Kinds
      PROVE  Writers(stream', counted, Len(stream'), k)
               = {i \in DOMAIN journalFile' : /\ i \notin Targets(journalFile')
                                              /\ journalFile'[i].kind = k}
  BY <1>2, <1>3, <1>4 DEF Writers
<1> HIDE DEF counted
<1>6. /\ DOMAIN Fold(Blank, stream', counted).field = Kinds
      /\ \A k \in Kinds : ShowsLast(Fold(Blank, stream', counted), stream',
                                     Writers(stream', counted, Len(stream'), k), k)
  BY <1>2, FoldShowsLast, FoldHasFields
<1>7. projection' = Fold(Blank, stream', counted)
  BY <1>1 DEF Project, counted
<1> QED
  BY <1>2, <1>5, <1>6, <1>7

\* A restart replays nothing over the state of the checkpoint: that was taken
\* at the watermark the replay starts from.
LEMMA ResumesFromCheckpoint ==
  ASSUME FileInv, ShownInv, Resume PROVE projection' = checkpoint.state
<1>1. stream' = journalFile
  BY LoadKeepsNumberedFile DEF Resume, FileInv, FileNumbered, TypeOK
<1>2. /\ Len(journalFile) \in Nat /\ DOMAIN journalFile = 1 .. Len(journalFile)
      /\ \A i \in DOMAIN journalFile : journalFile[i].seq \in Nat \ {0}
  BY DEF FileInv, TypeOK, Record
<1>3. CASE checkpoint.saved
  <2> DEFINE counted == {i \in Kept(stream', tombstones') :
                           /\ stream'[i].seq > checkpoint.watermark
                           /\ stream'[i].seq <= checkpoint.watermark}
  <2>1. projection' = Fold(checkpoint.state, stream', counted)
    BY <1>3 DEF Resume, Replay
  <2>2. counted = {}
    BY <1>1, <1>2 DEF Kept, FileInv, TypeOK, CheckpointType
  <2> HIDE DEF counted
  <2> QED
    BY <1>1, <1>2, <2>1, <2>2, FoldOfNone
<1>4. CASE ~ checkpoint.saved
  <2> DEFINE counted == UpTo(stream', 0) \cap Kept(stream', tombstones')
  <2>1. projection' = Fold(Blank, stream', counted)
    BY <1>4 DEF Resume, Project
  <2>2. counted = {}
    BY <1>1, <1>2 DEF UpTo
  <2> HIDE DEF counted
  <2> QED
    BY <1>1, <1>2, <1>4, <2>1, <2>2, FoldOfNone DEF ShownInv
<1> QED
  BY <1>3, <1>4

\* Every step shows only what a line of the file has written.
LEMMA ShownInvStep ==
  ASSUME WritesHold, FileInv, FileInv', ShownInv, [Next]_vars PROVE ShownInv'
<1>1. ASSUME projection' \in {projection, checkpoint.state, Blank},
             checkpoint' = checkpoint
      PROVE  ShownInv'
  <2>1. FromFile(projection') /\ FromFile(checkpoint.state)
    BY <1>1, BlankFromFile DEF ShownInv
  <2> QED
    BY <1>1, <2>1, FromLongerFile DEF ShownInv, FromFile
<1>2. ASSUME checkpoint' = checkpoint, NEW record \in Record,
             journalFile' = Append(journalFile, record),
             projection' = Apply(projection, record)
      PROVE  ShownInv'
  <2>1. /\ DOMAIN projection.field = Kinds
        /\ \A k \in Kinds : projection.field[k] # Unset =>
             \E i \in DOMAIN journalFile' : /\ journalFile'[i].kind = k
                                            /\ journalFile'[i].payload = projection.field[k]
    BY FromLongerFile DEF ShownInv
  <2>2. /\ Len(journalFile') \in DOMAIN journalFile'
        /\ journalFile'[Len(journalFile')] = record
    BY <1>2 DEF FileInv, TypeOK
  <2>3. IsTombstone(record) \/ record.kind \in Kinds
    BY DEF Record, IsTombstone
  <2>4. FromFile(projection)'
    <3>1. DOMAIN projection'.field = Kinds
      BY <1>2, <2>1 DEF Apply
    <3>2. ASSUME NEW k \in Kinds, projection'.field[k] # Unset
          PROVE  \E i \in DOMAIN journalFile' : /\ journalFile'[i].kind = k
                                                /\ journalFile'[i].payload = projection'.field[k]
      <4>1. CASE ~ IsTombstone(record) /\ record.kind = k
        BY <1>2, <2>1, <2>2, <4>1 DEF Apply
      <4>2. CASE ~ (~ IsTombstone(record) /\ record.kind = k)
        <5>1. projection'.field[k] = projection.field[k]
          BY <1>2, <2>1, <4>2 DEF Apply
        <5> QED
          BY <2>1, <3>2, <5>1
      <4> QED
        BY <4>1, <4>2
    <3> QED
      BY <3>1, <3>2 DEF FromFile
  <2>5. FromFile(checkpoint.state)'
    BY <1>2, FromLongerFile DEF ShownInv, FromFile
  <2> QED
    BY <1>2, <2>4, <2>5 DEF ShownInv
<1>3. ASSUME NEW target, SaveCheckpoint(target), projection' = projection
      PROVE  ShownInv'
  <2>1. \/ checkpoint' = checkpoint
        \/ checkpoint'.state = projection /\ checkpoint'.saved
    BY <1>3 DEF SaveCheckpoint
  <2>2. CASE checkpoint' = checkpoint
    BY <1>1, <1>3, <2>2
  <2>3. CASE checkpoint'.state = projection /\ checkpoint'.saved
    <3>1. FromFile(projection)'
      BY <1>3, FromLongerFile DEF ShownInv, FromFile
    <3> QED
      BY <1>3, <2>3, <3>1 DEF ShownInv, FromFile
  <2> QED
    BY <2>1, <2>2, <2>3
<1>4. ASSUME NEW kind \in Kinds, NEW value \in Values, AppendRecord(kind, value)
      PROVE  ShownInv'
  BY <1>2, <1>4, NextRecordType DEF AppendRecord, WriteLine, WritesHold, FileInv
<1>5. ASSUME NEW seq \in 1 .. MaxRecords, Rollback(seq)
      PROVE  ShownInv'
  <2>1. checkpoint' = checkpoint
    BY <1>5 DEF Rollback
  <2>2. FromFile(projection)'
    BY <1>5, RebuiltFromFile DEF ShowsLast, FromFile
  <2>3. FromFile(checkpoint.state)'
    BY <2>1, FromLongerFile DEF ShownInv, FromFile
  <2> QED
    BY <2>1, <2>2, <2>3 DEF ShownInv
<1>6. ASSUME NEW seq \in 1 .. MaxRecords, RollbackRaises(seq)
      PROVE  ShownInv'
  <2>1. seq \in Nat \ {0}
    BY BoundsAssumption
  <2>2. NextRecord(Tombstone, seq) \in Record
    BY <2>1, NextRecordType DEF FileInv
  <2> QED
    BY <1>2, <1>6, <2>2 DEF RollbackRaises, WriteLine, WritesHold
<1>7. ASSUME NEW target \in 0 .. MaxRecords, Commit(target)
      PROVE  ShownInv'
  BY <1>3, <1>7 DEF Commit
<1>8. ASSUME FinishRollback
      PROVE  ShownInv'
  BY <1>3, <1>8 DEF FinishRollback
<1>9. ASSUME Resume
      PROVE  ShownInv'
  BY <1>1, <1>9, ResumesFromCheckpoint DEF Resume, durable
<1>10. ASSUME Crash \/ StartBlank \/ UNCHANGED vars
      PROVE  ShownInv'
  BY <1>1, <1>10 DEF Crash, StartBlank, vars, memory, durable
<1> QED
  BY <1>4, <1>5, <1>6, <1>7, <1>8, <1>9, <1>10 DEF Next

\* The layer of what is shown, on top of that of the file.
LEMMA ShownLayer == ASSUME WritesHold PROVE Spec => [](FileInv /\ ShownInv)
<1>1. Init => FileInv /\ ShownInv
  <2>1. Init => ShownInv
    BY BlankFromFile DEF Init, ShownInv
  <2> QED
    BY <2>1, FileInvInit
<1>2. FileInv /\ ShownInv /\ [Next]_vars => FileInv' /\ ShownInv'
  BY FileInvStep, ShownInvStep
<1> QED
  BY <1>1, <1>2, PTL DEF Spec

\* No field ever has a value, live or in the checkpoint, that no line of the
\* journal gave it: through any crashes, restarts, rollbacks and failed
\* checkpoint writes.
THEOREM ShownWasJournalled ==
  ASSUME WritesHold
  PROVE  Spec => [](FromFile(projection) /\ FromFile(checkpoint.state))
<1>1. ShownInv => FromFile(projection) /\ FromFile(checkpoint.state)
  BY DEF ShownInv
<1> QED
  BY <1>1, ShownLayer, PTL

\* A restart shows exactly the state of the checkpoint: what a request that did
\* not commit had appended shows only after a rollback.
THEOREM RestartShowsCheckpoint ==
  ASSUME WritesHold PROVE Spec => [][Resume => projection' = checkpoint.state]_vars
<1>1. FileInv /\ ShownInv /\ [Next]_vars => [Resume => projection' = checkpoint.state]_vars
  BY ResumesFromCheckpoint
<1> QED
  BY <1>1, ShownLayer, PTL DEF Spec

\* A rollback shows, of every kind, the last line of the whole journal that is
\* not rolled back: whatever happened before, a record that is rolled back has
\* no effect on it, and one that no request committed has.
THEOREM RollbackShowsJournal ==
  ASSUME WritesHold
  PROVE  Spec => [][ \A seq \in 1 .. MaxRecords : Rollback(seq) =>
           \A k \in Kinds :
             ShowsLast(projection', journalFile',
               {i \in DOMAIN journalFile' : /\ i \notin Targets(journalFile')
                                            /\ journalFile'[i].kind = k}, k) ]_vars
<1>1. FileInv /\ FileInv' /\ [Next]_vars =>
        [ \A seq \in 1 .. MaxRecords : Rollback(seq) =>
            \A k \in Kinds :
              ShowsLast(projection', journalFile',
                {i \in DOMAIN journalFile' : /\ i \notin Targets(journalFile')
                                             /\ journalFile'[i].kind = k}, k) ]_vars
  BY RebuiltFromFile
<1> QED
  BY <1>1, ShownLayer, PTL DEF Spec
=============================================================================
