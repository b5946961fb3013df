------------------------- MODULE FlightStatus_proofs -------------------------
(***************************************************************************)
(* What FlightStatus promises for any number of updates, flights and       *)
(* processes.  The rows of a flight are used through four operators only,  *)
(* Committed, Precedes, Current and Before (and Follows); the first part   *)
(* says what one more version of a row does to them.  The rest is about    *)
(* when updates ran at the same time: what is shown, announced or recorded *)
(* differs from the last state only by updates that overlapped.            *)
(***************************************************************************)
EXTENDS FlightStatus, SequenceTheorems, TLAPS

-----------------------------------------------------------------------------
(* The rows. *)

LEMMA UpdateType ==
  ASSUME NEW u \in Updates
  PROVE  FlightOf(u) \in Flights /\ Host(u) \in Processes /\ Call[u].gate \in Gates
         /\ Call[u].tenant \in Tenants
BY CallAssumption DEF CallType, FlightOf, Host

LEMMA RowType ==
  ASSUME TypeOK, NEW f \in Flights
  PROVE  /\ Len(rows[f]) \in Nat /\ DOMAIN rows[f] = 1..Len(rows[f])
         /\ \A i \in 1..Len(rows[f]) : rows[f][i] \in Updates
BY LenProperties, ElementOfSeq DEF TypeOK

(* What holds of the operators in any state. *)
LEMMA RowFacts ==
  ASSUME TypeOK, RowsOnce
  PROVE  /\ \A u \in Updates : FlightOf(u) \in Flights
         /\ \A f \in Flights : Current(f) \in Updates =>
              Committed(Current(f)) /\ FlightOf(Current(f)) = f
         /\ \A f \in Flights : Current(f) \in Updates \cup {Created}
         /\ \A u, v \in Updates : Precedes(v, u) =>
              Committed(u) /\ Committed(v) /\ FlightOf(u) = FlightOf(v)
         /\ \A u, v \in Updates :
              Committed(u) /\ Committed(v) /\ FlightOf(u) = FlightOf(v) =>
                Follows(v, u) \/ Precedes(v, u)
         /\ \A u \in Updates : Committed(u) => Follows(u, u)
<1>1. \A u \in Updates : FlightOf(u) \in Flights
  BY UpdateType
<1>2. ASSUME NEW f \in Flights
      PROVE  /\ Current(f) \in Updates \cup {Created}
             /\ Current(f) \in Updates => Committed(Current(f)) /\ FlightOf(Current(f)) = f
  <2>1. CASE rows[f] = <<>>
    BY <2>1, MarkAssumption DEF Current
  <2>2. CASE rows[f] # <<>>
    <3>1. Len(rows[f]) \in 1..Len(rows[f]) /\ Len(rows[f]) \in DOMAIN rows[f]
      BY <2>2, RowType, EmptySeq DEF TypeOK
    <3>2. Current(f) = rows[f][Len(rows[f])] /\ Current(f) \in Updates
      BY <2>2, <3>1, RowType DEF Current
    <3>3. FlightOf(Current(f)) = f
      BY <3>1, <3>2 DEF RowsOnce
    <3> QED
      BY <3>1, <3>2, <3>3 DEF Committed
  <2> QED
    BY <2>1, <2>2
<1>3. ASSUME NEW u \in Updates, NEW v \in Updates, Precedes(v, u)
      PROVE  Committed(u) /\ Committed(v) /\ FlightOf(u) = FlightOf(v)
  BY <1>1, <1>3 DEF Precedes, Committed, RowsOnce
<1>4. ASSUME NEW u \in Updates, NEW v \in Updates, Committed(u), Committed(v),
             FlightOf(u) = FlightOf(v)
      PROVE  Follows(v, u) \/ Precedes(v, u)
  <2>1. PICK i \in DOMAIN rows[FlightOf(u)] : rows[FlightOf(u)][i] = u
    BY <1>4 DEF Committed
  <2>2. PICK j \in DOMAIN rows[FlightOf(u)] : rows[FlightOf(u)][j] = v
    BY <1>4 DEF Committed
  <2>3. i \in Nat /\ j \in Nat
    BY <1>1, <2>1, <2>2, RowType
  <2>4. i <= j \/ j < i
    BY <2>3
  <2> QED
    BY <2>1, <2>2, <2>4 DEF Follows, Precedes
<1>5. ASSUME NEW u \in Updates, Committed(u) PROVE Follows(u, u)
  <2>1. PICK i \in DOMAIN rows[FlightOf(u)] : rows[FlightOf(u)][i] = u
    BY <1>5 DEF Committed
  <2>2. i <= i
    BY <1>1, <2>1, RowType
  <2> QED
    BY <2>1, <2>2 DEF Follows
<1> QED
  BY <1>1, <1>2, <1>3, <1>4, <1>5

(* What changes no row changes nothing that is read from it. *)
SameRows ==
  /\ \A u : Committed(u)' = Committed(u)
  /\ \A u, v : Precedes(v, u)' = Precedes(v, u) /\ Follows(v, u)' = Follows(v, u)
  /\ \A f : Current(f)' = Current(f)
  /\ \A u : Before(u)' = Before(u)
LEMMA SameRowFacts ==
  ASSUME rows' = rows
  PROVE  SameRows /\ RowsOnce' = RowsOnce
BY DEF SameRows, RowsOnce, Committed, Precedes, Follows, Current, Before

(* A step that changes no row, no snapshot and lets no update past the      *)
(* snapshot keeps what is known of snapshots.                              *)
LEMMA OldOrOverlapKept ==
  ASSUME TypeOK, OldOrOverlap, SameRows, old' = old, overlap \subseteq overlap',
         \A v \in Updates : pc'[v] = "update" => pc[v] = "update"
  PROVE  OldOrOverlap'
<1> SUFFICES ASSUME NEW v \in Updates
             PROVE  /\ pc'[v] = "update" =>
                         Current(FlightOf(v))' = old'[v] \/ {Current(FlightOf(v))', v} \in overlap'
                    /\ Committed(v)' => Before(v)' = old'[v] \/ {Before(v)', v} \in overlap'
  BY DEF OldOrOverlap
<1>1. Current(FlightOf(v))' = Current(FlightOf(v))
  BY DEF SameRows, FlightOf
<1>2. Before(v)' = Before(v) /\ Committed(v)' = Committed(v)
  BY DEF SameRows
<1>3. pc[v] = "update" => Current(FlightOf(v)) = old[v] \/ {Current(FlightOf(v)), v} \in overlap
  BY DEF OldOrOverlap
<1>4. Committed(v) => Before(v) = old[v] \/ {Before(v), v} \in overlap
  BY DEF OldOrOverlap
<1> QED
  BY <1>1, <1>2, <1>3, <1>4

(* What a further version of a row, written by u, does change. *)
AppendedTo(u) ==
  /\ rows' # rows
  /\ \A v \in Updates : Committed(v)' <=> Committed(v) \/ v = u
  /\ \A v, w \in Updates : Precedes(v, w)' <=>
       Precedes(v, w) \/ (w = u /\ Committed(v) /\ FlightOf(v) = FlightOf(u))
  /\ \A v : \A w \in Updates : Follows(v, w) => Follows(v, w)'
  /\ \A f \in Flights : Current(f)' = IF f = FlightOf(u) THEN u ELSE Current(f)
  /\ Before(u)' = Current(FlightOf(u))
  /\ \A v \in Updates : Committed(v) => Before(v)' = Before(v)

(* Before reads the place of an update in a row that holds it once. *)
BeforeIn(h, u) ==
  LET i == CHOOSE i \in DOMAIN h : h[i] = u IN IF i = 1 THEN Created ELSE h[i - 1]
LEMMA BeforeAt ==
  ASSUME NEW h, NEW i \in DOMAIN h, \A j \in DOMAIN h : h[i] = h[j] => i = j
  PROVE  BeforeIn(h, h[i]) = IF i = 1 THEN Created ELSE h[i - 1]
<1>1. (CHOOSE j \in DOMAIN h : h[j] = h[i]) = i
  OBVIOUS
<1> QED
  BY <1>1 DEF BeforeIn

LEMMA AppendFacts ==
  ASSUME TypeOK, RowsOnce, NEW u \in Updates, ~Committed(u), Append1(u)
  PROVE  /\ rows' \in [Flights -> Seq(Updates)]
         /\ RowsOnce' /\ AppendedTo(u)
<1>1. PICK f \in Flights : f = FlightOf(u)
  BY UpdateType
<1>2. PICK h \in Seq(Updates) : h = rows[f]
  BY DEF TypeOK
<1>3. PICK n \in Nat : n = Len(h) /\ DOMAIN h = 1..n /\ (n = 0 <=> h = <<>>)
  BY <1>2, LenProperties, EmptySeq
<1>4. PICK k \in Seq(Updates) : k = Append(h, u)
  BY <1>2, AppendProperties
<1>5. /\ rows' \in [Flights -> Seq(Updates)]
      /\ rows'[f] = k /\ \A g \in Flights \ {f} : rows'[g] = rows[g]
  BY <1>1, <1>2, <1>4 DEF Append1, TypeOK
<1>6. /\ Len(k) = n + 1 /\ DOMAIN k = 1..(n + 1) /\ k[n + 1] = u
      /\ \A i \in 1..n : k[i] = h[i]
  BY <1>2, <1>3, <1>4, AppendProperties, LenProperties
<1>7. \A i \in 1..n : h[i] # u /\ FlightOf(h[i]) = f
  BY <1>1, <1>2, <1>3 DEF Committed, RowsOnce
<1>8. \A i, j \in 1..n : h[i] = h[j] => i = j
  BY <1>1, <1>2, <1>3 DEF RowsOnce
<1>9. /\ \A i \in 1..(n + 1) : FlightOf(k[i]) = f
      /\ \A i, j \in 1..(n + 1) : k[i] = k[j] => i = j
  <2>1. \A i \in 1..(n + 1) : i \in 1..n \/ i = n + 1
    BY <1>3
  <2> QED
    BY <2>1, <1>1, <1>6, <1>7, <1>8
<1>10. \A v \in Updates : FlightOf(v)' = FlightOf(v)
  BY DEF FlightOf
<1>11. RowsOnce'
  <2> SUFFICES ASSUME NEW g \in Flights, NEW i \in DOMAIN rows'[g]
               PROVE  /\ FlightOf(rows'[g][i]) = g
                      /\ \A j \in DOMAIN rows'[g] : rows'[g][i] = rows'[g][j] => i = j
    BY DEF RowsOnce, FlightOf
  <2>1. CASE g = f
    BY <2>1, <1>5, <1>6, <1>9
  <2>2. CASE g # f
    BY <2>2, <1>5 DEF RowsOnce
  <2> QED
    BY <2>1, <2>2
<1>12. rows' # rows
  BY <1>2, <1>3, <1>5, <1>6
<1>13. ASSUME NEW v \in Updates PROVE Committed(v)' <=> Committed(v) \/ v = u
  <2>1. Committed(v)' <=> \E i \in DOMAIN rows'[FlightOf(v)] : rows'[FlightOf(v)][i] = v
    BY DEF Committed, FlightOf
  <2>2. CASE FlightOf(v) # f
    BY <2>1, <2>2, <1>1, <1>5, UpdateType DEF Committed
  <2>3. CASE FlightOf(v) = f
    <3>1. Committed(v)' <=> \E i \in 1..(n + 1) : k[i] = v
      BY <2>1, <2>3, <1>5, <1>6
    <3>2. Committed(v) <=> \E i \in 1..n : h[i] = v
      BY <2>3, <1>2, <1>3 DEF Committed
    <3>3. (\E i \in 1..(n + 1) : k[i] = v) <=> (\E i \in 1..n : k[i] = v) \/ k[n + 1] = v
      BY <1>3
    <3> QED
      BY <3>1, <3>2, <3>3, <1>6
  <2> QED
    BY <2>2, <2>3
<1>14. ASSUME NEW v \in Updates, NEW w \in Updates
       PROVE  Precedes(v, w)' <=>
                Precedes(v, w) \/ (w = u /\ Committed(v) /\ FlightOf(v) = FlightOf(u))
  <2>1. Precedes(v, w)' <=> \E i, j \in DOMAIN rows'[FlightOf(w)] :
          i < j /\ rows'[FlightOf(w)][i] = v /\ rows'[FlightOf(w)][j] = w
    BY DEF Precedes, FlightOf
  <2>2. CASE FlightOf(w) # f
    BY <2>1, <2>2, <1>1, <1>5, UpdateType DEF Precedes
  <2>3. CASE FlightOf(w) = f
    <3>1. Precedes(v, w)' <=> \E i, j \in 1..(n + 1) : i < j /\ k[i] = v /\ k[j] = w
      BY <2>1, <2>3, <1>5, <1>6
    <3>2. Precedes(v, w) <=> \E i, j \in 1..n : i < j /\ h[i] = v /\ h[j] = w
      BY <2>3, <1>2, <1>3 DEF Precedes
    <3>3. CASE w # u
      BY <3>1, <3>2, <3>3, <1>3, <1>6
    <3>4. CASE w = u
      <4>1. ~Precedes(v, w)
        BY <3>2, <3>4, <1>7
      <4>2. (\E i, j \in 1..(n + 1) : i < j /\ k[i] = v /\ k[j] = w) <=> \E i \in 1..n : h[i] = v
        <5>1. ASSUME NEW i \in 1..(n + 1), NEW j \in 1..(n + 1), i < j, k[i] = v, k[j] = w
              PROVE  \E m \in 1..n : h[m] = v
          <6>1. i \in 1..n
            BY <1>3, <5>1
          <6> QED
            BY <5>1, <6>1, <1>6
        <5>2. ASSUME NEW i \in 1..n, h[i] = v
              PROVE  i \in 1..(n + 1) /\ n + 1 \in 1..(n + 1) /\ i < n + 1 /\ k[i] = v
                     /\ k[n + 1] = w
          BY <1>3, <1>6, <3>4, <5>2
        <5> QED
          BY <5>1, <5>2
      <4>3. (\E i \in 1..n : h[i] = v) <=> Committed(v) /\ FlightOf(v) = f
        BY <1>2, <1>3, <1>7 DEF Committed
      <4> QED
        BY <3>1, <3>4, <4>1, <4>2, <4>3, <1>1
    <3> QED
      BY <3>3, <3>4
  <2> QED
    BY <2>2, <2>3
<1>15. ASSUME NEW v, NEW w \in Updates, Follows(v, w) PROVE Follows(v, w)'
  <2>1. Follows(v, w)' <=> \E i, j \in DOMAIN rows'[FlightOf(w)] :
          i <= j /\ rows'[FlightOf(w)][i] = w /\ rows'[FlightOf(w)][j] = v
    BY DEF Follows, FlightOf
  <2>2. CASE FlightOf(w) # f
    BY <2>1, <2>2, <1>1, <1>5, <1>15, UpdateType DEF Follows
  <2>3. CASE FlightOf(w) = f
    <3>1. PICK i \in 1..n, j \in 1..n : i <= j /\ h[i] = w /\ h[j] = v
      BY <2>3, <1>2, <1>3, <1>15 DEF Follows
    <3>2. i \in 1..(n + 1) /\ j \in 1..(n + 1) /\ k[i] = w /\ k[j] = v
      BY <3>1, <1>3, <1>6
    <3> QED
      BY <2>1, <2>3, <3>1, <3>2, <1>5, <1>6
  <2> QED
    BY <2>2, <2>3
<1>16. ASSUME NEW g \in Flights
       PROVE  Current(g)' = IF g = f THEN u ELSE Current(g)
  <2>1. k # <<>>
    BY <1>3, <1>6
  <2> QED
    BY <1>5, <1>6, <2>1 DEF Current
<1>17. \A v : Before(v) = BeforeIn(rows[FlightOf(v)], v)
       /\ Before(v)' = BeforeIn(rows'[FlightOf(v)], v)
  BY DEF Before, BeforeIn, FlightOf
<1>18. Before(u)' = Current(f)
  <2>1. n + 1 \in DOMAIN k /\ \A j \in DOMAIN k : k[n + 1] = k[j] => n + 1 = j
    BY <1>3, <1>6, <1>9
  <2>2. BeforeIn(k, k[n + 1]) = IF n + 1 = 1 THEN Created ELSE k[n + 1 - 1]
    BY <2>1, BeforeAt
  <2>3. Before(u)' = BeforeIn(k, k[n + 1])
    BY <1>1, <1>5, <1>6, <1>17
  <2>4. n # 0 => k[n + 1 - 1] = h[n]
    BY <1>3, <1>6
  <2>5. n + 1 = 1 <=> n = 0
    BY <1>3
  <2>6. Current(f) = IF n = 0 THEN Created ELSE h[n]
    BY <1>2, <1>3 DEF Current
  <2> QED
    BY <2>2, <2>3, <2>4, <2>5, <2>6
<1>19. ASSUME NEW v \in Updates, Committed(v) PROVE Before(v)' = Before(v)
  <2>1. CASE FlightOf(v) # f
    <3>1. rows'[FlightOf(v)] = rows[FlightOf(v)]
      BY <1>5, <2>1, UpdateType
    <3> QED
      BY <3>1, <1>17
  <2>2. CASE FlightOf(v) = f
    <3>1. PICK i \in 1..n : h[i] = v
      BY <1>2, <1>3, <1>19, <2>2 DEF Committed
    <3>2. BeforeIn(h, h[i]) = IF i = 1 THEN Created ELSE h[i - 1]
      BY <1>3, <1>8, BeforeAt
    <3>3. i \in DOMAIN k /\ \A j \in DOMAIN k : k[i] = k[j] => i = j
      BY <1>3, <1>6, <1>9, <3>1
    <3>4. BeforeIn(k, k[i]) = IF i = 1 THEN Created ELSE k[i - 1]
      BY <3>3, BeforeAt
    <3>5. k[i] = v /\ (i # 1 => k[i - 1] = h[i - 1])
      BY <1>3, <1>6, <3>1
    <3>6. Before(v) = BeforeIn(h, h[i]) /\ Before(v)' = BeforeIn(k, k[i])
      BY <1>2, <1>5, <1>17, <2>2, <3>1, <3>5
    <3> QED
      BY <3>2, <3>4, <3>5, <3>6
  <2> QED
    BY <2>1, <2>2
<1> QED
  BY <1>1, <1>5, <1>11, <1>12, <1>13, <1>14, <1>15, <1>16, <1>18, <1>19 DEF AppendedTo

-----------------------------------------------------------------------------
(* The invariant. *)

LEMMA InitInvariant == Init => IInv
<1> SUFFICES ASSUME Init PROVE IInv
  OBVIOUS
<1>1. TypeOK
  BY EmptySeq DEF Init, TypeOK, Running, Ended
<1>2. \A f \in Flights : DOMAIN rows[f] = {}
  BY DEF Init
<1>3. RowsOnce /\ \A u \in Updates : ~Committed(u) /\ \A v : ~Precedes(v, u)
  BY <1>2, UpdateType DEF RowsOnce, Committed, Precedes
<1>4. StepMatchesRow /\ OldIsEarlier /\ OldOrOverlap /\ AnnouncedMoved
  BY <1>3, MarkAssumption
     DEF Init, StepMatchesRow, OldIsEarlier, OldOrOverlap, AnnouncedMoved
<1>5. ShownIsAudited /\ RunningOverlap /\ LateOverlap /\ CacheKept
  BY <1>3, UpdateType, MarkAssumption
     DEF Init, ShownIsAudited, Shown, RunningOverlap, LateOverlap, CacheKept, Running
<1> QED
  BY <1>1, <1>3, <1>4, <1>5 DEF IInv

(* Every step keeps the invariant. *)
LEMMA StepInvariant == IInv /\ [Next]_vars => IInv'
<1> SUFFICES ASSUME IInv, [Next]_vars PROVE IInv'
  OBVIOUS
<1> USE CallAssumption, OwnerAssumption, MarkAssumption, RowFacts
      DEF IInv, Host, FlightOf, Versions, Running, Ended
<1>1. ASSUME NEW u \in Updates, NEW c \in Updates \cup {Created}, NEW O \in SUBSET SUBSET Updates,
             pc[u] = "fetch", GoTo(u, "update"), c = Current(Call[u].flight),
             old' = [old EXCEPT ![u] = c], overlap \subseteq O,
             \A v \in Updates : Call[v].flight = Call[u].flight /\ pc[v] \in Running =>
               {u, v} \in O,
             overlap' = O, UNCHANGED <<rows, audit, cache, redis, announced, screened, disturbed>>
      PROVE  IInv'
  <2>1. rows' = rows
    BY <1>1
  <2>2. SameRows /\ RowsOnce'
    BY <2>1, SameRowFacts
  <2>3. TypeOK'
    <3>1. pc' \in [Updates -> {"fetch"} \cup Running \cup Ended]
      BY <1>1 DEF TypeOK, GoTo
    <3>2. old' \in [Updates -> Versions \cup {NoUpdate}]
          /\ audit' \in [Updates -> Versions \cup {NoUpdate}]
      BY <1>1 DEF TypeOK, GoTo
    <3>3. cache' \in [Flights -> Updates \cup {NoUpdate}] /\ redis' \in [Processes -> BOOLEAN]
      BY <1>1 DEF TypeOK, GoTo
    <3>4. announced' \subseteq Updates /\ screened' \subseteq Updates
          /\ disturbed' \subseteq Flights
      BY <1>1 DEF TypeOK, GoTo
    <3>5. overlap' \subseteq SUBSET Updates
      BY <1>1 DEF TypeOK, GoTo
    <3>6. \A v \in Updates : pc'[v] \in Running => old'[v] # NoUpdate
      BY <1>1 DEF TypeOK, GoTo
    <3> QED
      BY <2>1, <3>1, <3>2, <3>3, <3>4, <3>5, <3>6 DEF TypeOK
  <2>4. StepMatchesRow'
    BY <1>1, <2>1, <2>2 DEF TypeOK, StepMatchesRow, SameRows, GoTo
  <2>5. ShownIsAudited'
    BY <1>1, <2>1, <2>2 DEF TypeOK, ShownIsAudited, Shown, SameRows, GoTo
  <2>6. OldIsEarlier'
    <3>1. \A v \in Updates : v # u => old'[v] = old[v]
      BY <1>1 DEF TypeOK
    <3>2. old'[u] = c /\ ~Committed(u)
      BY <1>1 DEF TypeOK, StepMatchesRow
    <3>3. c \in Updates => Committed(c) /\ FlightOf(c) = FlightOf(u)
      BY <1>1
    <3> QED
      BY <2>2, <3>1, <3>2, <3>3 DEF SameRows, OldIsEarlier
  <2>7. OldOrOverlap'
    <3>1. \A v \in Updates : v # u => old'[v] = old[v] /\ pc'[v] = pc[v]
      BY <1>1 DEF TypeOK, GoTo
    <3>2. old'[u] = Current(FlightOf(u)) /\ ~Committed(u)
      BY <1>1 DEF TypeOK, StepMatchesRow
    <3>3. /\ \A v \in Updates : Current(FlightOf(v))' = Current(FlightOf(v))
          /\ \A v \in Updates : Committed(v)' = Committed(v) /\ Before(v)' = Before(v)
      BY <2>2 DEF SameRows
    <3>4. overlap \subseteq overlap'
      BY <1>1
    <3>5. \A v \in Updates : pc'[v] = "update" =>
            Current(FlightOf(v)) = old'[v] \/ {Current(FlightOf(v)), v} \in overlap
      BY <3>1, <3>2 DEF OldOrOverlap
    <3>6. \A v \in Updates : Committed(v) =>
            Before(v) = old'[v] \/ {Before(v), v} \in overlap
      BY <3>1, <3>2 DEF OldOrOverlap
    <3> QED
      BY <3>3, <3>4, <3>5, <3>6 DEF OldOrOverlap
  <2>8. AnnouncedMoved'
    BY <1>1, <2>1, <2>2 DEF TypeOK, AnnouncedMoved, GateMoved, StepMatchesRow, SameRows,
       GoTo
  <2>9. RunningOverlap'
    <3> SUFFICES ASSUME NEW v \in Updates, NEW w \in Updates, v # w, FlightOf(v) = FlightOf(w),
                        pc'[v] \in Running, pc'[w] \in Running
                 PROVE  {v, w} \in O
      BY <1>1 DEF RunningOverlap
    <3>1. \A x \in Updates : x # u => pc'[x] = pc[x]
      BY <1>1 DEF GoTo, TypeOK
    <3>2. CASE v # u /\ w # u
      BY <1>1, <3>1, <3>2 DEF RunningOverlap
    <3>3. CASE v = u
      BY <1>1, <3>1, <3>3
    <3>4. CASE w = u
      <4>1. {u, v} \in O
        BY <1>1, <3>1, <3>4
      <4>2. {u, v} = {v, w}
        BY <3>4
      <4> QED
        BY <4>1, <4>2
    <3> QED
      BY <3>2, <3>3, <3>4
  <2>10. LateOverlap'
    BY <1>1, <2>1, <2>2 DEF TypeOK, LateOverlap, SameRows, GoTo
  <2>11. CacheKept'
    <3> SUFFICES ASSUME NEW v \in Updates, NEW s, s = cache'[FlightOf(v)],
                        Committed(v)', FlightOf(v) \notin disturbed'
                 PROVE  /\ pc'[v] # "cut"
                        /\ pc'[v] \in {"audit", "cache"} \/ Follows(s, v)' \/ {s, v} \in overlap'
      BY SMTT(30) DEF CacheKept
    <3>1. Committed(v) /\ Follows(s, v)' = Follows(s, v) /\ s = cache[FlightOf(v)]
      BY <1>1, <2>2 DEF SameRows, GoTo
    <3>2. FlightOf(v) \notin disturbed /\ overlap \subseteq overlap'
      BY <1>1 DEF GoTo
    <3>3. pc[v] # "cut" /\ (pc[v] \in {"audit", "cache"} \/ Follows(s, v) \/ {s, v} \in overlap)
      BY <3>1, <3>2 DEF CacheKept
    <3>4. v # u
      BY <1>1, <3>1 DEF StepMatchesRow, GoTo
    <3>5. pc'[v] = pc[v]
      BY <1>1, <3>4 DEF TypeOK, GoTo
    <3> QED
      BY <3>1, <3>2, <3>3, <3>5
  <2> QED
    BY <2>1, <2>2, <2>3, <2>4, <2>5, <2>6, <2>7, <2>8, <2>9, <2>10, <2>11
<1>2. ASSUME NEW u \in Updates, pc[u] = "fetch", GoTo(u, "cut"),
             UNCHANGED <<rows, audit, cache, redis, announced, screened, disturbed, old, overlap>>
      PROVE  IInv'
  <2>1. rows' = rows
    BY <1>2
  <2>2. SameRows /\ RowsOnce'
    BY <2>1, SameRowFacts
  <2>3. TypeOK'
    BY <1>2, <2>1, <2>2 DEF TypeOK, SameRows, GoTo
  <2>4. StepMatchesRow'
    BY <1>2, <2>1, <2>2 DEF TypeOK, StepMatchesRow, SameRows, GoTo
  <2>5. ShownIsAudited'
    BY <1>2, <2>1, <2>2 DEF TypeOK, ShownIsAudited, Shown, SameRows, GoTo
  <2>6. OldIsEarlier'
    BY <1>2, <2>1, <2>2 DEF TypeOK, OldIsEarlier, SameRows, GoTo
  <2>7. OldOrOverlap'
    <3>1. old' = old /\ overlap \subseteq overlap'
      BY <1>2 DEF GoTo
    <3>2. \A v \in Updates : pc'[v] = "update" => pc[v] = "update"
      BY <1>2 DEF TypeOK, GoTo
    <3> QED
      BY <2>2, <3>1, <3>2, OldOrOverlapKept
  <2>8. AnnouncedMoved'
    BY <1>2, <2>1, <2>2 DEF TypeOK, AnnouncedMoved, GateMoved, StepMatchesRow, SameRows,
       GoTo
  <2>9. RunningOverlap'
    BY <1>2, <2>1, <2>2 DEF TypeOK, RunningOverlap, SameRows, GoTo
  <2>10. LateOverlap'
    BY <1>2, <2>1, <2>2 DEF TypeOK, LateOverlap, SameRows, GoTo
  <2>11. CacheKept'
    <3> SUFFICES ASSUME NEW v \in Updates, NEW s, s = cache'[FlightOf(v)],
                        Committed(v)', FlightOf(v) \notin disturbed'
                 PROVE  /\ pc'[v] # "cut"
                        /\ pc'[v] \in {"audit", "cache"} \/ Follows(s, v)' \/ {s, v} \in overlap'
      BY DEF CacheKept
    <3>1. Committed(v) /\ Follows(s, v)' = Follows(s, v) /\ s = cache[FlightOf(v)]
      BY <1>2, <2>2 DEF SameRows, GoTo
    <3>2. FlightOf(v) \notin disturbed /\ overlap \subseteq overlap'
      BY <1>2 DEF GoTo
    <3>3. pc[v] # "cut" /\ (pc[v] \in {"audit", "cache"} \/ Follows(s, v) \/ {s, v} \in overlap)
      BY <3>1, <3>2 DEF CacheKept
    <3>4. v # u
      BY <1>2, <3>1 DEF StepMatchesRow, GoTo
    <3>5. pc'[v] = pc[v]
      BY <1>2, <3>4 DEF TypeOK, GoTo
    <3> QED
      BY <3>1, <3>2, <3>3, <3>5
  <2> QED
    BY <2>1, <2>2, <2>3, <2>4, <2>5, <2>6, <2>7, <2>8, <2>9, <2>10, <2>11
<1>3. ASSUME NEW u \in Updates, pc[u] = "update", Append1(u), ~Committed(u),
             (GoTo(u, "audit") /\ UNCHANGED disturbed) \/ (GoTo(u, "cut") /\ Disturb(u)),
             UNCHANGED <<old, audit, cache, redis, announced, screened, overlap>>
      PROVE  IInv'
  <2>1. RowsOnce' /\ rows' \in [Flights -> Seq(Updates)]
    BY <1>3, AppendFacts
  <2>2. AppendedTo(u)
    BY <1>3, AppendFacts
  <2>3. TypeOK'
    <3>1. pc' \in [Updates -> {"fetch"} \cup Running \cup Ended]
      BY <1>3 DEF TypeOK, GoTo, Disturb
    <3>2. old' \in [Updates -> Versions \cup {NoUpdate}]
          /\ audit' \in [Updates -> Versions \cup {NoUpdate}]
      BY <1>3 DEF TypeOK, GoTo, Disturb
    <3>3. cache' \in [Flights -> Updates \cup {NoUpdate}] /\ redis' \in [Processes -> BOOLEAN]
      BY <1>3 DEF TypeOK, GoTo, Disturb
    <3>4. announced' \subseteq Updates /\ screened' \subseteq Updates
          /\ disturbed' \subseteq Flights
      BY <1>3 DEF TypeOK, GoTo, Disturb
    <3>5. overlap' \subseteq SUBSET Updates
      BY <1>3 DEF TypeOK, GoTo, Disturb
    <3>6. \A v \in Updates : pc'[v] \in Running => old'[v] # NoUpdate
      BY <1>3 DEF TypeOK, GoTo, Disturb
    <3> QED
      BY <2>1, <3>1, <3>2, <3>3, <3>4, <3>5, <3>6 DEF TypeOK
  <2>4. StepMatchesRow'
    BY <1>3, <2>1, <2>2 DEF TypeOK, StepMatchesRow, AppendedTo, GoTo, Disturb
  <2>5. ShownIsAudited'
    BY <1>3, <2>1, <2>2 DEF TypeOK, ShownIsAudited, Shown, AppendedTo, GoTo, Disturb
  <2>6. OldIsEarlier'
    BY <1>3, <2>1, <2>2 DEF TypeOK, OldIsEarlier, AppendedTo, GoTo, Disturb
  <2>7. OldOrOverlap'
    <3>1. \A v \in Updates : v # u /\ FlightOf(v) = FlightOf(u) /\ pc[v] = "update" =>
            {u, v} \in overlap
      BY <1>3 DEF RunningOverlap
    <3>2. \A v \in Updates : v # u /\ pc'[v] = "update" => pc[v] = "update"
      BY <1>3 DEF GoTo, TypeOK
    <3>3. pc'[u] # "update"
      BY <1>3 DEF GoTo, TypeOK
    <3>4. Before(u)' = old[u] \/ {Before(u)', u} \in overlap
      BY <1>3, <2>2 DEF AppendedTo, OldOrOverlap
    <3>5. \A v \in Updates : v # u /\ Committed(v)' =>
            Before(v)' = old[v] \/ {Before(v)', v} \in overlap
      BY <2>2 DEF AppendedTo, OldOrOverlap
    <3>6. \A v \in Updates : pc'[v] = "update" =>
            Current(FlightOf(v))' = old[v] \/ {Current(FlightOf(v))', v} \in overlap
      BY <2>2, <3>1, <3>2, <3>3, ZenonT(60) DEF AppendedTo, OldOrOverlap
    <3> QED
      BY <1>3, <3>4, <3>5, <3>6 DEF OldOrOverlap
  <2>8. AnnouncedMoved'
    <3>1. announced' = announced /\ old' = old
      BY <1>3
    <3>2. \A v \in announced : v # u /\ Committed(v) /\ GateMoved(v)
            /\ pc[v] \in {"broadcast", "done", "cut"}
      BY <1>3 DEF AnnouncedMoved
    <3>3. \A v \in announced : v \in Updates /\ pc'[v] = pc[v] /\ Committed(v)'
      BY <1>3, <2>2, <3>2 DEF TypeOK, AppendedTo, GoTo
    <3>4. \A v \in announced : GateMoved(v)'
      BY <3>1, <3>2 DEF GateMoved, GateOf
    <3> QED
      BY <3>1, <3>2, <3>3, <3>4 DEF AnnouncedMoved
  <2>9. RunningOverlap'
    <3>1. \A v \in Updates : pc'[v] \in Running => pc[v] \in Running
      BY <1>3 DEF TypeOK, GoTo
    <3> QED
      BY <1>3, <3>1 DEF RunningOverlap
  <2>10. LateOverlap'
    <3> SUFFICES ASSUME NEW w \in Updates, NEW v \in Updates, pc'[v] \in {"audit", "cache"},
                        Precedes(v, w)'
                 PROVE  {v, w} \in overlap
      BY <1>3 DEF LateOverlap
    <3>1. CASE Precedes(v, w)
      <4>1. v # u /\ pc[v] = pc'[v]
        BY <1>3, <3>1 DEF GoTo, TypeOK
      <4> QED
        BY <3>1, <4>1 DEF LateOverlap
    <3>2. CASE ~Precedes(v, w)
      <4>1. w = u /\ Committed(v) /\ FlightOf(v) = FlightOf(u) /\ v # u
        BY <1>3, <2>2, <3>2 DEF AppendedTo
      <4>2. pc[v] \in Running /\ pc[u] \in Running
        BY <1>3, <4>1 DEF GoTo, TypeOK
      <4> QED
        BY <4>1, <4>2 DEF RunningOverlap
    <3> QED
      BY <3>1, <3>2
  <2>11. CacheKept'
    <3> SUFFICES ASSUME NEW v \in Updates, NEW s, s = cache'[FlightOf(v)],
                        Committed(v)', FlightOf(v) \notin disturbed'
                 PROVE  /\ pc'[v] # "cut"
                        /\ pc'[v] \in {"audit", "cache"} \/ Follows(s, v)' \/ {s, v} \in overlap'
      BY DEF CacheKept
    <3>1. s = cache[FlightOf(v)] /\ overlap' = overlap /\ FlightOf(v) \notin disturbed
      BY <1>3 DEF Disturb
    <3>2. CASE v = u
      BY <1>3, <3>2 DEF GoTo, Disturb, TypeOK
    <3>3. CASE v # u
      <4>1. Committed(v) /\ (Follows(s, v) => Follows(s, v)')
        BY <2>2, <3>3 DEF AppendedTo
      <4>2. pc'[v] = pc[v]
        BY <1>3, <3>3 DEF GoTo, TypeOK
      <4> QED
        BY <3>1, <4>1, <4>2, ZenonT(60) DEF CacheKept
    <3> QED
      BY <3>2, <3>3
  <2> QED
    BY <2>1, <2>2, <2>3, <2>4, <2>5, <2>6, <2>7, <2>8, <2>9, <2>10, <2>11
<1>4. ASSUME NEW u \in Updates, WriteAudit(u)
      PROVE  IInv'
  <2>1. rows' = rows
    BY <1>4 DEF WriteAudit
  <2>2. SameRows /\ RowsOnce'
    BY <2>1, SameRowFacts
  <2>3. TypeOK'
    BY <1>4, <2>1, <2>2 DEF TypeOK, SameRows, WriteAudit, GoTo
  <2>4. StepMatchesRow'
    BY <1>4, <2>1, <2>2 DEF TypeOK, StepMatchesRow, SameRows, WriteAudit, GoTo
  <2>5. ShownIsAudited'
    BY <1>4, <2>1, <2>2 DEF TypeOK, ShownIsAudited, Shown, SameRows, WriteAudit, GoTo
  <2>6. OldIsEarlier'
    BY <1>4, <2>1, <2>2 DEF TypeOK, OldIsEarlier, SameRows, WriteAudit, GoTo
  <2>7. OldOrOverlap'
    <3>1. old' = old /\ overlap \subseteq overlap'
      BY <1>4 DEF WriteAudit, GoTo
    <3>2. \A v \in Updates : pc'[v] = "update" => pc[v] = "update"
      BY <1>4 DEF TypeOK, WriteAudit, GoTo
    <3> QED
      BY <2>2, <3>1, <3>2, OldOrOverlapKept
  <2>8. AnnouncedMoved'
    BY <1>4, <2>1, <2>2 DEF TypeOK, AnnouncedMoved, GateMoved, StepMatchesRow, SameRows,
       WriteAudit, GoTo
  <2>9. RunningOverlap'
    BY <1>4, <2>1, <2>2 DEF TypeOK, RunningOverlap, SameRows, WriteAudit, GoTo
  <2>10. LateOverlap'
    BY <1>4, <2>1, <2>2 DEF TypeOK, LateOverlap, SameRows, WriteAudit, GoTo
  <2>11. CacheKept'
    BY <1>4, <2>1, <2>2 DEF TypeOK, CacheKept, SameRows, WriteAudit, GoTo
  <2> QED
    BY <2>1, <2>2, <2>3, <2>4, <2>5, <2>6, <2>7, <2>8, <2>9, <2>10, <2>11
<1>5. ASSUME NEW u \in Updates, Throw(u), UNCHANGED rows
      PROVE  IInv'
  <2>1. rows' = rows
    BY <1>5 DEF Throw
  <2>2. SameRows /\ RowsOnce'
    BY <2>1, SameRowFacts
  <2>3. TypeOK'
    <3>1. pc' \in [Updates -> {"fetch"} \cup Running \cup Ended]
      BY <1>5 DEF TypeOK, Throw, GoTo, Disturb
    <3>2. old' \in [Updates -> Versions \cup {NoUpdate}]
          /\ audit' \in [Updates -> Versions \cup {NoUpdate}]
      BY <1>5 DEF TypeOK, Throw, GoTo, Disturb
    <3>3. cache' \in [Flights -> Updates \cup {NoUpdate}] /\ redis' \in [Processes -> BOOLEAN]
      BY <1>5 DEF TypeOK, Throw, GoTo, Disturb
    <3>4. announced' \subseteq Updates /\ screened' \subseteq Updates
          /\ disturbed' \subseteq Flights
      <4>1. announced' = announced /\ screened' = screened
        BY <1>5 DEF Throw
      <4>2. disturbed' = disturbed \/ disturbed' = disturbed \cup {FlightOf(u)}
        BY <1>5 DEF Throw, Disturb
      <4> QED
        BY <4>1, <4>2 DEF TypeOK
    <3>5. overlap' \subseteq SUBSET Updates
      BY <1>5 DEF TypeOK, Throw, GoTo, Disturb
    <3>6. \A v \in Updates : pc'[v] \in Running => old'[v] # NoUpdate
      BY <1>5 DEF TypeOK, Throw, GoTo, Disturb
    <3> QED
      BY <2>1, <3>1, <3>2, <3>3, <3>4, <3>5, <3>6 DEF TypeOK
  <2>4. StepMatchesRow'
    BY <1>5, <2>1, <2>2 DEF TypeOK, StepMatchesRow, SameRows, Throw, GoTo, Disturb
  <2>5. ShownIsAudited'
    BY <1>5, <2>1, <2>2 DEF TypeOK, ShownIsAudited, Shown, SameRows, Throw, GoTo, Disturb
  <2>6. OldIsEarlier'
    BY <1>5, <2>1, <2>2 DEF TypeOK, OldIsEarlier, SameRows, Throw, GoTo, Disturb
  <2>7. OldOrOverlap'
    <3>1. old' = old /\ overlap \subseteq overlap'
      BY <1>5 DEF Throw, GoTo, Disturb
    <3>2. \A v \in Updates : pc'[v] = "update" => pc[v] = "update"
      BY <1>5 DEF TypeOK, Throw, GoTo, Disturb
    <3> QED
      BY <2>2, <3>1, <3>2, OldOrOverlapKept
  <2>8. AnnouncedMoved'
    BY <1>5, <2>1, <2>2 DEF TypeOK, AnnouncedMoved, GateMoved, StepMatchesRow, SameRows,
       Throw, GoTo, Disturb
  <2>9. RunningOverlap'
    BY <1>5, <2>1, <2>2 DEF TypeOK, RunningOverlap, SameRows, Throw, GoTo, Disturb
  <2>10. LateOverlap'
    BY <1>5, <2>1, <2>2 DEF TypeOK, LateOverlap, SameRows, Throw, GoTo, Disturb
  <2>11. CacheKept'
    <3> SUFFICES ASSUME NEW v \in Updates, NEW s, s = cache'[FlightOf(v)],
                        Committed(v)', FlightOf(v) \notin disturbed'
                 PROVE  /\ pc'[v] # "cut"
                        /\ pc'[v] \in {"audit", "cache"} \/ Follows(s, v)' \/ {s, v} \in overlap'
      BY DEF CacheKept
    <3>1. Committed(v) /\ Follows(s, v)' = Follows(s, v) /\ s = cache[FlightOf(v)]
      BY <1>5, <2>2 DEF SameRows, Throw, GoTo, Disturb
    <3>2. FlightOf(v) \notin disturbed /\ overlap \subseteq overlap'
      BY <1>5 DEF Throw, GoTo, Disturb
    <3>3. pc[v] # "cut" /\ (pc[v] \in {"audit", "cache"} \/ Follows(s, v) \/ {s, v} \in overlap)
      BY <3>1, <3>2 DEF CacheKept
    <3>4. v # u
      BY <1>5, <3>1, <3>2 DEF StepMatchesRow, Throw, GoTo, Disturb
    <3>5. pc'[v] = pc[v]
      BY <1>5, <3>4 DEF TypeOK, Throw, GoTo, Disturb
    <3> QED
      BY <3>1, <3>2, <3>3, <3>5
  <2> QED
    BY <2>1, <2>2, <2>3, <2>4, <2>5, <2>6, <2>7, <2>8, <2>9, <2>10, <2>11
<1>6. ASSUME NEW u \in Updates, UpdateCache(u)
      PROVE  IInv'
  <2>1. rows' = rows
    BY <1>6 DEF UpdateCache
  <2>2. SameRows /\ RowsOnce'
    BY <2>1, SameRowFacts
  <2>3. TypeOK'
    <3>1. pc' \in [Updates -> {"fetch"} \cup Running \cup Ended]
      BY <1>6 DEF TypeOK, UpdateCache, GoTo, Disturb
    <3>2. old' \in [Updates -> Versions \cup {NoUpdate}]
          /\ audit' \in [Updates -> Versions \cup {NoUpdate}]
      BY <1>6 DEF TypeOK, UpdateCache, GoTo, Disturb
    <3>3. cache' \in [Flights -> Updates \cup {NoUpdate}] /\ redis' \in [Processes -> BOOLEAN]
      <4>1. redis' = redis /\ (cache' = cache \/ cache' = [cache EXCEPT ![FlightOf(u)] = u])
        BY <1>6 DEF UpdateCache
      <4>2. cache \in [Flights -> Updates \cup {NoUpdate}] /\ redis \in [Processes -> BOOLEAN]
        BY DEF TypeOK
      <4>3. [cache EXCEPT ![FlightOf(u)] = u] \in [Flights -> Updates \cup {NoUpdate}]
        BY <4>2
      <4> QED
        BY <4>1, <4>2, <4>3
    <3>4. announced' \subseteq Updates /\ screened' \subseteq Updates
          /\ disturbed' \subseteq Flights
      <4>1. announced' = announced /\ screened' = screened
        BY <1>6 DEF UpdateCache
      <4>2. disturbed' = disturbed \/ disturbed' = disturbed \cup {FlightOf(u)}
        BY <1>6 DEF UpdateCache, Disturb
      <4> QED
        BY <4>1, <4>2 DEF TypeOK
    <3>5. overlap' \subseteq SUBSET Updates
      BY <1>6 DEF TypeOK, UpdateCache, GoTo, Disturb
    <3>6. \A v \in Updates : pc'[v] \in Running => old'[v] # NoUpdate
      BY <1>6 DEF TypeOK, UpdateCache, GoTo, Disturb
    <3> QED
      BY <2>1, <3>1, <3>2, <3>3, <3>4, <3>5, <3>6 DEF TypeOK
  <2>4. StepMatchesRow'
    BY <1>6, <2>1, <2>2 DEF TypeOK, StepMatchesRow, SameRows, UpdateCache, GoTo, Disturb
  <2>5. ShownIsAudited'
    <3>1. Committed(u) /\ audit[u] # NoUpdate
      BY <1>6 DEF StepMatchesRow, UpdateCache
    <3>2. \A v \in Updates : Shown(v)' => Shown(v) \/ v = u
      BY <1>6 DEF TypeOK, Shown, UpdateCache
    <3>3. audit' = audit
      BY <1>6 DEF UpdateCache
    <3> QED
      BY <2>2, <3>1, <3>2, <3>3 DEF SameRows, ShownIsAudited
  <2>6. OldIsEarlier'
    BY <1>6, <2>1, <2>2 DEF TypeOK, OldIsEarlier, SameRows, UpdateCache, GoTo, Disturb
  <2>7. OldOrOverlap'
    <3>1. old' = old /\ overlap \subseteq overlap'
      BY <1>6 DEF UpdateCache, GoTo, Disturb
    <3>2. \A v \in Updates : pc'[v] = "update" => pc[v] = "update"
      BY <1>6 DEF TypeOK, UpdateCache, GoTo, Disturb
    <3> QED
      BY <2>2, <3>1, <3>2, OldOrOverlapKept
  <2>8. AnnouncedMoved'
    BY <1>6, <2>1, <2>2 DEF TypeOK, AnnouncedMoved, GateMoved, StepMatchesRow, SameRows,
       UpdateCache, GoTo, Disturb
  <2>9. RunningOverlap'
    BY <1>6, <2>1, <2>2 DEF TypeOK, RunningOverlap, SameRows, UpdateCache, GoTo, Disturb
  <2>10. LateOverlap'
    BY <1>6, <2>1, <2>2 DEF TypeOK, LateOverlap, SameRows, UpdateCache, GoTo, Disturb
  <2>11. CacheKept'
    <3> SUFFICES ASSUME NEW v \in Updates, NEW s, s = cache'[FlightOf(v)],
                        Committed(v)', FlightOf(v) \notin disturbed'
                 PROVE  /\ pc'[v] # "cut"
                        /\ pc'[v] \in {"audit", "cache"} \/ Follows(s, v)' \/ {s, v} \in overlap'
      BY DEF CacheKept
    <3>1. Committed(v) /\ Follows(s, v)' = Follows(s, v) /\ Committed(u)
      BY <1>6, <2>2 DEF SameRows, StepMatchesRow, UpdateCache
    <3>2. FlightOf(v) \notin disturbed /\ overlap' = overlap /\ pc[v] # "cut"
      <4>1. disturbed \subseteq disturbed' /\ overlap' = overlap
        BY <1>6 DEF UpdateCache, Disturb
      <4> QED
        BY <4>1, <3>1, ZenonT(60) DEF CacheKept
    <3>3. pc'[v] # "cut"
      BY <1>6, <3>2 DEF TypeOK, UpdateCache, GoTo
    <3>4. CASE FlightOf(v) = FlightOf(u)
      <4>1. s = u
        BY <1>6, <3>4 DEF TypeOK, UpdateCache, Disturb
      <4>2. Follows(u, v) \/ Precedes(u, v)
        BY <3>1, <3>4
      <4>3. Precedes(u, v) => {u, v} \in overlap
        BY <1>6 DEF LateOverlap, UpdateCache
      <4> QED
        BY <3>1, <3>2, <3>3, <4>1, <4>2, <4>3
    <3>5. CASE FlightOf(v) # FlightOf(u)
      <4>1. v # u /\ s = cache[FlightOf(v)] /\ pc'[v] = pc[v]
        BY <1>6, <3>5 DEF TypeOK, UpdateCache, GoTo
      <4> QED
        BY <3>1, <3>2, <3>3, <4>1 DEF CacheKept
    <3> QED
      BY <3>4, <3>5
  <2> QED
    BY <2>1, <2>2, <2>3, <2>4, <2>5, <2>6, <2>7, <2>8, <2>9, <2>10, <2>11
<1>7. ASSUME NEW u \in Updates, PublishGateChange(u)
      PROVE  IInv'
  <2>1. rows' = rows
    BY <1>7 DEF PublishGateChange
  <2>2. SameRows /\ RowsOnce'
    BY <2>1, SameRowFacts
  <2>3. TypeOK'
    BY <1>7, <2>1, <2>2 DEF TypeOK, SameRows, PublishGateChange, GoTo
  <2>4. StepMatchesRow'
    BY <1>7, <2>1, <2>2 DEF TypeOK, StepMatchesRow, SameRows, PublishGateChange, GoTo
  <2>5. ShownIsAudited'
    <3>1. Committed(u) /\ audit[u] # NoUpdate
      BY <1>7 DEF StepMatchesRow, PublishGateChange
    <3>2. \A v \in Updates : Shown(v)' => Shown(v) \/ v = u
      BY <1>7 DEF TypeOK, Shown, PublishGateChange
    <3>3. audit' = audit
      BY <1>7 DEF PublishGateChange
    <3> QED
      BY <2>2, <3>1, <3>2, <3>3 DEF SameRows, ShownIsAudited
  <2>6. OldIsEarlier'
    BY <1>7, <2>1, <2>2 DEF TypeOK, OldIsEarlier, SameRows, PublishGateChange, GoTo
  <2>7. OldOrOverlap'
    <3>1. old' = old /\ overlap \subseteq overlap'
      BY <1>7 DEF PublishGateChange, GoTo
    <3>2. \A v \in Updates : pc'[v] = "update" => pc[v] = "update"
      BY <1>7 DEF TypeOK, PublishGateChange, GoTo
    <3> QED
      BY <2>2, <3>1, <3>2, OldOrOverlapKept
  <2>8. AnnouncedMoved'
    BY <1>7, <2>1, <2>2 DEF TypeOK, AnnouncedMoved, GateMoved, StepMatchesRow, SameRows,
       PublishGateChange, GoTo
  <2>9. RunningOverlap'
    BY <1>7, <2>1, <2>2 DEF TypeOK, RunningOverlap, SameRows, PublishGateChange, GoTo
  <2>10. LateOverlap'
    BY <1>7, <2>1, <2>2 DEF TypeOK, LateOverlap, SameRows, PublishGateChange, GoTo
  <2>11. CacheKept'
    <3> SUFFICES ASSUME NEW v \in Updates, NEW s, s = cache'[FlightOf(v)],
                        Committed(v)', FlightOf(v) \notin disturbed'
                 PROVE  /\ pc'[v] # "cut"
                        /\ pc'[v] \in {"audit", "cache"} \/ Follows(s, v)' \/ {s, v} \in overlap'
      BY DEF CacheKept
    <3>1. Committed(v) /\ Follows(s, v)' = Follows(s, v) /\ s = cache[FlightOf(v)]
      BY <1>7, <2>2 DEF SameRows, PublishGateChange, GoTo
    <3>2. FlightOf(v) \notin disturbed /\ overlap' = overlap
      BY <1>7 DEF PublishGateChange, GoTo
    <3>3. pc[v] # "cut" /\ (pc[v] \in {"audit", "cache"} \/ Follows(s, v) \/ {s, v} \in overlap)
      BY <3>1, <3>2 DEF CacheKept
    <3>4. pc'[v] # "cut" /\ (pc[v] \in {"audit", "cache"} => pc'[v] = pc[v])
      BY <1>7, <3>3 DEF TypeOK, PublishGateChange, GoTo
    <3> QED
      BY <3>1, <3>2, <3>3, <3>4
  <2> QED
    BY <2>1, <2>2, <2>3, <2>4, <2>5, <2>6, <2>7, <2>8, <2>9, <2>10, <2>11
<1>8. ASSUME NEW u \in Updates, Broadcast(u)
      PROVE  IInv'
  <2>1. rows' = rows
    BY <1>8 DEF Broadcast
  <2>2. SameRows /\ RowsOnce'
    BY <2>1, SameRowFacts
  <2>3. TypeOK'
    BY <1>8, <2>1, <2>2 DEF TypeOK, SameRows, Broadcast, GoTo
  <2>4. StepMatchesRow'
    BY <1>8, <2>1, <2>2 DEF TypeOK, StepMatchesRow, SameRows, Broadcast, GoTo
  <2>5. ShownIsAudited'
    <3>1. Committed(u) /\ audit[u] # NoUpdate
      BY <1>8 DEF StepMatchesRow, Broadcast
    <3>2. \A v \in Updates : Shown(v)' => Shown(v) \/ v = u
      BY <1>8 DEF TypeOK, Shown, Broadcast
    <3>3. audit' = audit
      BY <1>8 DEF Broadcast
    <3> QED
      BY <2>2, <3>1, <3>2, <3>3 DEF SameRows, ShownIsAudited
  <2>6. OldIsEarlier'
    BY <1>8, <2>1, <2>2 DEF TypeOK, OldIsEarlier, SameRows, Broadcast, GoTo
  <2>7. OldOrOverlap'
    <3>1. old' = old /\ overlap \subseteq overlap'
      BY <1>8 DEF Broadcast, GoTo
    <3>2. \A v \in Updates : pc'[v] = "update" => pc[v] = "update"
      BY <1>8 DEF TypeOK, Broadcast, GoTo
    <3> QED
      BY <2>2, <3>1, <3>2, OldOrOverlapKept
  <2>8. AnnouncedMoved'
    BY <1>8, <2>1, <2>2 DEF TypeOK, AnnouncedMoved, GateMoved, StepMatchesRow, SameRows,
       Broadcast, GoTo
  <2>9. RunningOverlap'
    BY <1>8, <2>1, <2>2 DEF TypeOK, RunningOverlap, SameRows, Broadcast, GoTo
  <2>10. LateOverlap'
    BY <1>8, <2>1, <2>2 DEF TypeOK, LateOverlap, SameRows, Broadcast, GoTo
  <2>11. CacheKept'
    <3> SUFFICES ASSUME NEW v \in Updates, NEW s, s = cache'[FlightOf(v)],
                        Committed(v)', FlightOf(v) \notin disturbed'
                 PROVE  /\ pc'[v] # "cut"
                        /\ pc'[v] \in {"audit", "cache"} \/ Follows(s, v)' \/ {s, v} \in overlap'
      BY DEF CacheKept
    <3>1. Committed(v) /\ Follows(s, v)' = Follows(s, v) /\ s = cache[FlightOf(v)]
      BY <1>8, <2>2 DEF SameRows, Broadcast, GoTo
    <3>2. FlightOf(v) \notin disturbed /\ overlap' = overlap
      BY <1>8 DEF Broadcast, GoTo
    <3>3. pc[v] # "cut" /\ (pc[v] \in {"audit", "cache"} \/ Follows(s, v) \/ {s, v} \in overlap)
      BY <3>1, <3>2 DEF CacheKept
    <3>4. pc'[v] # "cut" /\ (pc[v] \in {"audit", "cache"} => pc'[v] = pc[v])
      BY <1>8, <3>3 DEF TypeOK, Broadcast, GoTo
    <3> QED
      BY <3>1, <3>2, <3>3, <3>4
  <2> QED
    BY <2>1, <2>2, <2>3, <2>4, <2>5, <2>6, <2>7, <2>8, <2>9, <2>10, <2>11
<1>9. ASSUME NEW p \in Processes, BreakRedis(p)
      PROVE  IInv'
  <2>1. rows' = rows
    BY <1>9 DEF BreakRedis
  <2>2. SameRows /\ RowsOnce'
    BY <2>1, SameRowFacts
  <2>3. TypeOK'
    BY <1>9, <2>1, <2>2 DEF TypeOK, SameRows, BreakRedis
  <2>4. StepMatchesRow'
    BY <1>9, <2>1, <2>2 DEF TypeOK, StepMatchesRow, SameRows, BreakRedis
  <2>5. ShownIsAudited'
    BY <1>9, <2>1, <2>2 DEF TypeOK, ShownIsAudited, Shown, SameRows, BreakRedis
  <2>6. OldIsEarlier'
    BY <1>9, <2>1, <2>2 DEF TypeOK, OldIsEarlier, SameRows, BreakRedis
  <2>7. OldOrOverlap'
    <3>1. old' = old /\ overlap \subseteq overlap'
      BY <1>9 DEF BreakRedis
    <3>2. \A v \in Updates : pc'[v] = "update" => pc[v] = "update"
      BY <1>9 DEF TypeOK, BreakRedis
    <3> QED
      BY <2>2, <3>1, <3>2, OldOrOverlapKept
  <2>8. AnnouncedMoved'
    BY <1>9, <2>1, <2>2 DEF TypeOK, AnnouncedMoved, GateMoved, StepMatchesRow, SameRows,
       BreakRedis
  <2>9. RunningOverlap'
    BY <1>9, <2>1, <2>2 DEF TypeOK, RunningOverlap, SameRows, BreakRedis
  <2>10. LateOverlap'
    BY <1>9, <2>1, <2>2 DEF TypeOK, LateOverlap, SameRows, BreakRedis
  <2>11. CacheKept'
    BY <1>9, <2>1, <2>2 DEF TypeOK, CacheKept, SameRows, BreakRedis
  <2> QED
    BY <2>1, <2>2, <2>3, <2>4, <2>5, <2>6, <2>7, <2>8, <2>9, <2>10, <2>11
<1>10. CASE RestartRedis
  <2>1. rows' = rows
    BY <1>10 DEF RestartRedis
  <2>2. SameRows /\ RowsOnce'
    BY <2>1, SameRowFacts
  <2>3. TypeOK'
    BY <1>10, <2>1, <2>2 DEF TypeOK, SameRows, RestartRedis
  <2>4. StepMatchesRow'
    BY <1>10, <2>1, <2>2 DEF TypeOK, StepMatchesRow, SameRows, RestartRedis
  <2>5. ShownIsAudited'
    BY <1>10, <2>1, <2>2 DEF TypeOK, ShownIsAudited, Shown, SameRows, RestartRedis
  <2>6. OldIsEarlier'
    BY <1>10, <2>1, <2>2 DEF TypeOK, OldIsEarlier, SameRows, RestartRedis
  <2>7. OldOrOverlap'
    <3>1. old' = old /\ overlap \subseteq overlap'
      BY <1>10 DEF RestartRedis
    <3>2. \A v \in Updates : pc'[v] = "update" => pc[v] = "update"
      BY <1>10 DEF TypeOK, RestartRedis
    <3> QED
      BY <2>2, <3>1, <3>2, OldOrOverlapKept
  <2>8. AnnouncedMoved'
    BY <1>10, <2>1, <2>2 DEF TypeOK, AnnouncedMoved, GateMoved, StepMatchesRow, SameRows,
       RestartRedis
  <2>9. RunningOverlap'
    BY <1>10, <2>1, <2>2 DEF TypeOK, RunningOverlap, SameRows, RestartRedis
  <2>10. LateOverlap'
    BY <1>10, <2>1, <2>2 DEF TypeOK, LateOverlap, SameRows, RestartRedis
  <2>11. CacheKept'
    BY <1>10, <2>1, <2>2 DEF TypeOK, CacheKept, SameRows, RestartRedis
  <2> QED
    BY <2>1, <2>2, <2>3, <2>4, <2>5, <2>6, <2>7, <2>8, <2>9, <2>10, <2>11
<1>11. ASSUME NEW p \in Processes, Restart(p)
      PROVE  IInv'
  <2>1. rows' = rows
    BY <1>11 DEF Restart
  <2>2. SameRows /\ RowsOnce'
    BY <2>1, SameRowFacts
  <2>3. TypeOK'
    BY <1>11, <2>1, <2>2 DEF TypeOK, SameRows, Restart
  <2>4. StepMatchesRow'
    BY <1>11, <2>1, <2>2 DEF TypeOK, StepMatchesRow, SameRows, Restart
  <2>5. ShownIsAudited'
    BY <1>11, <2>1, <2>2 DEF TypeOK, ShownIsAudited, Shown, SameRows, Restart
  <2>6. OldIsEarlier'
    BY <1>11, <2>1, <2>2 DEF TypeOK, OldIsEarlier, SameRows, Restart
  <2>7. OldOrOverlap'
    <3>1. old' = old /\ overlap \subseteq overlap'
      BY <1>11 DEF Restart
    <3>2. \A v \in Updates : pc'[v] = "update" => pc[v] = "update"
      BY <1>11 DEF TypeOK, Restart
    <3> QED
      BY <2>2, <3>1, <3>2, OldOrOverlapKept
  <2>8. AnnouncedMoved'
    BY <1>11, <2>1, <2>2 DEF TypeOK, AnnouncedMoved, GateMoved, StepMatchesRow, SameRows,
       Restart
  <2>9. RunningOverlap'
    BY <1>11, <2>1, <2>2 DEF TypeOK, RunningOverlap, SameRows, Restart
  <2>10. LateOverlap'
    BY <1>11, <2>1, <2>2 DEF TypeOK, LateOverlap, SameRows, Restart
  <2>11. CacheKept'
    BY <1>11, <2>1, <2>2, ZenonT(60) DEF TypeOK, CacheKept, SameRows, Restart
  <2> QED
    BY <2>1, <2>2, <2>3, <2>4, <2>5, <2>6, <2>7, <2>8, <2>9, <2>10, <2>11
<1>12. CASE UNCHANGED vars
  <2>1. rows' = rows
    BY <1>12 DEF vars
  <2>2. SameRows /\ RowsOnce'
    BY <2>1, SameRowFacts
  <2>3. TypeOK'
    BY <1>12, <2>1, <2>2 DEF TypeOK, SameRows, vars
  <2>4. StepMatchesRow'
    BY <1>12, <2>1, <2>2 DEF TypeOK, StepMatchesRow, SameRows, vars
  <2>5. ShownIsAudited'
    BY <1>12, <2>1, <2>2 DEF TypeOK, ShownIsAudited, Shown, SameRows, vars
  <2>6. OldIsEarlier'
    BY <1>12, <2>1, <2>2 DEF TypeOK, OldIsEarlier, SameRows, vars
  <2>7. OldOrOverlap'
    <3>1. old' = old /\ overlap \subseteq overlap'
      BY <1>12 DEF vars
    <3>2. \A v \in Updates : pc'[v] = "update" => pc[v] = "update"
      BY <1>12 DEF TypeOK, vars
    <3> QED
      BY <2>2, <3>1, <3>2, OldOrOverlapKept
  <2>8. AnnouncedMoved'
    BY <1>12, <2>1, <2>2 DEF TypeOK, AnnouncedMoved, GateMoved, StepMatchesRow, SameRows,
       vars
  <2>9. RunningOverlap'
    BY <1>12, <2>1, <2>2 DEF TypeOK, RunningOverlap, SameRows, vars
  <2>10. LateOverlap'
    BY <1>12, <2>1, <2>2 DEF TypeOK, LateOverlap, SameRows, vars
  <2>11. CacheKept'
    BY <1>12, <2>1, <2>2 DEF TypeOK, CacheKept, SameRows, vars
  <2> QED
    BY <2>1, <2>2, <2>3, <2>4, <2>5, <2>6, <2>7, <2>8, <2>9, <2>10, <2>11
<1>13. ASSUME NEW u \in Updates, UpdateRow(u)
       PROVE  IInv'
  BY <1>13, <1>3 DEF UpdateRow, StepMatchesRow
<1>14. ASSUME NEW u \in Updates, Throw(u), rows' # rows
       PROVE  IInv'
  BY <1>14, <1>3 DEF Throw, StepMatchesRow
<1>15. ASSUME NEW u \in Updates, FetchOld(u)
       PROVE  IInv'
  <2>1. CASE Call[u].tenant = Owner[Call[u].flight]
    <3>1. PICK O : O = overlap \cup {{u, v} : v \in Active(Call[u].flight)}
      OBVIOUS
    <3>2. O \in SUBSET SUBSET Updates
      BY <3>1 DEF TypeOK, Active
    <3>3. \A v \in Updates : Call[v].flight = Call[u].flight /\ pc[v] \in Running => {u, v} \in O
      BY <3>1 DEF Active
    <3>4. PICK c \in Updates \cup {Created} : c = Current(Call[u].flight)
      OBVIOUS
    <3>5. overlap' = O /\ overlap \subseteq O /\ old' = [old EXCEPT ![u] = c]
      BY <1>15, <2>1, <3>1, <3>4 DEF FetchOld
    <3>6. /\ pc[u] = "fetch" /\ GoTo(u, "update")
          /\ UNCHANGED <<rows, audit, cache, redis, announced, screened, disturbed>>
      BY <1>15, <2>1 DEF FetchOld
    <3>7. u \in Updates
      OBVIOUS
    <3> QED
      BY ONLY <1>1, <3>2, <3>3, <3>4, <3>5, <3>6, <3>7, ZenonT(60)
  <2>2. CASE Call[u].tenant # Owner[Call[u].flight]
    BY <1>2, <1>15, <2>2 DEF FetchOld
  <2> QED
    BY <2>1, <2>2
<1> QED
  BY <1>4, <1>5, <1>6, <1>7, <1>8, <1>9, <1>10, <1>11, <1>12, <1>13, <1>14, <1>15 DEF
     Next, Step

-----------------------------------------------------------------------------
(* The results. *)

(* Every variable keeps its type, and an update past its first step has a  *)
(* "Before" snapshot (updateStatusAndNotify).                              *)
THEOREM TypeCorrect == Spec => []TypeOK
<1>1. IInv => TypeOK
  BY DEF IInv
<1> QED
  BY <1>1, InitInvariant, StepInvariant, PTL DEF Spec

(* The cache, the gate events and the screens show nothing that was not    *)
(* stored and audited before, whichever update, process or failure it      *)
(* comes from.                                                             *)
THEOREM ShownWasAudited == Spec => []ShownIsAudited
<1>1. IInv => ShownIsAudited
  BY DEF IInv
<1> QED
  BY <1>1, InitInvariant, StepInvariant, PTL DEF Spec

(* The old state of an audit record is a state from before the update,     *)
(* however the updates of the flight interleave.                           *)
THEOREM BeforeWasEarlier == Spec => []BeforeIsEarlier
<1>1. ASSUME IInv PROVE BeforeIsEarlier
  <2> SUFFICES ASSUME NEW u \in Updates, audit[u] # NoUpdate, Committed(u)
               PROVE  \E i \in DOMAIN rows[FlightOf(u)] :
                        /\ rows[FlightOf(u)][i] = u
                        /\ \/ audit[u] = Created
                           \/ \E j \in 1..(i - 1) : rows[FlightOf(u)][j] = audit[u]
    BY DEF BeforeIsEarlier
  <2>1. audit[u] = old[u] /\ old[u] \in Updates \cup {Created}
    BY <1>1 DEF IInv, StepMatchesRow, TypeOK, Versions
  <2>2. CASE old[u] = Created
    BY <2>1, <2>2 DEF Committed
  <2>3. CASE old[u] \in Updates
    <3>1. Precedes(old[u], u)
      BY <1>1, <2>3 DEF IInv, OldIsEarlier
    <3>2. PICK j \in DOMAIN rows[FlightOf(u)], i \in DOMAIN rows[FlightOf(u)] :
            j < i /\ rows[FlightOf(u)][j] = old[u] /\ rows[FlightOf(u)][i] = u
      BY <3>1 DEF Precedes
    <3>3. j \in 1..(i - 1)
      BY <1>1, <3>2, UpdateType, RowType DEF IInv
    <3> QED
      BY <2>1, <3>2, <3>3
  <2> QED
    BY <2>1, <2>2, <2>3
<1> QED
  BY <1>1, InitInvariant, StepInvariant, PTL DEF Spec

(* A GATE_CHANGED event says the truth, unless an update that ran at the   *)
(* same time moved the gate in between.                                    *)
THEOREM AnnouncedMoves == Spec => []AnnouncedGateMoved
<1>1. ASSUME IInv PROVE AnnouncedGateMoved
  <2> SUFFICES ASSUME NEW u \in announced
               PROVE  \/ GateOf(Before(u), FlightOf(u)) # Call[u].gate
                      \/ {Before(u), u} \in overlap
    BY DEF AnnouncedGateMoved
  <2>1. u \in Updates /\ Committed(u) /\ GateMoved(u)
    BY <1>1 DEF IInv, TypeOK, AnnouncedMoved
  <2>2. Before(u) = old[u] \/ {Before(u), u} \in overlap
    BY <1>1, <2>1 DEF IInv, OldOrOverlap
  <2> QED
    BY <2>1, <2>2 DEF GateMoved
<1> QED
  BY <1>1, InitInvariant, StepInvariant, PTL DEF Spec

(* Who hears of a gate change finds that update or a later one in the      *)
(* cache, unless the two ran at the same time or the cache missed one.     *)
THEOREM AnnouncedShows == Spec => []AnnouncedIsLive
<1>1. ASSUME IInv PROVE AnnouncedIsLive
  <2> SUFFICES ASSUME NEW u \in announced, FlightOf(u) \notin disturbed
               PROVE  \/ Follows(cache[FlightOf(u)], u)
                      \/ {cache[FlightOf(u)], u} \in overlap
    BY DEF AnnouncedIsLive
  <2>1. u \in Updates /\ Committed(u) /\ pc[u] \notin {"audit", "cache"}
    BY <1>1 DEF IInv, TypeOK, AnnouncedMoved
  <2> QED
    BY <1>1, <2>1 DEF IInv, CacheKept
<1> QED
  BY <1>1, InitInvariant, StepInvariant, PTL DEF Spec

(* What follows the last update of a flight is that update. *)
LEMMA LastFollows ==
  ASSUME TypeOK, RowsOnce, NEW f \in Flights, rows[f] # <<>>, NEW s,
         Follows(s, Current(f)), FlightOf(Current(f)) = f
  PROVE  s = Current(f)
<1>1. PICK n \in Nat : n = Len(rows[f]) /\ DOMAIN rows[f] = 1..n
  BY RowType
<1>2. n \in 1..n
  BY <1>1, EmptySeq DEF TypeOK
<1>3. Current(f) = rows[f][n]
  BY <1>1 DEF Current
<1>4. PICK i \in 1..n, j \in 1..n : i <= j /\ rows[f][i] = Current(f) /\ rows[f][j] = s
  BY <1>1 DEF Follows
<1>5. i = n
  BY <1>1, <1>2, <1>3, <1>4 DEF RowsOnce
<1>6. j = n
  BY <1>1, <1>4, <1>5
<1> QED
  BY <1>3, <1>4, <1>6

(* When no update of a flight runs and none was cut short, a process that  *)
(* can reach Redis answers with the flight's last state, or one that ran   *)
(* at the same time as the last: updates in sequence leave nothing stale.  *)
THEOREM StaleByOverlap == Spec => []StaleOnlyByOverlap
<1>1. ASSUME IInv PROVE StaleOnlyByOverlap
  <2> SUFFICES ASSUME NEW f \in Flights, NEW p \in Processes,
                      AtRest(f), f \notin disturbed, rows[f] # <<>>, redis[p]
               PROVE  \/ LiveStatus(p, f) = Current(f)
                      \/ {LiveStatus(p, f), Current(f)} \in overlap
    BY DEF StaleOnlyByOverlap
  <2>1. TypeOK /\ RowsOnce /\ CacheKept
    BY <1>1 DEF IInv
  <2>2. Current(f) \in Updates
    <3>1. Len(rows[f]) \in 1..Len(rows[f])
      BY <2>1, RowType, EmptySeq DEF TypeOK
    <3> QED
      BY <2>1, <3>1, RowType DEF Current
  <2>3. Committed(Current(f)) /\ FlightOf(Current(f)) = f
    BY <2>1, <2>2, RowFacts
  <2>4. pc[Current(f)] \notin {"audit", "cache"}
    BY <2>2, <2>3 DEF AtRest, Active, Running
  <2>5. Follows(cache[f], Current(f)) \/ {cache[f], Current(f)} \in overlap
    BY <2>1, <2>2, <2>3, <2>4 DEF CacheKept
  <2>6. cache[f] = Current(f) \/ {cache[f], Current(f)} \in overlap
    BY <2>1, <2>3, <2>5, LastFollows
  <2>7. cache[f] # NoUpdate
    BY <2>1, <2>2, <2>6, MarkAssumption DEF TypeOK
  <2>8. LiveStatus(p, f) = cache[f]
    BY <2>7 DEF LiveStatus, getFlightStatus
  <2> QED
    BY <2>6, <2>8
<1> QED
  BY <1>1, InitInvariant, StepInvariant, PTL DEF Spec

=============================================================================
