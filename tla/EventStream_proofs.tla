------------------------- MODULE EventStream_proofs -------------------------
(***************************************************************************)
(* What EventStream promises for any number of processes, tenants, events  *)
(* and clients.  The argument counts: a process that listens has, in its   *)
(* inbox, exactly the events of the log after the Reached(p)-th, so what   *)
(* its clients were sent lies at or before that place, and the next event  *)
(* it takes lies after all of it.  An event that is due to a client is     *)
(* therefore in one of three places: sent, in the loop, or in the inbox.   *)
(***************************************************************************)
EXTENDS EventStream, SequenceTheorems, TLAPS

-----------------------------------------------------------------------------
(* Places in the log. *)

PositionIn(h, e) == CHOOSE i \in DOMAIN h : h[i] = e

LEMMA PositionAt ==
  ASSUME NEW h, NEW i \in DOMAIN h, \A j \in DOMAIN h : h[i] = h[j] => i = j
  PROVE  PositionIn(h, h[i]) = i
BY DEF PositionIn

LEMMA Positions == \A e : Position(e) = PositionIn(log, e) /\ Position(e)' = PositionIn(log', e)
BY DEF Position, PositionIn

LEMMA LogPositions ==
  ASSUME TypeOK, LogOnce
  PROVE  /\ Len(log) \in Nat /\ DOMAIN log = 1..Len(log)
         /\ \A i \in 1..Len(log) : log[i] \in Events /\ Position(log[i]) = i
         /\ \A e \in Elements(log) :
              Position(e) \in 1..Len(log) /\ log[Position(e)] = e /\ e \in Events
<1>1. Len(log) \in Nat /\ DOMAIN log = 1..Len(log)
  BY LenProperties DEF TypeOK
<1>2. ASSUME NEW i \in 1..Len(log) PROVE log[i] \in Events /\ Position(log[i]) = i
  <2>1. log[i] \in Events
    BY <1>1, ElementOfSeq DEF TypeOK
  <2>2. i \in DOMAIN log /\ \A j \in DOMAIN log : log[i] = log[j] => i = j
    BY <1>1 DEF LogOnce
  <2> QED
    BY <2>1, <2>2, PositionAt, Positions
<1> QED
  BY <1>1, <1>2 DEF Elements

LEMMA Sizes ==
  ASSUME TypeOK, InboxIsSuffix, NEW p \in Processes
  PROVE  /\ Len(inbox[p]) \in Nat /\ DOMAIN inbox[p] = 1..Len(inbox[p])
         /\ Reached(p) \in 0..Len(log) /\ Reached(p) + Len(inbox[p]) = Len(log)
<1>1. Len(log) \in Nat
  BY LenProperties DEF TypeOK
<1>2. Len(inbox[p]) \in Nat /\ DOMAIN inbox[p] = 1..Len(inbox[p])
  BY LenProperties DEF TypeOK
<1>3. Len(inbox[p]) <= Len(log)
  BY DEF InboxIsSuffix
<1> QED
  BY <1>1, <1>2, <1>3 DEF Reached

LEMMA HomeType == \A c \in Clients : Home[c] \in Processes
BY ClientAssumption

(* The tenant of an event survives the way through its channel's name. *)
LEMMA TenantOfMessage ==
  ASSUME NEW e \in Events
  PROVE  /\ Message(e).event = e /\ Matches(Message(e).channel)
         /\ extractTenantFromChannel(Message(e).channel) = EventTenant[e]
BY DEF Message, ChannelOf, Matches, extractTenantFromChannel

(* What neither publishes nor sends keeps what is said of those alone. *)
LEMMA Quiet ==
  ASSUME LogOnce, TenantIsolation, InOrderOnce, NoGap,
         UNCHANGED <<log, received, due>>, raced \subseteq raced',
         \A e \in Elements(log) : publisher'[e] # "ready"
  PROVE  /\ \A e : Position(e)' = Position(e)
         /\ \A i, c : Owed(i, c)' <=> Owed(i, c)
         /\ LogOnce' /\ TenantIsolation' /\ InOrderOnce' /\ NoGap'
<1>1. \A e : Position(e)' = Position(e)
  BY Positions
<1>2. \A i, c : Owed(i, c)' <=> Owed(i, c)
  BY DEF Owed, Elements
<1>3. LogOnce' /\ TenantIsolation'
  BY DEF LogOnce, TenantIsolation, Elements
<1>4. InOrderOnce'
  BY <1>1 DEF InOrderOnce
<1>5. NoGap'
  BY <1>1, <1>2 DEF NoGap, Elements
<1> QED
  BY <1>1, <1>2, <1>3, <1>4, <1>5

-----------------------------------------------------------------------------
(* The invariant. *)

LEMMA InitInvariant == Init => IInv
<1> SUFFICES ASSUME Init PROVE IInv
  OBVIOUS
<1>1. log = <<>> /\ Len(log) = 0 /\ DOMAIN log = {} /\ Elements(log) = {}
  BY DEF Init, Elements
<1>2. \A p \in Processes : inbox[p] = <<>> /\ Len(inbox[p]) = 0 /\ DOMAIN inbox[p] = {}
  BY DEF Init
<1>3. \A c \in Clients : received[c] = <<>> /\ DOMAIN received[c] = {} /\ Elements(received[c]) = {}
  BY DEF Init, Elements
<1>4. TypeOK
  BY EmptySeq DEF Init, TypeOK
<1>5. LogOnce /\ InboxIsSuffix
  BY <1>1, <1>2 DEF Init, LogOnce, InboxIsSuffix, Looping
<1>6. SeenReached /\ InSet /\ TenantIsolation /\ InOrderOnce /\ NoGap
  BY <1>3 DEF Init, SeenReached, InSet, TenantIsolation, InOrderOnce, NoGap
<1>7. KeptUp
  BY DEF Init, KeptUp
<1> QED
  BY <1>4, <1>5, <1>6, <1>7 DEF IInv

LEMMA PublishKeeps ==
  ASSUME IInv, NEW e \in Events, Publish(e)
  PROVE  IInv'
<1> USE DEF IInv
<1>1. PICK n \in Nat : n = Len(log) /\ DOMAIN log = 1..n
  BY LogPositions
<1>2. /\ log' \in Seq(Events) /\ Len(log') = n + 1 /\ DOMAIN log' = 1..(n + 1)
      /\ log'[n + 1] = e /\ \A i \in 1..n : log'[i] = log[i]
  BY <1>1, AppendProperties, LenProperties DEF Publish, TypeOK
<1>3. e \notin Elements(log)
  BY DEF Publish, LogOnce
<1>4. \A i \in 1..n : log[i] # e
  BY <1>1, <1>3 DEF Elements
<1>5. \A i, j \in 1..(n + 1) : log'[i] = log'[j] => i = j
  <2>1. \A i \in 1..(n + 1) : i \in 1..n \/ i = n + 1
    BY <1>1
  <2>2. \A i, j \in 1..n : log[i] = log[j] => i = j
    BY <1>1 DEF LogOnce
  <2> QED
    BY <1>2, <1>4, <2>1, <2>2
<1>6. \A x \in Elements(log) : Position(x)' = Position(x)
  <2> SUFFICES ASSUME NEW x, NEW i \in 1..n, x = log[i] PROVE Position(x)' = Position(x)
    BY <1>1 DEF Elements
  <2>1. i \in DOMAIN log' /\ \A j \in DOMAIN log' : log'[i] = log'[j] => i = j
    BY <1>1, <1>2, <1>5
  <2>2. PositionIn(log', log'[i]) = i
    BY <2>1, PositionAt
  <2> QED
    BY <1>1, <1>2, <2>2, Positions, LogPositions
<1>7. LogOnce'
  <2>1. \A i, j \in DOMAIN log' : log'[i] = log'[j] => i = j
    BY <1>2, <1>5
  <2>2. \A x \in Elements(log') : x \in Elements(log) \/ x = e
    BY <1>1, <1>2 DEF Elements
  <2>3. publisher'[e] # "ready"
        /\ \A x \in Events : publisher[x] # "ready" => publisher'[x] # "ready"
    BY DEF Publish, TypeOK
  <2>4. \A x \in Elements(log) : x \in Events
    BY LogPositions
  <2>5. \A x \in Elements(log') : publisher'[x] # "ready"
    BY <2>2, <2>3, <2>4 DEF LogOnce
  <2> QED
    BY <2>1, <2>5 DEF LogOnce, Elements
<1>8. ASSUME NEW p \in Processes
      PROVE  /\ inbox'[p] = IF sub[p] = "listening" THEN Append(inbox[p], Message(e)) ELSE inbox[p]
             /\ inbox'[p] \in Seq(Messages)
  <2>1. inbox'[p] = IF sub[p] = "listening" THEN Append(inbox[p], Message(e)) ELSE inbox[p]
    BY TenantOfMessage DEF Publish
  <2>2. Message(e) \in Messages /\ inbox[p] \in Seq(Messages)
    BY DEF Messages, TypeOK
  <2>3. Append(inbox[p], Message(e)) \in Seq(Messages)
    BY <2>2, AppendProperties
  <2> QED
    BY <2>1, <2>2, <2>3
<1>9. ASSUME NEW p \in Processes, sub[p] = "listening"
      PROVE  /\ Len(inbox'[p]) = Len(inbox[p]) + 1 /\ Reached(p)' = Reached(p)
             /\ \A i \in DOMAIN inbox'[p] : inbox'[p][i] = Message(log'[Reached(p) + i])
  <2>1. PICK k \in Nat : k = Len(inbox[p]) /\ DOMAIN inbox[p] = 1..k
    BY Sizes
  <2>2. PICK r \in Nat : r = Reached(p) /\ r + k = n
    BY <1>1, <2>1, Sizes
  <2>3. /\ Len(inbox'[p]) = k + 1 /\ DOMAIN inbox'[p] = 1..(k + 1)
        /\ inbox'[p][k + 1] = Message(e) /\ \A i \in 1..k : inbox'[p][i] = inbox[p][i]
    <3>1. Message(e) \in Messages /\ inbox[p] \in Seq(Messages)
      BY DEF Messages, TypeOK
    <3>2. PICK box \in Seq(Messages) : box = Append(inbox[p], Message(e)) /\ box = inbox'[p]
      BY <1>8, <1>9
    <3>3. /\ Len(box) = k + 1 /\ box[k + 1] = Message(e)
          /\ \A i \in 1..k : box[i] = inbox[p][i]
      <4>1. PICK m \in Messages, b \in Seq(Messages) : m = Message(e) /\ b = inbox[p]
        BY <3>1
      <4>2. Len(b) = k /\ box = Append(b, m)
        BY <2>1, <3>2, <4>1
      <4>3. Len(box) = k + 1 /\ box[k + 1] = m /\ \A i \in 1..k : box[i] = b[i]
        BY <4>2, AppendProperties
      <4> QED
        BY <4>1, <4>3
    <3>4. DOMAIN box = 1..(k + 1)
      BY <3>3, LenProperties
    <3> QED
      BY <3>2, <3>3, <3>4
  <2>4. Reached(p)' = r
    <3>1. Reached(p)' = Len(log') - Len(inbox'[p])
      BY DEF Reached
    <3>2. Len(log') = n + 1 /\ Len(inbox'[p]) = k + 1
      BY <1>2, <2>3
    <3>3. (n + 1) - (k + 1) = r
      BY <2>2
    <3> QED
      BY <3>1, <3>2, <3>3
  <2>5. \A i \in 1..k : r + i \in 1..n /\ inbox[p][i] = Message(log[r + i])
    BY <2>1, <2>2 DEF InboxIsSuffix
  <2>6. \A i \in 1..(k + 1) : i \in 1..k \/ i = k + 1
    BY <2>1
  <2>7. r + (k + 1) = n + 1
    BY <2>2
  <2> QED
    BY <1>2, <2>1, <2>2, <2>3, <2>4, <2>5, <2>6, <2>7, ZenonT(60)
<1>10. ASSUME NEW p \in Processes, sub[p] # "listening"
       PROVE  /\ inbox'[p] = <<>> /\ Reached(p)' = n + 1 /\ Reached(p) = n
  <2>1. inbox[p] = <<>> /\ inbox'[p] = <<>>
    BY <1>8, <1>10 DEF InboxIsSuffix, TypeOK
  <2>2. Reached(p) = Len(log) - Len(inbox[p]) /\ Reached(p)' = Len(log') - Len(inbox'[p])
    BY DEF Reached
  <2>3. Len(inbox[p]) = 0 /\ Len(inbox'[p]) = 0
    BY <2>1
  <2> QED
    BY <1>1, <1>2, <2>1, <2>2, <2>3
<1>11. \A p \in Processes : Reached(p)' >= Reached(p) /\ Reached(p)' \in Nat /\ Reached(p) \in Nat
  BY <1>1, <1>9, <1>10, Sizes
<1>12. InboxIsSuffix'
  <2> SUFFICES ASSUME NEW p \in Processes
               PROVE  /\ Len(inbox'[p]) <= Len(log')
                      /\ sub'[p] = "dead" => inbox'[p] = <<>>
                      /\ \A i \in DOMAIN inbox'[p] :
                           inbox'[p][i] = Message(log'[Reached(p)' + i])
                      /\ Looping(p)' => /\ sub'[p] = "listening" /\ Reached(p)' >= 1
                                        /\ current'[p] = Message(log'[Reached(p)'])
    BY DEF InboxIsSuffix, Message, ChannelOf
  <2>1. CASE sub[p] = "listening"
    <3>1. Len(inbox'[p]) <= Len(log')
      BY <1>1, <1>2, <1>9, <2>1, Sizes
    <3>2. sub' = sub /\ current' = current /\ Looping(p)' = Looping(p)
      BY DEF Publish, Looping
    <3>3. Looping(p) => Reached(p) \in 1..n /\ current[p] = Message(log[Reached(p)])
      BY <1>1, Sizes DEF InboxIsSuffix
    <3> QED
      BY <1>2, <1>9, <2>1, <3>1, <3>2, <3>3
  <2>2. CASE sub[p] # "listening"
    <3>1. inbox'[p] = <<>> /\ Len(inbox'[p]) = 0 /\ DOMAIN inbox'[p] = {}
      BY <1>10, <2>2
    <3>2. ~Looping(p) /\ current' = current
      BY <2>2 DEF InboxIsSuffix, Publish
    <3> QED
      BY <1>2, <3>1, <3>2 DEF Looping
  <2> QED
    BY <2>1, <2>2
<1>13. TypeOK'
  <2>1. inbox' \in [Processes -> Seq(Messages)]
    BY <1>8 DEF Publish
  <2>2. due' \subseteq Events \X Clients
    BY DEF Publish, TypeOK
  <2>3. publisher' \in [Events -> {"ready", "published", "dropped"}]
    BY DEF Publish, TypeOK
  <2> QED
    BY <1>2, <2>1, <2>2, <2>3 DEF Publish, TypeOK, Looping
<1>14. SeenReached'
  <2> SUFFICES ASSUME NEW c \in Clients, NEW x \in Elements(received[c])
               PROVE  /\ x \in Elements(log') /\ Position(x)' <= Reached(Home[c])'
                      /\ c \in todo[Home[c]] => Position(x)' < Reached(Home[c])'
    BY DEF SeenReached, Publish, Elements
  <2>1. /\ x \in Elements(log) /\ Position(x) <= Reached(Home[c])
        /\ c \in todo[Home[c]] => Position(x) < Reached(Home[c])
    BY DEF SeenReached
  <2>2. x \in Elements(log')
    BY <1>1, <1>2, <2>1 DEF Elements
  <2>3. Position(x)' = Position(x) /\ Position(x) \in Nat
    BY <1>6, <2>1, LogPositions
  <2> QED
    BY <1>11, <2>1, <2>2, <2>3, HomeType
<1>15. InSet'
  BY DEF InSet, Publish
<1>16. TenantIsolation'
  BY DEF TenantIsolation, Publish, Elements
<1>17. ASSUME NEW c \in Clients, NEW x \in Elements(received[c])
       PROVE  x \in Elements(log)
  BY DEF SeenReached
<1>18. InOrderOnce'
  <2>1. \A c \in Clients : \A i \in DOMAIN received[c] : received[c][i] \in Elements(log)
    BY <1>17 DEF Elements
  <2> QED
    BY <1>6, <2>1 DEF InOrderOnce, Publish
<1>19. ASSUME NEW i \in 1..n, NEW c \in Clients
       PROVE  log'[i] = log[i] /\ (Owed(i, c)' <=> Owed(i, c))
  <2>1. log'[i] = log[i] /\ log[i] # e /\ \A j \in 1..i : log'[j] = log[j]
    BY <1>1, <1>2, <1>4
  <2>2. <<log[i], c>> \in due' <=> <<log[i], c>> \in due
    BY <2>1 DEF Publish
  <2> QED
    BY <2>1, <2>2, ZenonT(60) DEF Owed, Publish, Elements
<1>20. NoGap'
  <2>1. ASSUME NEW c \in Clients \ raced, NEW x \in Elements(received[c]),
               NEW i \in 1..Position(x), Owed(i, c)'
        PROVE  log'[i] \in Elements(received[c])
    <3>1. Position(x) \in 1..n
      BY <1>1, <1>17, LogPositions
    <3>2. i \in 1..n
      BY <1>1, <3>1
    <3> QED
      BY <1>19, <2>1, <3>2 DEF NoGap
  <2>2. \A c \in Clients : \A x \in Elements(received[c]) : Position(x)' = Position(x)
    BY <1>6, <1>17
  <2>3. received' = received /\ raced' = raced
    BY DEF Publish
  <2> QED
    BY <2>1, <2>2, <2>3 DEF NoGap, Elements
<1>21. KeptUp'
  <2> SUFFICES ASSUME NEW c \in Clients \ raced, conn[c] = "open", sub[Home[c]] = "listening",
                      NEW i \in 1..Reached(Home[c])', Owed(i, c)'
               PROVE  \/ log'[i] \in Elements(received[c])
                      \/ i = Reached(Home[c])' /\ c \in todo[Home[c]]
    BY DEF KeptUp, Publish, Elements
  <2>1. Reached(Home[c])' = Reached(Home[c]) /\ Reached(Home[c]) \in 0..n
    BY <1>1, <1>9, HomeType, Sizes
  <2>2. i \in 1..n
    BY <1>1, <2>1
  <2> QED
    BY <1>19, <2>1, <2>2 DEF KeptUp
<1> QED
  BY <1>7, <1>12, <1>13, <1>14, <1>15, <1>16, <1>18, <1>20, <1>21


(* A step that neither publishes nor sends, nor touches what process p has *)
(* reached, the subscribers' states or the loops.                          *)
LEMMA QuietInboxes ==
  ASSUME InboxIsSuffix, UNCHANGED <<log, inbox, sub, current>>
  PROVE  InboxIsSuffix' /\ \A p : Reached(p)' = Reached(p)
BY DEF InboxIsSuffix, Reached, Looping, Message, ChannelOf

LEMMA QuietSeen ==
  ASSUME SeenReached, UNCHANGED <<log, received>>, \A e : Position(e)' = Position(e),
         \A p : Reached(p)' = Reached(p),
         \A c \in Clients : c \in todo'[Home[c]] => c \in todo[Home[c]] \/ received[c] = <<>>
  PROVE  SeenReached'
<1>1. \A c : received[c] = <<>> => Elements(received[c]) = {}
  BY DEF Elements
<1> QED
  BY <1>1 DEF SeenReached, Elements

LEMMA ConnectKeeps ==
  ASSUME IInv, NEW c \in Clients, Connect(c) \/ Close(c)
  PROVE  IInv'
<1> USE DEF IInv, Connect, Close
<1>1. UNCHANGED <<log, publisher, inbox, sub, current, todo, clients, received, raced, due>>
  OBVIOUS
<1>2. LogOnce' /\ TenantIsolation' /\ InOrderOnce' /\ NoGap'
      /\ (\A e : Position(e)' = Position(e)) /\ (\A i, d : Owed(i, d)' <=> Owed(i, d))
  BY <1>1, Quiet DEF LogOnce
<1>3. InboxIsSuffix' /\ \A p : Reached(p)' = Reached(p)
  BY <1>1, QuietInboxes
<1>4. SeenReached'
  BY <1>1, <1>2, <1>3, QuietSeen
<1>5. conn' \in [Clients -> {"new", "inserting", "open", "erasing", "closed"}]
      /\ (\A d \in Clients : conn'[d] = "open" => conn[d] = "open")
      /\ (\A d \in Clients : conn[d] \in {"open", "erasing"} => conn'[d] \in {"open", "erasing"})
      /\ (\A d \in Clients : conn'[d] \in {"new", "inserting"} => conn[d] \in {"new", "inserting"})
  <2>1. PICK st \in {"erasing", "inserting"} :
          /\ conn' = [conn EXCEPT ![c] = st]
          /\ conn[c] = "new" \/ (conn[c] = "open" /\ st = "erasing")
    OBVIOUS
  <2>2. conn'[c] = st /\ \A d \in Clients : d # c => conn'[d] = conn[d]
    BY <2>1 DEF TypeOK
  <2> QED
    BY <2>1, <2>2 DEF TypeOK
<1>6. TypeOK'
  <2>1. \A p \in Processes : clients[p] \subseteq
          {d \in Clients : Home[d] = p /\ conn'[d] \in {"open", "erasing"}}
    BY <1>5 DEF TypeOK
  <2> QED
    BY <1>1, <1>5, <2>1 DEF TypeOK, Looping
<1>7. InSet'
  BY <1>1, <1>5 DEF InSet
<1>8. KeptUp'
  <2>1. \A d \in Clients : conn'[d] = "open" => conn[d] = "open"
    BY <1>5
  <2> QED
    BY <1>1, <1>2, <1>3, <2>1 DEF KeptUp, Elements
<1> QED
  BY <1>2, <1>3, <1>4, <1>6, <1>7, <1>8

(* An edit of the set: what it races with is no longer promised anything.  *)
LEMMA EditKeeps ==
  ASSUME IInv, NEW c \in Clients, EventLoop(c)
  PROVE  IInv'
<1> USE DEF IInv
<1>1. PICK p \in Processes : p = Home[c]
  BY HomeType
<1>2. /\ UNCHANGED <<log, publisher, inbox, sub, current, received, due>>
      /\ conn[c] \in {"inserting", "erasing"}
  BY DEF EventLoop, Insert, Erase
<1>3. raced' = raced \/ (raced' = raced \cup clients[p] \cup {c})
  BY <1>1 DEF EventLoop, Insert, Erase, NoteRace
<1>4. raced \subseteq raced' /\ raced' \subseteq Clients
  BY <1>1, <1>3 DEF TypeOK
<1>5. LogOnce' /\ TenantIsolation' /\ InOrderOnce' /\ NoGap'
      /\ (\A e : Position(e)' = Position(e)) /\ (\A i, d : Owed(i, d)' <=> Owed(i, d))
  BY <1>2, <1>4, Quiet DEF LogOnce
<1>6. InboxIsSuffix' /\ \A q : Reached(q)' = Reached(q)
  BY <1>2, QuietInboxes
<1>7. PICK st \in {"open", "closed"}, set \in SUBSET Clients, rest \in SUBSET Clients :
        /\ conn' = [conn EXCEPT ![c] = st]
        /\ clients' = [clients EXCEPT ![p] = set] /\ todo' = [todo EXCEPT ![p] = rest]
        /\ rest \subseteq set /\ rest \subseteq todo[p] \cup (IF st = "open" THEN {c} ELSE {})
        /\ rest # {} => Looping(p)
        /\ st = "open" => /\ conn[c] = "inserting" /\ clients[p] \subseteq set
                          /\ set \subseteq clients[p] \cup {c}
                          /\ c \notin set => Overlap(p, c)
        /\ st = "closed" => set = clients[p] \ {c} /\ conn[c] = "erasing"
        /\ ~Looping(p) => rest = {}
  <2>1. CASE Insert(c)
    <3>1. PICK set \in {clients[p] \cup {c}} \cup (IF Overlap(p, c) THEN {clients[p]} ELSE {}),
               r \in LoopAfter(p, todo[p]) \cup LoopAfter(p, todo[p] \cup {c}) :
            clients' = [clients EXCEPT ![p] = set] /\ todo' = [todo EXCEPT ![p] = r \cap set]
      BY <1>1, <2>1 DEF Insert
    <3>2. clients[p] \subseteq Clients /\ todo[p] \subseteq Clients
      BY <1>1 DEF TypeOK
    <3>3. /\ set \in SUBSET Clients /\ clients[p] \subseteq set /\ set \subseteq clients[p] \cup {c}
          /\ c \notin set => Overlap(p, c)
      BY <3>1, <3>2
    <3>4. r \subseteq todo[p] \cup {c} /\ (~Looping(p) => r = {})
      BY <3>1 DEF LoopAfter
    <3>5. conn' = [conn EXCEPT ![c] = "open"] /\ conn[c] = "inserting"
      BY <2>1 DEF Insert
    <3>6. r \cap set \in SUBSET Clients /\ r \cap set \subseteq set
          /\ r \cap set \subseteq todo[p] \cup {c} /\ (r \cap set # {} => Looping(p))
          /\ (~Looping(p) => r \cap set = {})
      BY <3>3, <3>4
    <3> QED
      BY <3>1, <3>3, <3>5, <3>6
  <2>2. CASE Erase(c)
    <3>1. PICK r \in LoopAfter(p, todo[p] \ {c}) : todo' = [todo EXCEPT ![p] = r]
      BY <1>1, <2>2 DEF Erase
    <3>2. clients[p] \subseteq Clients /\ todo[p] \subseteq clients[p]
      BY <1>1 DEF TypeOK
    <3>3. r \subseteq todo[p] \ {c} /\ (~Looping(p) => r = {})
      BY <3>1 DEF LoopAfter
    <3>4. /\ conn' = [conn EXCEPT ![c] = "closed"] /\ conn[c] = "erasing"
          /\ clients' = [clients EXCEPT ![p] = clients[p] \ {c}]
      BY <1>1, <2>2 DEF Erase
    <3>5. r \in SUBSET Clients /\ r \subseteq clients[p] \ {c}
          /\ clients[p] \ {c} \in SUBSET Clients
      BY <3>2, <3>3
    <3> QED
      BY <3>1, <3>3, <3>4, <3>5
  <2> QED
    BY <2>1, <2>2 DEF EventLoop
<1>8. /\ \A d \in Clients : d # c => conn'[d] = conn[d]
      /\ conn'[c] = st /\ conn' \in [Clients -> {"new", "inserting", "open", "erasing", "closed"}]
  BY <1>7 DEF TypeOK
<1>9. /\ clients' \in [Processes -> SUBSET Clients] /\ todo' \in [Processes -> SUBSET Clients]
      /\ clients'[p] = set /\ todo'[p] = rest
      /\ \A q \in Processes \ {p} : clients'[q] = clients[q] /\ todo'[q] = todo[q]
  BY <1>7 DEF TypeOK
<1>10. TypeOK'
  <2>1. ASSUME NEW q \in Processes
        PROVE  /\ clients'[q] \subseteq
                    {d \in Clients : Home[d] = q /\ conn'[d] \in {"open", "erasing"}}
               /\ todo'[q] \subseteq clients'[q]
               /\ todo'[q] # {} => Looping(q)
    <3>1. /\ clients[q] \subseteq {d \in Clients : Home[d] = q /\ conn[d] \in {"open", "erasing"}}
          /\ todo[q] \subseteq clients[q] /\ (todo[q] # {} => Looping(q))
      BY DEF TypeOK
    <3>2. CASE q = p
      <4>1. set \subseteq {d \in Clients : Home[d] = p /\ conn'[d] \in {"open", "erasing"}}
        BY <1>1, <1>7, <1>8, <3>1, <3>2
      <4> QED
        BY <1>7, <1>9, <3>2, <4>1
    <3>3. CASE q # p
      BY <1>1, <1>8, <1>9, <3>1, <3>3
    <3> QED
      BY <3>2, <3>3
  <2>2. \A q : Looping(q)' = Looping(q)
    BY <1>2 DEF Looping
  <2> QED
    BY <1>2, <1>4, <1>8, <1>9, <2>1, <2>2 DEF TypeOK
<1>11. SeenReached'
  <2>1. ASSUME NEW d \in Clients, d \in todo'[Home[d]]
        PROVE  d \in todo[Home[d]] \/ received[d] = <<>>
    <3>1. CASE Home[d] = p /\ d = c /\ st = "open"
      BY <1>7, <3>1 DEF InSet
    <3>2. CASE Home[d] = p /\ ~(d = c /\ st = "open")
      BY <1>7, <1>9, <2>1, <3>2
    <3>3. CASE Home[d] # p
      BY <1>9, <2>1, <3>3, HomeType
    <3> QED
      BY <3>1, <3>2, <3>3
  <2> QED
    BY <1>2, <1>5, <1>6, <2>1, QuietSeen
<1>12. Overlap(p, c) => c \in raced' /\ clients[p] \subseteq raced'
  BY <1>1 DEF EventLoop, Insert, Erase, NoteRace
<1>13. InSet'
  <2> SUFFICES ASSUME NEW d \in Clients
               PROVE  /\ conn'[d] = "open" /\ d \notin raced' => d \in clients'[Home[d]]
                      /\ conn'[d] \in {"new", "inserting"} =>
                           received[d] = <<>> /\ \A e \in Events : <<e, d>> \notin due
    BY <1>2 DEF InSet
  <2>1. CASE d = c
    BY <1>1, <1>7, <1>8, <1>9, <1>12, <2>1
  <2>2. CASE d # c
    <3>1. conn'[d] = conn[d] /\ (d \in clients[Home[d]] => d \in clients'[Home[d]])
      BY <1>7, <1>8, <1>9, <2>2, HomeType
    <3> QED
      BY <1>4, <3>1 DEF InSet
  <2> QED
    BY <2>1, <2>2
<1>14. KeptUp'
  <2> SUFFICES ASSUME NEW d \in Clients \ raced', conn'[d] = "open", sub[Home[d]] = "listening",
                      NEW i \in 1..Reached(Home[d]), Owed(i, d)
               PROVE  \/ log[i] \in Elements(received[d])
                      \/ i = Reached(Home[d]) /\ d \in todo'[Home[d]]
    BY <1>2, <1>5, <1>6 DEF KeptUp, Elements
  <2>1. CASE d = c
    <3>1. received[c] = <<>> /\ \A e \in Events : <<e, c>> \notin due
      BY <1>7, <1>8, <2>1 DEF InSet
    <3>2. Elements(received[c]) = {}
      BY <3>1 DEF Elements
    <3>3. i \in 1..Len(log)
      BY HomeType, Sizes, LogPositions
    <3>4. log[i] \in Events
      BY <3>3, LogPositions
    <3> QED
      BY <2>1, <3>1, <3>2, <3>4 DEF Owed
  <2>2. CASE d # c
    <3>1. conn[d] = "open" /\ d \notin raced
      BY <1>4, <1>8, <2>2
    <3>2. d \in clients[Home[d]]
      BY <3>1 DEF InSet
    <3>3. d \in todo[Home[d]] => d \in todo'[Home[d]]
      <4>1. CASE Home[d] = p
        <5>1. ~Overlap(p, c)
          BY <1>12, <3>2, <4>1
        <5>2. todo[p] = {}
          BY <1>1, <5>1 DEF Overlap, TypeOK
        <5> QED
          BY <4>1, <5>2
      <4>2. CASE Home[d] # p
        BY <1>9, <4>2, HomeType
      <4> QED
        BY <4>1, <4>2
    <3> QED
      BY <3>1, <3>3 DEF KeptUp
  <2> QED
    BY <2>1, <2>2
<1> QED
  BY <1>5, <1>6, <1>10, <1>11, <1>13, <1>14

LEMMA TakeKeeps ==
  ASSUME IInv, NEW p \in Processes, Take(p)
  PROVE  IInv'
<1> USE DEF IInv
<1>1. /\ UNCHANGED <<log, publisher, sub, conn, clients, received, due>>
      /\ sub[p] = "listening" /\ ~Looping(p) /\ inbox[p] # <<>>
  BY DEF Take
<1>2. raced \subseteq raced' /\ raced' \subseteq Clients
  BY DEF Take, TypeOK, Editing
<1>3. LogOnce' /\ TenantIsolation' /\ InOrderOnce' /\ NoGap'
      /\ (\A e : Position(e)' = Position(e)) /\ (\A i, d : Owed(i, d)' <=> Owed(i, d))
  BY <1>1, <1>2, Quiet DEF LogOnce
<1>4. todo[p] = {}
  BY <1>1 DEF TypeOK
<1>5. PICK b \in Seq(Messages) : b = inbox[p]
  BY DEF TypeOK
<1>6. PICK k \in Nat : k = Len(b) /\ k >= 1 /\ DOMAIN b = 1..k
  BY <1>1, <1>5, EmptySeq, LenProperties
<1>7. PICK t \in Seq(Messages) : t = Tail(b) /\ Head(b) = b[1] /\ b[1] \in Messages
  <2>1. b # <<>> /\ 1 \in 1..k
    BY <1>1, <1>5, <1>6
  <2>2. b[1] \in Messages
    BY <1>6, <2>1, ElementOfSeq
  <2>3. Tail(b) \in Seq(Messages) /\ Head(b) = b[1]
    BY <2>1, HeadTailProperties
  <2> QED
    BY <2>2, <2>3
<1>8. Len(t) = k - 1 /\ DOMAIN t = 1..(k - 1) /\ \A i \in 1..(k - 1) : t[i] = b[i + 1]
  BY <1>1, <1>5, <1>6, <1>7, HeadTailProperties, LenProperties
<1>9. /\ inbox' \in [Processes -> Seq(Messages)] /\ inbox'[p] = t
      /\ current' \in [Processes -> Messages \cup {NoEvent}] /\ current'[p] = b[1]
      /\ todo' \in [Processes -> SUBSET Clients] /\ todo'[p] = clients[p]
      /\ \A q \in Processes \ {p} :
           inbox'[q] = inbox[q] /\ current'[q] = current[q] /\ todo'[q] = todo[q]
  BY <1>5, <1>7 DEF Take, TypeOK
<1>10. PICK n \in Nat : n = Len(log)
  BY LogPositions
<1>11. PICK m \in Nat : m = Reached(p) /\ m + k = n
  BY <1>5, <1>6, <1>10, Sizes
<1>12. Reached(p)' = m + 1 /\ m + 1 \in 1..n
  <2>1. Reached(p)' = Len(log') - Len(inbox'[p])
    BY DEF Reached
  <2> QED
    BY <1>1, <1>6, <1>8, <1>9, <1>10, <1>11, <2>1
<1>13. \A q \in Processes \ {p} : Reached(q)' = Reached(q)
  BY <1>1, <1>9 DEF Reached
<1>14. \A i \in 1..k : b[i] = Message(log[m + i])
  BY <1>5, <1>6, <1>11 DEF InboxIsSuffix
<1>15. InboxIsSuffix'
  <2> SUFFICES ASSUME NEW q \in Processes
               PROVE  /\ Len(inbox'[q]) <= Len(log)
                      /\ sub[q] = "dead" => inbox'[q] = <<>>
                      /\ \A i \in DOMAIN inbox'[q] : inbox'[q][i] = Message(log[Reached(q)' + i])
                      /\ current'[q] # NoEvent => /\ sub[q] = "listening" /\ Reached(q)' >= 1
                                                  /\ current'[q] = Message(log[Reached(q)'])
    BY <1>1 DEF InboxIsSuffix, Looping, Message, ChannelOf
  <2>1. CASE q = p
    <3>1. \A i \in 1..(k - 1) : i + 1 \in 1..k /\ m + (i + 1) = (m + 1) + i
      BY <1>6, <1>11
    <3>2. \A i \in 1..(k - 1) : t[i] = Message(log[(m + 1) + i])
      BY <1>8, <1>14, <3>1
    <3>3. b[1] = Message(log[m + 1]) /\ m + 1 >= 1 /\ k - 1 <= n
      BY <1>6, <1>11, <1>14
    <3> QED
      BY <1>1, <1>8, <1>9, <1>10, <1>12, <2>1, <3>2, <3>3
  <2>2. CASE q # p
    BY <1>9, <1>13, <2>2 DEF InboxIsSuffix, Looping
  <2> QED
    BY <2>1, <2>2
<1>16. TypeOK'
  <2>1. \A q \in Processes :
          todo'[q] \subseteq clients[q] /\ (todo'[q] # {} => current'[q] # NoEvent)
    <3>1. current'[p] # NoEvent
      BY <1>7, <1>9, MessageAssumption
    <3>2. \A q \in Processes :
            todo[q] \subseteq clients[q] /\ (todo[q] # {} => current[q] # NoEvent)
      BY DEF TypeOK, Looping
    <3> QED
      BY <1>9, <3>1, <3>2
  <2> QED
    BY <1>1, <1>2, <1>9, <2>1 DEF TypeOK, Looping
<1>17. SeenReached'
  <2> SUFFICES ASSUME NEW c \in Clients, NEW x \in Elements(received[c])
               PROVE  /\ x \in Elements(log) /\ Position(x) <= Reached(Home[c])'
                      /\ c \in todo'[Home[c]] => Position(x) < Reached(Home[c])'
    BY <1>1, <1>3 DEF SeenReached, Elements
  <2>1. /\ x \in Elements(log) /\ Position(x) <= Reached(Home[c])
        /\ c \in todo[Home[c]] => Position(x) < Reached(Home[c])
    BY DEF SeenReached
  <2>2. Position(x) \in Nat
    BY <2>1, LogPositions
  <2> QED
    BY <1>9, <1>11, <1>12, <1>13, <2>1, <2>2, HomeType, SMTT(30)
<1>18. InSet'
  BY <1>1, <1>2 DEF InSet
<1>19. KeptUp'
  <2> SUFFICES ASSUME NEW d \in Clients \ raced', conn[d] = "open", sub[Home[d]] = "listening",
                      NEW i \in 1..Reached(Home[d])', Owed(i, d)
               PROVE  \/ log[i] \in Elements(received[d])
                      \/ i = Reached(Home[d])' /\ d \in todo'[Home[d]]
    BY <1>1, <1>3 DEF KeptUp, Elements
  <2>1. d \notin raced
    BY <1>2
  <2>2. CASE Home[d] = p
    <3>1. d \in clients[p]
      BY <2>1, <2>2 DEF InSet
    <3>2. CASE i = m + 1
      BY <1>9, <1>12, <2>2, <3>1, <3>2
    <3>3. CASE i # m + 1
      <4>1. i \in 1..m
        BY <1>11, <1>12, <2>2, <3>3
      <4> QED
        BY <1>4, <1>11, <2>1, <2>2, <4>1 DEF KeptUp
    <3> QED
      BY <3>2, <3>3
  <2>3. CASE Home[d] # p
    BY <1>9, <1>13, <2>1, <2>3, HomeType DEF KeptUp
  <2> QED
    BY <2>2, <2>3
<1> QED
  BY <1>3, <1>15, <1>16, <1>17, <1>18, <1>19

LEMMA VisitKeeps ==
  ASSUME IInv, NEW p \in Processes, Visit(p)
  PROVE  IInv'
<1> USE DEF IInv
<1>1. /\ UNCHANGED <<log, publisher, inbox, sub, current, conn, clients, raced, due>>
      /\ Looping(p)
  BY DEF Visit
<1>2. PICK m \in Nat : m = Reached(p) /\ m \in 1..Len(log)
  BY <1>1, Sizes, LogPositions DEF InboxIsSuffix
<1>3. PICK e \in Events : e = log[m] /\ Position(e) = m /\ e \in Elements(log)
  BY <1>2, LogPositions DEF Elements
<1>4. current[p] = Message(e) /\ sub[p] = "listening"
  BY <1>1, <1>2, <1>3 DEF InboxIsSuffix
<1>5. PICK c \in todo[p] :
        /\ todo' = [todo EXCEPT ![p] = @ \ {c}]
        /\ received' = IF ClientTenant[c] = EventTenant[e] /\ conn[c] = "open"
                       THEN [received EXCEPT ![c] = Append(@, e)] ELSE received
  BY <1>4, TenantOfMessage DEF Visit
<1>6. c \in Clients /\ Home[c] = p /\ conn[c] \in {"open", "erasing"}
  BY <1>5 DEF TypeOK
<1>7. /\ todo' \in [Processes -> SUBSET Clients]
      /\ todo'[p] = todo[p] \ {c} /\ \A q \in Processes \ {p} : todo'[q] = todo[q]
  BY <1>5 DEF TypeOK
<1>8. (\A x : Position(x)' = Position(x)) /\ LogOnce'
  BY <1>1, Positions DEF LogOnce, Elements
<1>9. InboxIsSuffix' /\ \A q : Reached(q)' = Reached(q)
  BY <1>1, QuietInboxes
<1>10. \A q \in Processes : /\ todo'[q] \subseteq todo[q]
                            /\ todo'[q] \subseteq clients[q] /\ (todo'[q] # {} => Looping(q))
  BY <1>7 DEF TypeOK
<1>11. \A x \in Elements(received[c]) :
         /\ x \in Elements(log) /\ Position(x) \in Nat /\ Position(x) < m
         /\ EventTenant[x] = ClientTenant[c]
  BY <1>2, <1>5, <1>6, LogPositions DEF SeenReached, TenantIsolation
<1>12. CASE received' = received
  <2>1. \A i, d : Owed(i, d)' <=> Owed(i, d)
    BY <1>1, <1>12 DEF Owed, Elements
  <2>2. TenantIsolation' /\ InOrderOnce' /\ NoGap'
    BY <1>1, <1>12, Quiet DEF LogOnce
  <2>3. SeenReached'
    BY <1>1, <1>8, <1>9, <1>10, <1>12, HomeType, QuietSeen
  <2>4. InSet'
    BY <1>1, <1>12 DEF InSet
  <2>5. TypeOK'
    BY <1>1, <1>7, <1>10, <1>12 DEF TypeOK, Looping
  <2>6. ~(ClientTenant[c] = EventTenant[e] /\ conn[c] = "open")
    <3>1. received[c] \in Seq(Events)
      BY <1>6 DEF TypeOK
    <3>2. Append(received[c], e) # received[c]
      BY <3>1, AppendProperties, LenProperties
    <3> QED
      BY <1>5, <1>6, <1>12, <3>2 DEF TypeOK
  <2>7. KeptUp'
    <3> SUFFICES ASSUME NEW d \in Clients \ raced, conn[d] = "open", sub[Home[d]] = "listening",
                        NEW i \in 1..Reached(Home[d]), Owed(i, d)
                 PROVE  \/ log[i] \in Elements(received[d])
                        \/ i = Reached(Home[d]) /\ d \in todo'[Home[d]]
      BY <1>1, <1>9, <1>12, <2>1 DEF KeptUp, Elements
    <3>1. \/ log[i] \in Elements(received[d])
          \/ i = Reached(Home[d]) /\ d \in todo[Home[d]]
      BY DEF KeptUp
    <3>2. CASE d = c
      BY <1>2, <1>3, <1>6, <2>6, <3>1, <3>2 DEF Owed
    <3>3. CASE d # c
      BY <1>6, <1>7, <3>1, <3>3, HomeType
    <3> QED
      BY <3>2, <3>3
  <2> QED
    BY <1>8, <1>9, <2>2, <2>3, <2>4, <2>5, <2>7
<1>13. CASE received' = [received EXCEPT ![c] = Append(@, e)]
            /\ ClientTenant[c] = EventTenant[e] /\ conn[c] = "open"
  <2>1. PICK s \in Seq(Events) : s = received[c]
    BY <1>6 DEF TypeOK
  <2>2. PICK k \in Nat : k = Len(s) /\ DOMAIN s = 1..k
    BY LenProperties
  <2>3. PICK t \in Seq(Events) : t = Append(s, e)
    BY AppendProperties
  <2>4. Len(t) = k + 1 /\ DOMAIN t = 1..(k + 1) /\ t[k + 1] = e /\ \A i \in 1..k : t[i] = s[i]
    BY <2>2, <2>3, AppendProperties, LenProperties
  <2>5. /\ received' \in [Clients -> Seq(Events)] /\ received'[c] = t
        /\ \A d \in Clients \ {c} : received'[d] = received[d]
    BY <1>6, <1>13, <2>1, <2>3 DEF TypeOK
  <2>6. \A i \in 1..(k + 1) : i \in 1..k \/ i = k + 1
    BY <2>2
  <2>7. \A x : x \in Elements(t) <=> x \in Elements(s) \/ x = e
    <3>1. ASSUME NEW x \in Elements(s) PROVE x \in Elements(t)
      <4>1. PICK i \in 1..k : x = s[i]
        BY <2>2, <3>1 DEF Elements
      <4>2. i \in 1..(k + 1) /\ x = t[i]
        BY <2>2, <2>4, <4>1
      <4> QED
        BY <2>4, <4>2 DEF Elements
    <3>2. e \in Elements(t)
      <4>1. k + 1 \in 1..(k + 1)
        BY <2>2
      <4> QED
        BY <2>4, <4>1 DEF Elements
    <3>3. ASSUME NEW x \in Elements(t) PROVE x \in Elements(s) \/ x = e
      BY <2>2, <2>4, <2>6 DEF Elements
    <3> QED
      BY <3>1, <3>2, <3>3
  <2>8. TypeOK'
    BY <1>1, <1>7, <1>10, <2>5 DEF TypeOK, Looping
  <2>9. TenantIsolation'
    <3> SUFFICES ASSUME NEW d \in Clients, NEW x \in Elements(received'[d])
                 PROVE  EventTenant[x] = ClientTenant[d]
      BY DEF TenantIsolation, Elements
    <3>1. CASE d = c
      BY <1>11, <1>13, <2>1, <2>5, <2>7, <3>1
    <3>2. CASE d # c
      BY <2>5, <3>2 DEF TenantIsolation
    <3> QED
      BY <3>1, <3>2
  <2>10. InOrderOnce'
    <3> SUFFICES ASSUME NEW d \in Clients, NEW i \in DOMAIN received'[d],
                        NEW j \in DOMAIN received'[d], i < j
                 PROVE  Position(received'[d][i]) < Position(received'[d][j])
      BY <1>8 DEF InOrderOnce
    <3>1. CASE d # c
      BY <2>5, <3>1 DEF InOrderOnce
    <3>2. CASE d = c
      <4>1. i \in 1..k
        BY <2>2, <2>4, <2>5, <3>2
      <4>2. CASE j \in 1..k
        BY <2>1, <2>2, <2>4, <2>5, <3>2, <4>1, <4>2 DEF InOrderOnce
      <4>3. CASE j = k + 1
        <5>1. s[i] \in Elements(s)
          BY <2>2, <4>1 DEF Elements
        <5> QED
          BY <1>3, <1>11, <2>1, <2>4, <2>5, <3>2, <4>1, <4>3, <5>1
      <4> QED
        BY <2>4, <2>5, <2>6, <3>2, <4>2, <4>3
    <3> QED
      BY <3>1, <3>2
  <2>11. SeenReached'
    <3> SUFFICES ASSUME NEW d \in Clients, NEW x \in Elements(received'[d])
                 PROVE  /\ x \in Elements(log) /\ Position(x) <= Reached(Home[d])
                        /\ d \in todo'[Home[d]] => Position(x) < Reached(Home[d])
      BY <1>1, <1>8, <1>9 DEF SeenReached, Elements
    <3>1. CASE d = c
      BY <1>2, <1>3, <1>6, <1>7, <1>11, <2>1, <2>5, <2>7, <3>1
    <3>2. CASE d # c
      BY <1>10, <2>5, <3>2, HomeType DEF SeenReached
    <3> QED
      BY <3>1, <3>2
  <2>12. InSet'
    <3>1. \A d \in Clients : conn[d] \in {"new", "inserting"} => received'[d] = received[d]
      BY <1>6, <2>5
    <3> QED
      BY <1>1, <3>1 DEF InSet
  <2>13. ASSUME NEW d \in Clients, d # c PROVE \A i : Owed(i, d)' <=> Owed(i, d)
    BY <1>1, <2>5, <2>13 DEF Owed, Elements
  <2>14. ASSUME NEW i \in 1..m, Owed(i, c)', i # m PROVE Owed(i, c)
    <3>1. EventTenant[log[i]] = ClientTenant[c]
          /\ (<<log[i], c>> \in due \/ \E j \in 1..i : log[j] \in Elements(t))
      BY <1>1, <2>5, <2>14 DEF Owed, Elements
    <3>2. ASSUME NEW j \in 1..i, log[j] \in Elements(t) PROVE log[j] \in Elements(s)
      <4>1. j \in 1..Len(log) /\ j # m
        BY <1>2, <2>14, LogPositions
      <4>2. log[j] # e
        BY <1>3, <4>1, LogPositions
      <4> QED
        BY <2>7, <3>2, <4>2
    <3> QED
      BY <2>1, <3>1, <3>2 DEF Owed
  <2>15. ASSUME NEW i \in 1..m, Owed(i, c)', c \notin raced PROVE log[i] \in Elements(t)
    <3>1. CASE i = m
      BY <1>3, <2>7, <3>1
    <3>2. CASE i # m
      <4>1. Owed(i, c)
        BY <2>14, <2>15, <3>2
      <4>2. log[i] \in Elements(received[c])
        BY <1>2, <1>4, <1>6, <1>13, <2>15, <3>2, <4>1 DEF KeptUp
      <4> QED
        BY <2>1, <2>7, <4>2
    <3> QED
      BY <3>1, <3>2
  <2>16. KeptUp'
    <3> SUFFICES ASSUME NEW d \in Clients \ raced, conn[d] = "open", sub[Home[d]] = "listening",
                        NEW i \in 1..Reached(Home[d]), Owed(i, d)'
                 PROVE  \/ log[i] \in Elements(received'[d])
                        \/ i = Reached(Home[d]) /\ d \in todo'[Home[d]]
      BY <1>1, <1>9 DEF KeptUp, Elements
    <3>1. CASE d = c
      BY <1>2, <1>6, <2>5, <2>15, <3>1
    <3>2. CASE d # c
      <4>1. \/ log[i] \in Elements(received[d])
            \/ i = Reached(Home[d]) /\ d \in todo[Home[d]]
        BY <2>13, <3>2 DEF KeptUp
      <4> QED
        BY <1>7, <2>5, <3>2, <4>1, HomeType
    <3> QED
      BY <3>1, <3>2
  <2>17. NoGap'
    <3> SUFFICES ASSUME NEW d \in Clients \ raced, NEW x \in Elements(received'[d]),
                        NEW i \in 1..Position(x), Owed(i, d)'
                 PROVE  log[i] \in Elements(received'[d])
      BY <1>1, <1>8 DEF NoGap, Elements
    <3>1. CASE d = c
      <4>1. Position(x) \in Nat /\ Position(x) <= m
        BY <1>2, <1>3, <1>11, <2>1, <2>5, <2>7, <3>1
      <4>2. i \in 1..m
        BY <1>2, <4>1
      <4> QED
        BY <2>5, <2>15, <3>1, <4>2
    <3>2. CASE d # c
      BY <2>5, <2>13, <3>2 DEF NoGap
    <3> QED
      BY <3>1, <3>2
  <2> QED
    BY <1>8, <1>9, <2>8, <2>9, <2>10, <2>11, <2>12, <2>16, <2>17
<1> QED
  BY <1>5, <1>12, <1>13

(* The loop ends, the subscriber ends, the process starts again: what is   *)
(* lost was not reached, and whom it was for is no longer connected.       *)
LEMMA ProcessKeeps ==
  ASSUME IInv, NEW p \in Processes, EndLoop(p) \/ SubscriberFails(p) \/ Restart(p)
  PROVE  IInv'
<1> USE DEF IInv
<1>1. UNCHANGED <<log, publisher, received, raced, due>>
  BY DEF EndLoop, SubscriberFails, Restart
<1>2. LogOnce' /\ TenantIsolation' /\ InOrderOnce' /\ NoGap'
      /\ (\A e : Position(e)' = Position(e)) /\ (\A i, d : Owed(i, d)' <=> Owed(i, d))
  BY <1>1, Quiet DEF LogOnce
<1>3. /\ todo'[p] = {} /\ current'[p] = NoEvent
      /\ todo' \in [Processes -> SUBSET Clients]
      /\ current' \in [Processes -> Messages \cup {NoEvent}]
      /\ \A q \in Processes \ {p} : todo'[q] = todo[q] /\ current'[q] = current[q]
  <2>1. CASE EndLoop(p)
    BY <2>1 DEF EndLoop, TypeOK
  <2>2. CASE SubscriberFails(p)
    <3>1. current[p] = NoEvent /\ todo[p] = {}
      BY <2>2 DEF SubscriberFails, TypeOK, Looping
    <3> QED
      BY <2>2, <3>1 DEF SubscriberFails, TypeOK
  <2>3. CASE Restart(p)
    BY <2>3 DEF Restart, TypeOK
  <2> QED
    BY <2>1, <2>2, <2>3
<1>4. PICK s \in {"listening", "dead"}, b \in Seq(Messages) :
        /\ sub' = [sub EXCEPT ![p] = s] /\ inbox' = [inbox EXCEPT ![p] = b]
        /\ b = <<>> \/ (b = inbox[p] /\ s = sub[p])
  <2>1. CASE EndLoop(p)
    <3>1. sub[p] \in {"listening", "dead"} /\ inbox[p] \in Seq(Messages)
      BY DEF TypeOK
    <3>2. sub' = [sub EXCEPT ![p] = sub[p]] /\ inbox' = [inbox EXCEPT ![p] = inbox[p]]
      BY <2>1 DEF EndLoop, TypeOK
    <3> QED
      BY <3>1, <3>2
  <2>2. CASE SubscriberFails(p)
    BY <2>2, EmptySeq DEF SubscriberFails
  <2>3. CASE Restart(p)
    BY <2>3, EmptySeq DEF Restart
  <2> QED
    BY <2>1, <2>2, <2>3
<1>5. /\ sub' \in [Processes -> {"listening", "dead"}] /\ inbox' \in [Processes -> Seq(Messages)]
      /\ sub'[p] = s /\ inbox'[p] = b
      /\ \A q \in Processes \ {p} : sub'[q] = sub[q] /\ inbox'[q] = inbox[q]
  BY <1>4 DEF TypeOK
<1>6. PICK n \in Nat : n = Len(log)
  BY LogPositions
<1>7. \A q \in Processes \ {p} : Reached(q)' = Reached(q)
  BY <1>1, <1>5 DEF Reached
<1>8. \A q \in Processes : Reached(q)' \in Nat /\ Reached(q)' >= Reached(q) /\ Reached(q) \in Nat
  <2>1. \A q \in Processes : Reached(q) \in Nat /\ Reached(q) <= n
    BY <1>6, Sizes
  <2>2. CASE b = <<>>
    <3>1. Len(inbox'[p]) = 0 /\ Reached(p)' = Len(log') - Len(inbox'[p])
      BY <1>5, <2>2 DEF Reached
    <3>2. Reached(p)' = n
      BY <1>1, <1>6, <3>1
    <3> QED
      BY <1>6, <1>7, <2>1, <3>2
  <2>3. CASE b = inbox[p]
    <3>1. Reached(p)' = Reached(p)
      BY <1>1, <1>5, <2>3 DEF Reached
    <3> QED
      BY <1>7, <2>1, <3>1
  <2> QED
    BY <1>4, <2>2, <2>3
<1>9. InboxIsSuffix'
  <2> SUFFICES ASSUME NEW q \in Processes
               PROVE  /\ Len(inbox'[q]) <= Len(log)
                      /\ sub'[q] = "dead" => inbox'[q] = <<>>
                      /\ \A i \in DOMAIN inbox'[q] : inbox'[q][i] = Message(log[Reached(q)' + i])
                      /\ current'[q] # NoEvent => /\ sub'[q] = "listening" /\ Reached(q)' >= 1
                                                  /\ current'[q] = Message(log[Reached(q)'])
    BY <1>1 DEF InboxIsSuffix, Looping, Message, ChannelOf
  <2>1. CASE q = p /\ b = <<>>
    <3>1. Len(inbox'[p]) = 0 /\ DOMAIN inbox'[p] = {}
      BY <1>5, <2>1
    <3> QED
      BY <1>3, <1>5, <1>6, <2>1, <3>1
  <2>2. CASE q = p /\ b = inbox[p] /\ s = sub[p]
    <3>1. Reached(p)' = Reached(p)
      BY <1>1, <1>5, <2>2 DEF Reached
    <3> QED
      BY <1>3, <1>5, <2>2, <3>1 DEF InboxIsSuffix
  <2>3. CASE q # p
    <3>1. /\ inbox'[q] = inbox[q] /\ sub'[q] = sub[q] /\ current'[q] = current[q]
          /\ Reached(q)' = Reached(q)
      BY <1>3, <1>5, <1>7, <2>3
    <3> QED
      BY <3>1 DEF InboxIsSuffix, Looping
  <2> QED
    BY <1>4, <2>1, <2>2, <2>3
<1>10. /\ conn' \in [Clients -> {"new", "inserting", "open", "erasing", "closed"}]
       /\ \A d \in Clients : conn'[d] = conn[d] \/ conn'[d] = "closed"
       /\ \A d \in Clients : Home[d] # p => conn'[d] = conn[d]
       /\ clients' \in [Processes -> SUBSET Clients]
       /\ \A q \in Processes \ {p} : clients'[q] = clients[q]
       /\ \/ clients'[p] = clients[p] /\ conn' = conn
          \/ clients'[p] = {} /\ \A d \in Clients : Home[d] = p => conn'[d] \in {"new", "closed"}
  BY DEF EndLoop, SubscriberFails, Restart, TypeOK
<1>11. TypeOK'
  <2>1. ASSUME NEW q \in Processes
        PROVE  /\ clients'[q] \subseteq
                    {d \in Clients : Home[d] = q /\ conn'[d] \in {"open", "erasing"}}
               /\ todo'[q] \subseteq clients'[q] /\ (todo'[q] # {} => current'[q] # NoEvent)
    <3>1. /\ clients[q] \subseteq {d \in Clients : Home[d] = q /\ conn[d] \in {"open", "erasing"}}
          /\ todo[q] \subseteq clients[q] /\ (todo[q] # {} => current[q] # NoEvent)
      BY DEF TypeOK, Looping
    <3>2. CASE q = p
      BY <1>3, <1>10, <3>1, <3>2
    <3>3. CASE q # p
      BY <1>3, <1>10, <3>1, <3>3
    <3> QED
      BY <3>2, <3>3
  <2> QED
    BY <1>1, <1>3, <1>5, <1>10, <2>1 DEF TypeOK, Looping
<1>12. SeenReached'
  <2> SUFFICES ASSUME NEW c \in Clients, NEW x \in Elements(received[c])
               PROVE  /\ x \in Elements(log) /\ Position(x) <= Reached(Home[c])'
                      /\ c \in todo'[Home[c]] => Position(x) < Reached(Home[c])'
    BY <1>1, <1>2 DEF SeenReached, Elements
  <2>1. /\ x \in Elements(log) /\ Position(x) <= Reached(Home[c])
        /\ c \in todo[Home[c]] => Position(x) < Reached(Home[c])
    BY DEF SeenReached
  <2>2. Position(x) \in Nat
    BY <2>1, LogPositions
  <2>3. c \in todo'[Home[c]] => c \in todo[Home[c]]
    BY <1>3, HomeType
  <2> QED
    BY <1>8, <2>1, <2>2, <2>3, HomeType
<1>13. InSet'
  <2> SUFFICES ASSUME NEW d \in Clients
               PROVE  /\ conn'[d] = "open" /\ d \notin raced => d \in clients'[Home[d]]
                      /\ conn'[d] \in {"new", "inserting"} =>
                           received[d] = <<>> /\ \A e \in Events : <<e, d>> \notin due
    BY <1>1 DEF InSet
  <2>1. conn'[d] = "open" => clients'[Home[d]] = clients[Home[d]]
    BY <1>10, HomeType
  <2> QED
    BY <1>10, <2>1 DEF InSet
<1>14. KeptUp'
  <2> SUFFICES ASSUME NEW d \in Clients \ raced, conn'[d] = "open", sub'[Home[d]] = "listening",
                      NEW i \in 1..Reached(Home[d])', Owed(i, d)
               PROVE  \/ log[i] \in Elements(received[d])
                      \/ i = Reached(Home[d])' /\ d \in todo'[Home[d]]
    BY <1>1, <1>2 DEF KeptUp, Elements
  <2>1. conn[d] = "open"
    BY <1>10
  <2>2. CASE Home[d] # p
    <3>1. PICK q \in Processes \ {p} : q = Home[d]
      BY <2>2, HomeType
    <3>2. Reached(q)' = Reached(q) /\ sub'[q] = sub[q] /\ todo'[q] = todo[q]
      BY <1>3, <1>5, <1>7
    <3> QED
      BY <2>1, <3>1, <3>2 DEF KeptUp
  <2>3. CASE Home[d] = p
    <3>1. EndLoop(p)
      <4>1. ~SubscriberFails(p)
        BY <2>3 DEF SubscriberFails, TypeOK
      <4>2. ~Restart(p)
        BY <2>1, <2>3 DEF Restart
      <4> QED
        BY <4>1, <4>2
    <3>2. UNCHANGED <<inbox, sub, todo>>
      BY <3>1 DEF EndLoop
    <3>3. Reached(p)' = Reached(p)
      BY <1>1, <3>2 DEF Reached
    <3> QED
      BY <2>1, <2>3, <3>2, <3>3 DEF KeptUp
  <2> QED
    BY <2>2, <2>3
<1> QED
  BY <1>2, <1>9, <1>11, <1>12, <1>13, <1>14

(* A PUBLISH that goes nowhere, and steps of other parts. *)
LEMMA NothingKeeps ==
  ASSUME IInv, UNCHANGED <<log, inbox, sub, current, todo, conn, clients, received, raced, due>>,
         publisher' \in [Events -> {"ready", "published", "dropped"}],
         \A e \in Events : publisher[e] # "ready" => publisher'[e] # "ready"
  PROVE  IInv'
<1> USE DEF IInv
<1>1. \A e \in Elements(log) : publisher'[e] # "ready"
  BY LogPositions DEF LogOnce
<1>2. LogOnce' /\ TenantIsolation' /\ InOrderOnce' /\ NoGap'
      /\ (\A e : Position(e)' = Position(e)) /\ (\A i, d : Owed(i, d)' <=> Owed(i, d))
  BY <1>1, Quiet
<1>3. InboxIsSuffix' /\ \A p : Reached(p)' = Reached(p)
  BY QuietInboxes
<1>4. SeenReached'
  BY <1>2, <1>3, QuietSeen
<1>5. TypeOK' /\ InSet'
  BY DEF TypeOK, Looping, InSet
<1>6. KeptUp'
  BY <1>2, <1>3 DEF KeptUp, Elements
<1> QED
  BY <1>2, <1>3, <1>4, <1>5, <1>6

LEMMA StepInvariant == IInv /\ [Next]_vars => IInv'
<1> SUFFICES ASSUME IInv, [Next]_vars PROVE IInv'
  OBVIOUS
<1>1. ASSUME NEW e \in Events, PublishNowhere(e) PROVE IInv'
  <2>1. publisher' \in [Events -> {"ready", "published", "dropped"}]
        /\ \A x \in Events : publisher[x] # "ready" => publisher'[x] # "ready"
    BY <1>1 DEF PublishNowhere, IInv, TypeOK
  <2> QED
    BY <1>1, <2>1, NothingKeeps DEF PublishNowhere
<1>2. CASE UNCHANGED vars
  BY <1>2, NothingKeeps DEF vars, IInv, TypeOK
<1> QED
  BY <1>1, <1>2, PublishKeeps, ConnectKeeps, EditKeeps, TakeKeeps, VisitKeeps, ProcessKeeps
     DEF Next, Subscriber

-----------------------------------------------------------------------------
(* The results. *)

(* Every variable keeps its type, and the set of a process holds only its  *)
(* own connections (FlightSocketController::clients).                      *)
THEOREM TypeCorrect == Spec => []TypeOK
<1>1. IInv => TypeOK
  BY DEF IInv
<1> QED
  BY <1>1, InitInvariant, StepInvariant, PTL DEF Spec

(* No event reaches a client of another tenant (broadcast's comparison,    *)
(* along the channel's name and back).                                     *)
THEOREM TenantsIsolated == Spec => []TenantIsolation
<1>1. IInv => TenantIsolation
  BY DEF IInv
<1> QED
  BY <1>1, InitInvariant, StepInvariant, PTL DEF Spec

(* A client sees events in the order Redis accepted them, and none twice,  *)
(* whatever processes, subscriber threads and races do.                    *)
THEOREM OrderKept == Spec => []InOrderOnce
<1>1. IInv => InOrderOnce
  BY DEF IInv
<1> QED
  BY <1>1, InitInvariant, StepInvariant, PTL DEF Spec

(* A client that no race touched has no gap in what it has seen.           *)
THEOREM GapsExplained == Spec => []NoGap
<1>1. IInv => NoGap
  BY DEF IInv
<1> QED
  BY <1>1, InitInvariant, StepInvariant, PTL DEF Spec

(* EventFeed's operators on this state. *)
LEMMA FeedOperators ==
  /\ \A e : Feed!Position(e) = Position(e)
  /\ \A e : e \in Feed!Elements(log) <=> e \in Elements(log)
  /\ \A e, c : e \in Feed!Elements(received[c]) <=> e \in Elements(received[c])
BY DEF Feed!Position, Position, Feed!Elements, Elements

(* The delivery of events, with its processes, subscribers, loops, races   *)
(* and restarts, implements EventFeed: one order of events, of which each  *)
(* client is sent some of its tenant's, in order and never twice.          *)
THEOREM FeedImplemented == Spec => ImplementsFeed
<1>1. Init => Feed!Init
  BY DEF Init, Feed!Init
<1>2. ASSUME IInv, [Next]_vars PROVE [Feed!Next]_(Feed!vars)
  <2>1. ASSUME NEW e \in Events, Publish(e) PROVE Feed!Accept(e)
    <3>1. e \notin Elements(log)
      BY <1>2, <2>1 DEF IInv, LogOnce, Publish
    <3> QED
      BY <2>1, <3>1, FeedOperators DEF Publish, Feed!Accept
  <2>2. ASSUME NEW p \in Processes, Visit(p)
        PROVE  UNCHANGED <<log, received>> \/ \E e \in Events, c \in Clients : Feed!Deliver(e, c)
    <3>1. Looping(p) /\ UNCHANGED log
      BY <2>2 DEF Visit
    <3>2. PICK m \in Nat : m = Reached(p) /\ m \in 1..Len(log)
      BY <1>2, <3>1, Sizes, LogPositions DEF IInv, InboxIsSuffix
    <3>3. PICK e \in Events : e = log[m] /\ Position(e) = m /\ e \in Elements(log)
      BY <1>2, <3>2, LogPositions DEF IInv, Elements
    <3>4. current[p] = Message(e)
      BY <1>2, <3>1, <3>2, <3>3 DEF IInv, InboxIsSuffix
    <3>5. PICK c \in todo[p] :
            received' = IF ClientTenant[c] = EventTenant[e] /\ conn[c] = "open"
                        THEN [received EXCEPT ![c] = Append(@, e)] ELSE received
      BY <2>2, <3>4, TenantOfMessage DEF Visit
    <3>6. c \in Clients /\ Home[c] = p
      BY <1>2, <3>5 DEF IInv, TypeOK
    <3>7. \A x \in Elements(received[c]) : Position(x) < Position(e)
      BY <1>2, <3>2, <3>3, <3>5, <3>6 DEF IInv, SeenReached
    <3>8. CASE ClientTenant[c] = EventTenant[e] /\ conn[c] = "open"
      <4>1. Feed!Deliver(e, c)
        BY <3>1, <3>3, <3>5, <3>7, <3>8, FeedOperators DEF Feed!Deliver
      <4> QED
        BY <3>6, <4>1
    <3>9. CASE ~(ClientTenant[c] = EventTenant[e] /\ conn[c] = "open")
      BY <3>1, <3>5, <3>9
    <3> QED
      BY <3>8, <3>9
  <2>3. ASSUME ~(\E e \in Events : Publish(e)), ~(\E p \in Processes : Visit(p))
        PROVE  UNCHANGED <<log, received>>
    BY <1>2, <2>3 DEF Next, vars, PublishNowhere, Connect, Close, EventLoop, Insert, Erase,
       Subscriber, Take, EndLoop, SubscriberFails, Restart
  <2> QED
    BY <2>1, <2>2, <2>3 DEF Feed!Next, Feed!vars
<1> QED
  BY <1>1, <1>2, InitInvariant, StepInvariant, PTL DEF Spec, ImplementsFeed, Feed!Spec

-----------------------------------------------------------------------------
(* Nothing is lost on the way to a connected client. *)

LEMMA InitDue == Init => DueIsPublished
BY DEF Init, DueIsPublished

LEMMA StepDue == IInv /\ DueIsPublished /\ [Next]_vars => DueIsPublished'
<1> SUFFICES ASSUME IInv, DueIsPublished, [Next]_vars PROVE DueIsPublished'
  OBVIOUS
<1>1. ASSUME NEW x \in Events, Publish(x) PROVE DueIsPublished'
  <2>1. Len(log) \in Nat /\ DOMAIN log = 1..Len(log) /\ log \in Seq(Events)
    BY LogPositions DEF IInv, TypeOK
  <2>2. /\ DOMAIN log' = 1..(Len(log) + 1) /\ log'[Len(log) + 1] = x
        /\ \A i \in 1..Len(log) : log'[i] = log[i]
    BY <1>1, <2>1, AppendProperties, LenProperties DEF Publish
  <2>3. x \in Elements(log') /\ \A e \in Elements(log) : e \in Elements(log')
    BY <2>1, <2>2 DEF Elements
  <2>4. \A e, c : <<e, c>> \in due' => <<e, c>> \in due \/ (e = x /\ ClientTenant[c] = EventTenant[x])
    BY <1>1 DEF Publish
  <2> QED
    BY <2>3, <2>4 DEF DueIsPublished, Elements
<1>2. ASSUME ~(\E x \in Events : Publish(x)) PROVE UNCHANGED <<log, due>>
  BY <1>2 DEF Next, vars, PublishNowhere, Connect, Close, EventLoop, Insert, Erase,
     Subscriber, Take, Visit, EndLoop, SubscriberFails, Restart
<1> QED
  BY <1>1, <1>2 DEF DueIsPublished, Elements

(* An event published while a client of its tenant is connected is on its   *)
(* way to the client until it is sent, in an inbox or in a loop that has    *)
(* the client still to visit: no step but a failing subscriber, a leaving   *)
(* client or a race loses it.                                               *)
THEOREM DueNeverLost == Spec => []DueIsComing
<1>1. IInv /\ DueIsPublished => DueIsComing
  <2> SUFFICES ASSUME IInv, DueIsPublished, NEW e \in Events, NEW c \in Clients,
                      <<e, c>> \in due, ~Served(e, c), ~Excused(c)
               PROVE  Coming(e, c)
    BY DEF DueIsComing
  <2>1. PICK p \in Processes : p = Home[c]
    BY HomeType
  <2>2. conn[c] = "open" /\ c \notin raced /\ sub[p] = "listening" /\ e \notin Elements(received[c])
    BY <2>1 DEF Served, Excused, IInv, TypeOK
  <2>3. PICK i \in 1..Len(log) : log[i] = e /\ Len(log) \in Nat
    BY LogPositions DEF DueIsPublished, Elements, IInv
  <2>4. Owed(i, c)
    BY <2>3 DEF Owed, DueIsPublished
  <2>5. /\ Reached(p) \in 0..Len(log) /\ Len(inbox[p]) \in Nat /\ DOMAIN inbox[p] = 1..Len(inbox[p])
        /\ Reached(p) + Len(inbox[p]) = Len(log)
    BY Sizes DEF IInv
  <2>6. CASE i <= Reached(p)
    <3>1. i \in 1..Reached(p)
      BY <2>3, <2>5, <2>6
    <3>2. i = Reached(p) /\ c \in todo[p]
      BY <2>1, <2>2, <2>3, <2>4, <3>1 DEF IInv, KeptUp
    <3>3. Looping(p)
      BY <3>2 DEF IInv, TypeOK
    <3>4. current[p] = Message(e)
      BY <2>3, <3>2, <3>3 DEF IInv, InboxIsSuffix
    <3> QED
      BY <2>1, <3>2, <3>4 DEF Coming
  <2>7. CASE i > Reached(p)
    <3>1. i - Reached(p) \in DOMAIN inbox[p] /\ Reached(p) + (i - Reached(p)) = i
      BY <2>3, <2>5, <2>7
    <3>2. inbox[p][i - Reached(p)] = Message(log[Reached(p) + (i - Reached(p))])
      BY <3>1 DEF IInv, InboxIsSuffix
    <3>3. inbox[p][i - Reached(p)] = Message(e)
      BY <2>3, <3>1, <3>2
    <3> QED
      BY <2>1, <3>1, <3>3 DEF Coming
  <2> QED
    BY <2>3, <2>5, <2>6, <2>7
<1> QED
  BY <1>1, InitInvariant, StepInvariant, InitDue, StepDue, PTL DEF Spec
=============================================================================
