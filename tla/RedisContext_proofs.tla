------------------------- MODULE RedisContext_proofs -------------------------
(***************************************************************************)
(* What RedisContext promises for any number of calls and flights.         *)
(* RepliesBalance counts what is under way against who waits for it;       *)
(* AnsweredAlone follows from it: a call that is alone finds the context   *)
(* empty, so that everything under way is its own (AloneSeesOwn), and can   *)
(* say where that is (AloneMoves): it never blocks.                         *)
(***************************************************************************)
EXTENDS RedisContext, FiniteSetTheorems, SequenceTheorems, TLAPS

-----------------------------------------------------------------------------
(* How the buffers pass on what they hold: whatever the commands and       *)
(* replies have in common they keep, and nothing is lost or doubled.       *)

LEMMA FlushMoves ==
  ASSUME NEW C, NEW c \in Calls, Flush(c), obuf \in Seq(C), wire \in Seq(C)
  PROVE  /\ obuf' \in Seq(C) /\ wire' \in Seq(C)
         /\ ~skewed' => Len(obuf') + Len(wire') = Len(obuf) + Len(wire) /\ ~skewed
<1>1. wire' \in Seq(C) /\ Len(wire') = Len(wire) + Len(obuf)
  BY ConcatProperties DEF Flush
<1>2. obuf' = obuf \/ obuf' = <<>>
  BY DEF Flush
<1>3. obuf' \in Seq(C)
  BY <1>2, EmptySeq
<1>4. Len(obuf) \in Nat /\ Len(wire) \in Nat
  BY LenProperties
<1>5. ~skewed' => Len(obuf') = 0 /\ ~skewed
  BY DEF Flush
<1> QED
  BY <1>1, <1>3, <1>4, <1>5

LEMMA ReadMoves ==
  ASSUME NEW R, NEW c \in Calls, Read(c), socket \in Seq(R), reader \in Seq(R)
  PROVE  /\ socket' \in Seq(R) /\ reader' \in Seq(R)
         /\ Len(socket') + Len(reader') = Len(socket) + Len(reader)
<1>1. PICK n \in 1..Len(socket) : /\ reader' = reader \o SubSeq(socket, 1, n)
                                  /\ socket' = SubSeq(socket, n + 1, Len(socket))
  BY DEF Read
<1>2. Len(socket) \in Nat /\ Len(reader) \in Nat
      /\ \A i \in 1..Len(socket) : socket[i] \in R
  BY LenProperties, ElementOfSeq
<1>3. SubSeq(socket, 1, n) \in Seq(R) /\ Len(SubSeq(socket, 1, n)) = n
  BY <1>2, SubSeqProperties
<1>4. SubSeq(socket, n + 1, Len(socket)) \in Seq(R)
  BY <1>2, SubSeqProperties
<1>5. Len(SubSeq(socket, n + 1, Len(socket))) = Len(socket) - n
  BY <1>2, SubSeqProperties
<1>6. reader' \in Seq(R) /\ Len(reader') = Len(reader) + n
  BY <1>1, <1>3, ConcatProperties
<1>7. socket' \in Seq(R) /\ Len(socket') = Len(socket) - n
  BY <1>1, <1>4, <1>5
<1> QED
  BY <1>2, <1>6, <1>7

LEMMA TakeMoves ==
  ASSUME NEW R, NEW c \in Calls, TakeHead(c), reader \in Seq(R)
  PROVE  /\ reader' \in Seq(R) /\ Len(reader') = Len(reader) - 1
         /\ Len(reader) \in Nat \ {0}
         /\ Head(reader) \in R
BY HeadTailProperties, EmptySeq DEF TakeHead

(* The command Redis executes next, and its reply. *)
Next1  == Head(wire)
Reply1 == [of |-> Next1, value |-> Answer(Next1)]

LEMMA ServerMoves ==
  ASSUME NEW C, NEW R, ServerExecutes, wire \in Seq(C), socket \in Seq(R), Reply1 \in R
  PROVE  /\ Next1 \in C
         /\ wire' \in Seq(C) /\ socket' \in Seq(R)
         /\ Len(wire') + Len(socket') = Len(wire) + Len(socket)
<1>1. Next1 \in C /\ wire' \in Seq(C) /\ Len(wire') = Len(wire) - 1
  BY HeadTailProperties DEF ServerExecutes, Next1
<1>2. socket' = Append(socket, Reply1)
  BY DEF ServerExecutes, Next1, Reply1
<1>3. socket' \in Seq(R) /\ Len(socket') = Len(socket) + 1
  BY <1>2, AppendProperties
<1> QED
  BY <1>1, <1>3, LenProperties

LEMMA AppendMoves ==
  ASSUME NEW C, NEW c \in C, obuf \in Seq(C), AppendCommand(c)
  PROVE  /\ obuf' \in Seq(C)
         /\ ~skewed' => ~skewed /\ obuf' = Append(obuf, c) /\ Len(obuf') = Len(obuf) + 1
BY AppendProperties DEF AppendCommand

-----------------------------------------------------------------------------
(* Sets that grow with what has been appended, and who waits. *)

LEMMA GoodRepliesGrow ==
  ASSUME Appended \subseteq Appended'
  PROVE  Sets \subseteq Sets' /\ GoodReplies \subseteq GoodReplies'
<1>1. Sets \subseteq Sets'
  BY DEF Sets, Appended
<1> QED
  BY <1>1 DEF GoodReplies

LEMMA OnlyAppendedKept ==
  ASSUME OnlyAppended, Appended \subseteq Appended',
         UNCHANGED <<obuf, wire, socket, reader, cache, took>>
  PROVE  OnlyAppended'
<1>1. Sets \subseteq Sets' /\ GoodReplies \subseteq GoodReplies'
  BY GoodRepliesGrow
<1>2. obuf \in Seq(Appended') /\ wire \in Seq(Appended')
  BY SeqMonotonic DEF OnlyAppended
<1>3. socket \in Seq(GoodReplies') /\ reader \in Seq(GoodReplies')
  BY <1>1, SeqMonotonic DEF OnlyAppended
<1> QED
  BY <1>1, <1>2, <1>3 DEF OnlyAppended

(* A call that is alone and waits is the only one that waits. *)
LEMMA AloneWaits ==
  ASSUME TypeOK, AloneIsOnly, NEW c \in Awaiting, c \notin mixed
  PROVE  Open = {c} /\ Awaiting = {c} /\ c \in Calls
<1>1. c \in Open /\ Awaiting \subseteq Open /\ c \in Calls
  BY DEF Awaiting, Open, TypeOK
<1> QED
  BY <1>1 DEF AloneIsOnly

LEMMA OwnRepliesKept ==
  ASSUME TypeOK, NEW c \in Calls, Kind[c] = "get" => cache'[FlightOf[c]] = cache[FlightOf[c]]
  PROVE  OwnReplies(c)' = OwnReplies(c)
BY DEF OwnReplies

LEMMA CountOne ==
  ASSUME AwaitingFinite, NEW c, Awaiting' = Awaiting \cup {c}, c \notin Awaiting
  PROVE  AwaitingFinite' /\ Cardinality(Awaiting)' = Cardinality(Awaiting) + 1
BY FS_AddElement DEF AwaitingFinite

LEMMA CountOff ==
  ASSUME AwaitingFinite, NEW c \in Awaiting, Awaiting' = Awaiting \ {c}
  PROVE  AwaitingFinite' /\ Cardinality(Awaiting)' = Cardinality(Awaiting) - 1
BY FS_RemoveElement DEF AwaitingFinite

LEMMA Counts ==
  ASSUME TypeOK, AwaitingFinite
  PROVE  /\ Cardinality(Awaiting) \in Nat
         /\ Len(obuf) \in Nat /\ Len(wire) \in Nat
         /\ Len(socket) \in Nat /\ Len(reader) \in Nat
BY FS_CardinalityType, LenProperties DEF TypeOK, AwaitingFinite

LEMMA InitInvariant == Init => IInv
<1> SUFFICES ASSUME Init PROVE IInv
  OBVIOUS
<1>1. TypeOK
  BY CallAssumption, EmptySeq DEF Init, TypeOK, Steps
<1>2. OnlyAppended
  BY EmptySeq DEF Init, OnlyAppended
<1>3. Awaiting = {} /\ Open = {}
  BY DEF Init, Awaiting, Open
<1>4. AwaitingFinite /\ RepliesBalance
  <2>1. Len(obuf) = 0 /\ Len(wire) = 0 /\ Len(socket) = 0 /\ Len(reader) = 0
    BY DEF Init
  <2> QED
    BY <1>3, <2>1, FS_EmptySet DEF AwaitingFinite, RepliesBalance
<1>5. AloneIsOnly /\ AloneSeesOwn
  BY <1>3 DEF AloneIsOnly, AloneSeesOwn
<1> QED
  BY <1>1, <1>2, <1>4, <1>5 DEF IInv

-----------------------------------------------------------------------------
(* The steps. *)

LEMMA CallStep ==
  ASSUME IInv, NEW c \in Calls, Call(c)
  PROVE  IInv'
<1> USE DEF IInv
<1>1. TypeOK'
  BY DEF TypeOK, Call, GoTo, Steps, Open
<1>2. Awaiting' = Awaiting /\ Open' = Open \cup {c} /\ Appended' = Appended
  BY DEF TypeOK, Call, GoTo, Awaiting, Open, Appended
<1>3. OnlyAppended'
  BY <1>2, OnlyAppendedKept DEF Call
<1>4. AwaitingFinite' /\ RepliesBalance'
  BY <1>2 DEF AwaitingFinite, RepliesBalance, Call
<1>5. AloneIsOnly'
  BY <1>2 DEF AloneIsOnly, Call
<1>6. AloneSeesOwn'
  BY <1>2 DEF AloneSeesOwn, OwnReplies, Call
<1> QED
  BY <1>1, <1>3, <1>4, <1>5, <1>6

LEMMA AppendStep ==
  ASSUME IInv, NEW c \in Calls, AppendCommand(c)
  PROVE  IInv'
<1> USE DEF IInv
<1>1. obuf' \in Seq(Calls)
  BY AppendMoves DEF TypeOK
<1>2. TypeOK'
  BY <1>1 DEF TypeOK, AppendCommand, GoTo, Steps
<1>3. /\ c \notin Awaiting /\ Awaiting' = Awaiting \cup {c} /\ c \in Open /\ Open' = Open
      /\ Appended' = Appended \cup {c}
  BY DEF TypeOK, AppendCommand, GoTo, Awaiting, Open, Appended
<1>4. OnlyAppended'
  <2>1. Sets \subseteq Sets' /\ GoodReplies \subseteq GoodReplies'
    BY <1>3, GoodRepliesGrow
  <2>2. obuf \in Seq(Appended') /\ wire \in Seq(Appended')
    BY <1>3, SeqMonotonic DEF OnlyAppended
  <2>3. socket \in Seq(GoodReplies') /\ reader \in Seq(GoodReplies')
    BY <2>1, SeqMonotonic DEF OnlyAppended
  <2>4. obuf' \in Seq(Appended')
    BY <1>3, <2>2, AppendMoves
  <2> QED
    BY <2>1, <2>2, <2>3, <2>4 DEF OnlyAppended, AppendCommand
<1>5. AwaitingFinite' /\ Cardinality(Awaiting)' = Cardinality(Awaiting) + 1
  BY <1>3, CountOne
<1>6. RepliesBalance'
  <2>1. ~skewed' => ~skewed /\ Len(obuf') = Len(obuf) + 1
    BY AppendMoves DEF TypeOK
  <2> QED
    BY <1>5, <2>1, Counts DEF RepliesBalance, AppendCommand
<1>7. AloneIsOnly'
  BY <1>3 DEF AloneIsOnly, AppendCommand
<1>8. AloneSeesOwn'
  <2> SUFFICES ASSUME ~skewed', NEW d \in Awaiting', d \notin mixed
               PROVE  /\ socket' \in Seq(OwnReplies(d)') /\ reader' \in Seq(OwnReplies(d)')
                      /\ wire' \in Seq({d}) /\ (link' => obuf' \in Seq({d}))
    BY DEF AloneSeesOwn, AppendCommand
  <2>1. d \in Open
    BY <1>3 DEF Awaiting, Open
  <2>2. d = c /\ Awaiting = {}
    BY <1>3, <2>1 DEF AloneIsOnly, Awaiting, Open
  <2>3. ~skewed /\ obuf' = Append(obuf, c)
    BY AppendMoves DEF TypeOK
  <2>4. Len(reader) = 0 /\ (link => Len(obuf) = 0 /\ Len(wire) = 0 /\ Len(socket) = 0)
    BY <2>2, <2>3, Counts, FS_EmptySet DEF RepliesBalance
  <2>5. reader = <<>> /\ wire = <<>> /\ socket = <<>> /\ (link => obuf = <<>>)
    BY <2>4, EmptySeq DEF TypeOK
  <2>6. link => obuf' \in Seq({d})
    BY <2>2, <2>3, <2>5, EmptySeq, AppendProperties
  <2> QED
    BY <2>5, <2>6, EmptySeq DEF AppendCommand
<1> QED
  BY <1>2, <1>4, <1>5, <1>6, <1>7, <1>8

LEMMA TakeStep ==
  ASSUME IInv, NEW c \in Calls, pc[c] \in {"check", "take"}, TakeHead(c)
  PROVE  IInv'
<1> USE DEF IInv
<1>1. /\ Head(reader) \in Replies /\ reader' \in Seq(Replies)
      /\ Len(reader') = Len(reader) - 1 /\ Len(reader) \in Nat \ {0}
  BY TakeMoves DEF TypeOK
<1>2. TypeOK'
  BY <1>1 DEF TypeOK, TakeHead, GoTo, Steps
<1>3. /\ c \in Awaiting /\ Awaiting' = Awaiting \ {c} /\ c \in Open /\ Open' = Open \ {c}
      /\ Appended' = Appended
  BY DEF TypeOK, TakeHead, GoTo, Awaiting, Open, Appended
<1>4. OnlyAppended'
  <2>1. Sets \subseteq Sets' /\ GoodReplies \subseteq GoodReplies'
    BY <1>3, GoodRepliesGrow
  <2>2. obuf \in Seq(Appended') /\ wire \in Seq(Appended')
    BY <1>3 DEF OnlyAppended
  <2>3. Head(reader) \in GoodReplies /\ reader' \in Seq(GoodReplies)
    BY TakeMoves DEF OnlyAppended
  <2>4. socket \in Seq(GoodReplies') /\ reader' \in Seq(GoodReplies')
    BY <2>1, <2>3, SeqMonotonic DEF OnlyAppended
  <2>5. \A d \in Calls : took'[d] \in GoodReplies' \cup {NoReply}
    BY <2>1, <2>3 DEF OnlyAppended, TypeOK, TakeHead
  <2> QED
    BY <2>1, <2>2, <2>4, <2>5 DEF OnlyAppended, TakeHead
<1>5. AwaitingFinite' /\ Cardinality(Awaiting)' = Cardinality(Awaiting) - 1
  BY <1>3, CountOff
<1>6. RepliesBalance'
  BY <1>1, <1>5, Counts DEF RepliesBalance, TakeHead
<1>7. AloneIsOnly'
  BY <1>3 DEF AloneIsOnly, TakeHead
<1>8. AloneSeesOwn'
  <2> SUFFICES ASSUME NEW d \in Awaiting', d \notin mixed PROVE FALSE
    BY DEF AloneSeesOwn, TakeHead
  <2> QED
    BY <1>3, AloneWaits
<1> QED
  BY <1>2, <1>4, <1>5, <1>6, <1>7, <1>8

(* A thread that finds the reader empty goes on to the socket. *)
LEMMA LookStep ==
  ASSUME IInv, NEW c \in Calls, pc[c] \in {"check", "take"}, NEW s \in {"flush", "read"},
         GoTo(c, s), UNCHANGED <<obuf, wire, socket, reader, link, cache, took, mixed, skewed>>
  PROVE  IInv'
<1> USE DEF IInv
<1>1. TypeOK'
  BY DEF TypeOK, GoTo, Steps
<1>2. Awaiting' = Awaiting /\ Open' = Open /\ Appended' = Appended
  BY DEF TypeOK, GoTo, Awaiting, Open, Appended
<1>3. OnlyAppended'
  BY <1>2, OnlyAppendedKept
<1>4. AwaitingFinite' /\ RepliesBalance' /\ AloneIsOnly' /\ AloneSeesOwn'
  BY <1>2 DEF AwaitingFinite, RepliesBalance, AloneIsOnly, AloneSeesOwn, OwnReplies
<1> QED
  BY <1>1, <1>3, <1>4

LEMMA FlushStep ==
  ASSUME IInv, NEW c \in Calls, Flush(c)
  PROVE  IInv'
<1> USE DEF IInv
<1>1. /\ obuf' \in Seq(Calls) /\ wire' \in Seq(Calls)
      /\ ~skewed' => Len(obuf') + Len(wire') = Len(obuf) + Len(wire) /\ ~skewed
  BY FlushMoves DEF TypeOK
<1>2. TypeOK'
  BY <1>1 DEF TypeOK, Flush, GoTo, Steps
<1>3. Awaiting' = Awaiting /\ Open' = Open /\ Appended' = Appended
  BY DEF TypeOK, Flush, GoTo, Awaiting, Open, Appended
<1>4. OnlyAppended'
  <2>1. Sets' = Sets /\ GoodReplies' = GoodReplies
    BY <1>3 DEF TypeOK, Flush, GoTo, Sets, GoodReplies
  <2>2. obuf' \in Seq(Appended) /\ wire' \in Seq(Appended)
    BY FlushMoves DEF OnlyAppended
  <2> QED
    BY <1>3, <2>1, <2>2 DEF OnlyAppended, Flush
<1>5. AwaitingFinite' /\ RepliesBalance'
  <2>1. Len(obuf') \in Nat /\ Len(wire') \in Nat
    BY <1>1, LenProperties
  <2> QED
    BY <1>1, <1>3, <2>1, Counts DEF AwaitingFinite, RepliesBalance, Flush
<1>6. AloneIsOnly'
  BY <1>3 DEF AloneIsOnly, Flush
<1>7. AloneSeesOwn'
  <2> SUFFICES ASSUME ~skewed', NEW d \in Awaiting, d \notin mixed
               PROVE  /\ socket' \in Seq(OwnReplies(d)') /\ reader' \in Seq(OwnReplies(d)')
                      /\ wire' \in Seq({d}) /\ (link' => obuf' \in Seq({d}))
    BY <1>3 DEF AloneSeesOwn, Flush
  <2>1. /\ socket \in Seq(OwnReplies(d)) /\ reader \in Seq(OwnReplies(d))
        /\ wire \in Seq({d}) /\ obuf \in Seq({d})
    BY <1>1 DEF AloneSeesOwn, Flush
  <2>2. OwnReplies(d)' = OwnReplies(d)
    BY DEF OwnReplies, Flush
  <2>3. wire' \in Seq({d}) /\ obuf' \in Seq({d})
    BY <2>1, FlushMoves
  <2> QED
    BY <2>1, <2>2, <2>3 DEF Flush
<1> QED
  BY <1>2, <1>4, <1>5, <1>6, <1>7

LEMMA ReadStep ==
  ASSUME IInv, NEW c \in Calls, Read(c)
  PROVE  IInv'
<1> USE DEF IInv
<1>1. /\ socket' \in Seq(Replies) /\ reader' \in Seq(Replies)
      /\ Len(socket') + Len(reader') = Len(socket) + Len(reader)
  BY ReadMoves DEF TypeOK
<1>2. TypeOK'
  BY <1>1 DEF TypeOK, Read, GoTo, Steps
<1>3. Awaiting' = Awaiting /\ Open' = Open /\ Appended' = Appended
  BY DEF TypeOK, Read, GoTo, Awaiting, Open, Appended
<1>4. OnlyAppended'
  <2>1. Sets' = Sets /\ GoodReplies' = GoodReplies
    BY <1>3 DEF TypeOK, Read, GoTo, Sets, GoodReplies
  <2>2. socket' \in Seq(GoodReplies) /\ reader' \in Seq(GoodReplies)
    BY ReadMoves DEF OnlyAppended
  <2> QED
    BY <1>3, <2>1, <2>2 DEF OnlyAppended, Read
<1>5. AwaitingFinite' /\ RepliesBalance'
  <2>1. Len(socket') \in Nat /\ Len(reader') \in Nat
    BY <1>1, LenProperties
  <2>2. link /\ UNCHANGED <<obuf, wire, link, skewed>>
    BY DEF Read
  <2>3. ~skewed => Len(reader') <= Cardinality(Awaiting)
    BY <1>1, <2>1, <2>2, Counts DEF RepliesBalance
  <2>4. ~skewed => Len(obuf) + Len(wire) + Len(socket') + Len(reader') = Cardinality(Awaiting)
    BY <1>1, <2>1, <2>2, Counts DEF RepliesBalance
  <2> QED
    BY <1>3, <2>2, <2>3, <2>4 DEF AwaitingFinite, RepliesBalance
<1>6. AloneIsOnly'
  BY <1>3 DEF AloneIsOnly, Read
<1>7. AloneSeesOwn'
  <2> SUFFICES ASSUME ~skewed, NEW d \in Awaiting, d \notin mixed
               PROVE  /\ socket' \in Seq(OwnReplies(d)') /\ reader' \in Seq(OwnReplies(d)')
                      /\ wire' \in Seq({d}) /\ (link' => obuf' \in Seq({d}))
    BY <1>3 DEF AloneSeesOwn, Read
  <2>1. /\ socket \in Seq(OwnReplies(d)) /\ reader \in Seq(OwnReplies(d))
        /\ wire \in Seq({d}) /\ (link => obuf \in Seq({d}))
    BY DEF AloneSeesOwn
  <2>2. OwnReplies(d)' = OwnReplies(d)
    BY DEF OwnReplies, Read
  <2>3. socket' \in Seq(OwnReplies(d)) /\ reader' \in Seq(OwnReplies(d))
    BY <2>1, ReadMoves
  <2> QED
    BY <2>1, <2>2, <2>3 DEF Read
<1> QED
  BY <1>2, <1>4, <1>5, <1>6, <1>7

LEMMA FailStep ==
  ASSUME IInv, NEW c \in Calls, Fail(c)
  PROVE  IInv'
<1> USE DEF IInv
<1>1. TypeOK'
  BY DEF TypeOK, Fail, GoTo, Steps
<1>2. /\ c \in Awaiting /\ Awaiting' = Awaiting \ {c} /\ c \in Open /\ Open' = Open \ {c}
      /\ Appended' = Appended
  BY DEF TypeOK, Fail, GoTo, Awaiting, Open, Appended
<1>3. OnlyAppended'
  BY <1>2, OnlyAppendedKept DEF Fail
<1>4. AwaitingFinite' /\ Cardinality(Awaiting)' = Cardinality(Awaiting) - 1
  BY <1>2, CountOff
<1>5. RepliesBalance'
  <2>1. ~skewed' => reader = <<>>
    BY DEF Fail
  <2>2. ~skewed' => Len(reader') = 0
    BY <2>1 DEF Fail
  <2>3. Cardinality(Awaiting)' \in Nat
    BY <1>4, FS_CardinalityType DEF AwaitingFinite
  <2> QED
    BY <2>2, <2>3 DEF RepliesBalance, Fail
<1>6. AloneIsOnly'
  BY <1>2 DEF AloneIsOnly, Fail
<1>7. AloneSeesOwn'
  <2> SUFFICES ASSUME NEW d \in Awaiting', d \notin mixed PROVE FALSE
    BY DEF AloneSeesOwn, Fail
  <2> QED
    BY <1>2, AloneWaits
<1> QED
  BY <1>1, <1>3, <1>4, <1>5, <1>6, <1>7

LEMMA ServerStep ==
  ASSUME IInv, ServerExecutes
  PROVE  IInv'
<1> USE DEF IInv
<1>1. wire # <<>> /\ Next1 \in Appended /\ Next1 \in Calls
  <2>1. wire # <<>>
    BY DEF ServerExecutes
  <2>2. Next1 \in Appended
    BY <2>1, HeadTailProperties DEF Next1, OnlyAppended
  <2> QED
    BY <2>1, <2>2 DEF Appended
<1>2. Reply1 \in GoodReplies /\ Reply1 \in Replies
  <2>1. Answer(Next1) \in {"OK", "count", NoCall} \cup Sets
    BY <1>1, CallAssumption DEF Answer, OnlyAppended
  <2>2. Answer(Next1) \in Values
    BY <2>1 DEF Values, Sets
  <2> QED
    BY <1>1, <2>1, <2>2 DEF Reply1, GoodReplies, Replies
<1>3. \A f \in Flights : cache'[f] \in Sets \cup {NoCall}
  <2>1. Kind[Next1] = "set" => Next1 \in Sets
    BY <1>1 DEF Sets, Appended
  <2> QED
    BY <2>1 DEF ServerExecutes, Next1, OnlyAppended, TypeOK
<1>4. /\ wire' \in Seq(Calls) /\ socket' \in Seq(Replies)
      /\ Len(wire') + Len(socket') = Len(wire) + Len(socket)
  BY <1>2, ServerMoves DEF TypeOK
<1>5. wire' \in Seq(Appended) /\ socket' \in Seq(GoodReplies)
  BY <1>2, ServerMoves DEF OnlyAppended
<1>6. link /\ UNCHANGED <<pc, obuf, reader, link, took, mixed, skewed>>
  BY <1>1 DEF TypeOK, ServerExecutes
<1>7. TypeOK'
  <2>1. cache' \in [Flights -> Calls \cup {NoCall}]
    BY <1>1 DEF TypeOK, ServerExecutes, Next1
  <2> QED
    BY <1>4, <1>6, <2>1 DEF TypeOK
<1>8. /\ Awaiting' = Awaiting /\ Open' = Open /\ Appended' = Appended
      /\ Sets' = Sets /\ GoodReplies' = GoodReplies
  BY <1>6 DEF Awaiting, Open, Appended, Sets, GoodReplies
<1>9. OnlyAppended'
  BY <1>3, <1>5, <1>6, <1>8 DEF OnlyAppended
<1>10. AwaitingFinite' /\ RepliesBalance' /\ AloneIsOnly'
  <2>1. Len(wire') \in Nat /\ Len(socket') \in Nat
    BY <1>4, LenProperties
  <2> QED
    BY <1>4, <1>6, <1>8, <2>1, Counts DEF AwaitingFinite, RepliesBalance, AloneIsOnly
<1>11. AloneSeesOwn'
  <2> SUFFICES ASSUME ~skewed, NEW d \in Awaiting, d \notin mixed
               PROVE  /\ socket' \in Seq(OwnReplies(d)') /\ reader' \in Seq(OwnReplies(d)')
                      /\ wire' \in Seq({d}) /\ (link' => obuf' \in Seq({d}))
    BY <1>6, <1>8 DEF AloneSeesOwn
  <2>1. /\ socket \in Seq(OwnReplies(d)) /\ reader \in Seq(OwnReplies(d))
        /\ wire \in Seq({d}) /\ (link => obuf \in Seq({d})) /\ d \in Calls
    BY DEF AloneSeesOwn, Awaiting
  <2>2. Next1 = d
    BY <1>1, <2>1, HeadTailProperties DEF Next1
  <2>3. Reply1 \in OwnReplies(d)
    BY <1>2, <2>2 DEF OwnReplies, Reply1, Answer
  <2>4. Kind[d] = "get" => cache' = cache
    BY <2>2 DEF ServerExecutes, Next1
  <2>5. OwnReplies(d)' = OwnReplies(d)
    BY <2>1, <2>4 DEF OwnReplies
  <2>6. wire' \in Seq({d}) /\ socket' \in Seq(OwnReplies(d))
    BY <2>1, <2>3, ServerMoves
  <2> QED
    BY <1>6, <2>1, <2>5, <2>6
<1> QED
  BY <1>7, <1>9, <1>10, <1>11

LEMMA BreakStep ==
  ASSUME IInv, Break
  PROVE  IInv'
<1> USE DEF IInv
<1>1. TypeOK'
  BY EmptySeq DEF TypeOK, Break
<1>2. /\ Awaiting' = Awaiting /\ Open' = Open /\ Appended' = Appended
      /\ Sets' = Sets /\ GoodReplies' = GoodReplies
  BY DEF Break, Awaiting, Open, Appended, Sets, GoodReplies
<1>3. OnlyAppended'
  BY <1>2, EmptySeq DEF OnlyAppended, Break
<1>4. AwaitingFinite' /\ RepliesBalance' /\ AloneIsOnly'
  BY <1>2 DEF AwaitingFinite, RepliesBalance, AloneIsOnly, Break
<1>5. AloneSeesOwn'
  <2>1. \A d : OwnReplies(d)' = OwnReplies(d)
    BY DEF OwnReplies, Break
  <2> QED
    BY <1>2, <2>1, EmptySeq DEF AloneSeesOwn, Break
<1> QED
  BY <1>1, <1>3, <1>4, <1>5

LEMMA RestartStep ==
  ASSUME IInv, Restart
  PROVE  IInv'
<1> USE DEF IInv
<1>1. TypeOK'
  BY EmptySeq DEF TypeOK, Restart, Steps
<1>2. Awaiting' = {} /\ Open' = {} /\ Appended \subseteq Appended'
  BY DEF TypeOK, Restart, Awaiting, Open, Appended
<1>3. OnlyAppended'
  <2>1. Sets \subseteq Sets' /\ GoodReplies \subseteq GoodReplies'
    BY <1>2, GoodRepliesGrow
  <2> QED
    BY <2>1, EmptySeq DEF OnlyAppended, Restart
<1>4. AwaitingFinite' /\ RepliesBalance'
  <2>1. Len(obuf') = 0 /\ Len(wire') = 0 /\ Len(socket') = 0 /\ Len(reader') = 0
    BY DEF Restart
  <2>2. IsFiniteSet(Awaiting)' /\ Cardinality(Awaiting)' = 0
    BY <1>2, FS_EmptySet
  <2> QED
    BY <2>1, <2>2 DEF AwaitingFinite, RepliesBalance
<1>5. AloneIsOnly' /\ AloneSeesOwn'
  BY <1>2 DEF AloneIsOnly, AloneSeesOwn
<1> QED
  BY <1>1, <1>3, <1>4, <1>5

LEMMA StepInvariant == IInv /\ [Next]_vars => IInv'
<1> SUFFICES ASSUME IInv, [Next]_vars PROVE IInv'
  OBVIOUS
<1>1. ASSUME NEW c \in Calls, Check(c) PROVE IInv'
  BY <1>1, TakeStep, LookStep DEF Check
<1>2. ASSUME NEW c \in Calls, Take(c) PROVE IInv'
  BY <1>2, TakeStep, LookStep DEF Take
<1>3. ASSUME UNCHANGED vars PROVE IInv'
  <2>1. TypeOK' /\ Awaiting' = Awaiting /\ Open' = Open /\ Appended' = Appended
    BY <1>3 DEF IInv, vars, TypeOK, Open, Awaiting, Appended
  <2>2. OnlyAppended'
    BY <1>3, <2>1, OnlyAppendedKept DEF IInv, vars
  <2>3. AwaitingFinite' /\ RepliesBalance' /\ AloneIsOnly' /\ AloneSeesOwn'
    BY <1>3, <2>1
       DEF IInv, vars, AwaitingFinite, RepliesBalance, AloneIsOnly, AloneSeesOwn, OwnReplies
  <2> QED
    BY <2>1, <2>2, <2>3 DEF IInv
<1> QED
  BY <1>1, <1>2, <1>3, CallStep, AppendStep, FlushStep, ReadStep, FailStep, ServerStep,
     BreakStep, RestartStep DEF Next, Thread

-----------------------------------------------------------------------------
(* RedisContext is type correct, and nothing travels on a broken           *)
(* connection.                                                             *)
THEOREM TypeCorrect == Spec => []TypeOK
<1>1. IInv => TypeOK
  BY DEF IInv
<1> QED
  BY <1>1, InitInvariant, StepInvariant, PTL DEF Spec

(* GET /flights/{id}/live shows "Unknown" or a status that was set, however *)
(* many threads take each other's replies.                                 *)
THEOREM AnswersAreStatuses == Spec => []AnswerIsStatus
<1>1. IInv => AnswerIsStatus
  <2> SUFFICES ASSUME IInv, NEW c \in Calls PROVE LiveStatus(c) \in Sets \cup {"Unknown"}
    BY DEF AnswerIsStatus
  <2>1. took[c] \in GoodReplies \cup {NoReply}
    BY DEF IInv, OnlyAppended
  <2>2. CASE took[c] # NoReply /\ ReplyType(took[c]) = "string"
    <3>1. took[c].value \in Sets
      BY <2>1, <2>2 DEF GoodReplies, ReplyType
    <3> QED
      BY <2>2, <3>1 DEF LiveStatus, getFlightStatus
  <2>3. CASE ~(took[c] # NoReply /\ ReplyType(took[c]) = "string")
    BY <2>3 DEF LiveStatus, getFlightStatus
  <2> QED
    BY <2>2, <2>3
<1> QED
  BY <1>1, InitInvariant, StepInvariant, PTL DEF Spec

(* Every thread that waits has its reply under way, and no reply is there   *)
(* for nobody, while the output buffer is not raced for.                   *)
THEOREM RepliesBalanced == Spec => []RepliesBalance
<1>1. IInv => RepliesBalance
  BY DEF IInv
<1> QED
  BY <1>1, InitInvariant, StepInvariant, PTL DEF Spec

(* A command no other one overlaps gets its own reply, whatever happened on *)
(* the connection before.                                                  *)
THEOREM AloneIsAnswered == Spec => AnsweredAlone
<1>1. IInv /\ [Next]_vars => [TakesOwn]_vars
  <2> SUFFICES ASSUME IInv, [Next]_vars, NEW d \in Calls, took'[d] # took[d],
                      d \notin mixed, ~skewed
               PROVE  took'[d] \in OwnReplies(d)
    BY DEF TakesOwn
  <2>1. PICK c \in Calls : pc[c] \in {"check", "take"} /\ TakeHead(c)
    BY DEF Next, Thread, Call, AppendCommand, Check, Flush, Read, Take, Fail,
       ServerExecutes, Break, Restart, vars
  <2>2. took' = [took EXCEPT ![c] = Head(reader)]
    BY <2>1 DEF TakeHead
  <2>3. d = c /\ took'[d] = Head(reader)
    BY <2>2 DEF IInv, TypeOK
  <2>4. d \in Awaiting
    BY <2>1, <2>3 DEF Awaiting
  <2>5. reader \in Seq(OwnReplies(d))
    BY <2>4 DEF IInv, AloneSeesOwn
  <2> QED
    BY <2>1, <2>3, <2>5, TakeMoves
<1> QED
  BY <1>1, InitInvariant, StepInvariant, PTL DEF Spec, AnsweredAlone

-----------------------------------------------------------------------------
(* Who can block in read(). *)

(* The one command or reply of a call that is alone: as many as it waits    *)
(* for, one.                                                                *)
LEMMA AloneCounts ==
  ASSUME IInv, NEW c \in Awaiting, c \notin mixed, ~skewed, link
  PROVE  /\ Len(obuf) + Len(wire) + Len(socket) + Len(reader) = 1
         /\ Awaiting = {c} /\ Open = {c} /\ c \in Calls
<1>1. Awaiting = {c} /\ Open = {c} /\ c \in Calls
  BY AloneWaits DEF IInv
<1>2. Cardinality(Awaiting) = 1
  BY <1>1, FS_Singleton
<1> QED
  BY <1>1, <1>2 DEF IInv, RepliesBalance

LEMMA InitAlone == Init => AloneMoves
BY DEF Init, AloneMoves, Awaiting

(* Only the steps of the call itself move its command or reply on, and     *)
(* nothing it did not send comes in between.                               *)
LEMMA StepAlone == IInv /\ AloneMoves /\ [Next]_vars => AloneMoves'
<1> SUFFICES ASSUME IInv, AloneMoves, [Next]_vars, ~skewed', link',
                    NEW c \in Awaiting', c \notin mixed'
             PROVE  /\ pc'[c] \in {"check", "flush"} => obuf' # <<>>
                    /\ pc'[c] = "read" => obuf' = <<>> /\ reader' = <<>>
                    /\ pc'[c] = "take" => reader' # <<>>
  BY DEF AloneMoves
<1>1. IInv'
  BY StepInvariant
<1>2. c \in Calls
  BY DEF Awaiting
<1>3. CASE AppendCommand(c)
  <2>1. pc'[c] = "check" /\ obuf' = Append(obuf, c)
    BY <1>1, <1>2, <1>3 DEF AppendCommand, GoTo, IInv, TypeOK
  <2>2. obuf \in Seq(Calls)
    BY DEF IInv, TypeOK
  <2>3. obuf' # <<>>
    BY <1>2, <2>1, <2>2, AppendProperties
  <2> QED
    BY <2>1, <2>3
<1>4. ASSUME c \in Awaiting, c \notin mixed, ~skewed, link
      PROVE  /\ pc[c] \in {"check", "flush"} => obuf # <<>>
             /\ pc[c] = "read" => obuf = <<>> /\ reader = <<>>
             /\ pc[c] = "take" => reader # <<>>
             /\ Len(obuf) + Len(wire) + Len(socket) + Len(reader) = 1 /\ Open = {c}
  BY <1>4, AloneCounts DEF AloneMoves
<1>5. CASE Check(c)
  <2>1. c \in Awaiting /\ c \notin mixed /\ ~skewed /\ link
    BY <1>2, <1>5 DEF Check, TakeHead, Awaiting, IInv, TypeOK
  <2>2. pc[c] = "check" /\ obuf # <<>>
    BY <1>4, <1>5, <2>1 DEF Check
  <2>3. pc'[c] = "flush" /\ UNCHANGED obuf
    BY <1>2, <1>5 DEF Check, TakeHead, GoTo, IInv, TypeOK, Awaiting
  <2> QED
    BY <2>2, <2>3
<1>6. CASE Flush(c)
  <2>1. c \in Awaiting /\ c \notin mixed /\ ~skewed /\ link /\ pc[c] = "flush"
    BY <1>2, <1>6 DEF Flush, Awaiting
  <2>2. obuf # <<>> /\ Len(obuf) + Len(wire) + Len(socket) + Len(reader) = 1
    BY <1>4, <2>1
  <2>3. Len(obuf) \in Nat \ {0}
    BY <2>2, LenProperties, EmptySeq DEF IInv, TypeOK
  <2>4. Len(reader) = 0
    BY <2>2, <2>3, Counts DEF IInv
  <2>5. reader = <<>>
    BY <2>4, EmptySeq DEF IInv, TypeOK
  <2>6. pc'[c] = "read" /\ obuf' = <<>> /\ UNCHANGED reader
    BY <1>2, <1>6 DEF Flush, GoTo, IInv, TypeOK
  <2> QED
    BY <2>5, <2>6
<1>7. CASE Read(c)
  <2>1. pc'[c] = "take"
    BY <1>2, <1>7 DEF Read, GoTo, IInv, TypeOK
  <2>2. PICK n \in 1..Len(socket) : reader' = reader \o SubSeq(socket, 1, n)
    BY <1>7 DEF Read
  <2>3. SubSeq(socket, 1, n) \in Seq(Replies) /\ Len(SubSeq(socket, 1, n)) = n
    <3>1. socket \in Seq(Replies) /\ Len(socket) \in Nat
      BY LenProperties DEF IInv, TypeOK
    <3>2. \A i \in 1..n : socket[i] \in Replies
      BY <3>1, ElementOfSeq
    <3> QED
      BY <3>1, <3>2, SubSeqProperties
  <2>4. Len(reader') = Len(reader) + n
    BY <2>2, <2>3, ConcatProperties DEF IInv, TypeOK
  <2>5. Len(reader) \in Nat /\ Len(<<>>) = 0
    BY Counts DEF IInv
  <2> QED
    BY <2>1, <2>4, <2>5
<1>8. CASE Take(c)
  <2>1. c \in Awaiting /\ c \notin mixed /\ ~skewed /\ link /\ pc[c] = "take"
    BY <1>2, <1>8 DEF Take, TakeHead, Awaiting, IInv, TypeOK
  <2>2. reader # <<>>
    BY <1>4, <2>1
  <2>3. pc'[c] = "done"
    BY <1>2, <1>8, <2>2 DEF Take, TakeHead, GoTo, IInv, TypeOK
  <2> QED
    BY <2>3
<1>9. ASSUME ~AppendCommand(c), ~Check(c), ~Flush(c), ~Read(c), ~Take(c)
      PROVE  /\ pc'[c] = pc[c] /\ c \in Awaiting /\ c \notin mixed /\ ~skewed /\ link
             /\ UNCHANGED <<obuf, reader>>
  <2>1. CASE \E d \in Calls : Call(d)
    BY <1>2, <2>1 DEF Call, GoTo, IInv, TypeOK, Awaiting
  <2>2. ASSUME NEW d \in Calls \ {c}, Thread(d) PROVE FALSE
    <3>1. pc[d] \notin {"new", "done", "lost"} /\ pc'[c] = pc[c] /\ mixed' = mixed
      BY <1>2, <2>2 DEF Thread, AppendCommand, Check, Flush, Read, Take, Fail, TakeHead,
         GoTo, IInv, TypeOK
    <3>2. c \in Open /\ d \in Open /\ c \notin mixed
      BY <1>2, <3>1 DEF Awaiting, Open
    <3> QED
      BY <3>2 DEF IInv, AloneIsOnly
  <2>3. CASE Fail(c)
    BY <1>2, <2>3 DEF Fail, GoTo, IInv, TypeOK, Awaiting
  <2>4. CASE ServerExecutes \/ UNCHANGED vars
    BY <1>2, <2>4 DEF ServerExecutes, vars, Awaiting, IInv, TypeOK
  <2>5. CASE Break \/ Restart
    BY <1>2, <2>5 DEF Break, Restart, Awaiting, Open
  <2> QED
    BY <1>9, <2>1, <2>2, <2>3, <2>4, <2>5 DEF Next, Thread
<1> QED
  BY <1>3, <1>4, <1>5, <1>6, <1>7, <1>8, <1>9

(* A command that no other one overlaps never blocks for good: its reply is *)
(* on its way while its thread is in read().  A thread does block, on a    *)
(* connection that brings nothing more, only after it overlapped another   *)
(* one and its reply or its command was taken or left by that one.         *)
THEOREM BlockingExplained == Spec => []BlockedExplained
<1>1. IInv /\ AloneMoves => BlockedExplained
  <2> SUFFICES ASSUME IInv, AloneMoves, ~skewed, NEW c \in Blocked
               PROVE  c \in mixed /\ (reader # <<>> \/ obuf # <<>>)
    BY DEF BlockedExplained
  <2>1. /\ c \in Awaiting /\ pc[c] = "read" /\ link /\ wire = <<>> /\ socket = <<>>
    BY DEF Blocked, Awaiting
  <2>2. Cardinality(Awaiting) # 0 /\ Cardinality(Awaiting) \in Nat
    BY <2>1, FS_EmptySet, Counts DEF IInv, AwaitingFinite
  <2>3. Len(wire) = 0 /\ Len(socket) = 0 /\ Len(<<>>) = 0
    BY <2>1
  <2>4. Len(obuf) + Len(reader) # 0
    BY <2>1, <2>2, <2>3, Counts DEF IInv, RepliesBalance
  <2>5. reader # <<>> \/ obuf # <<>>
    BY <2>3, <2>4
  <2>6. c \in mixed
    BY <2>1, <2>5 DEF AloneMoves
  <2> QED
    BY <2>5, <2>6
<1> QED
  BY <1>1, InitInvariant, StepInvariant, InitAlone, StepAlone, PTL DEF Spec
=============================================================================
