----------------------------- MODULE RedisContext -----------------------------
(***************************************************************************)
(* RedisManager::getConnection hands every thread of a process the same    *)
(* hiredis context.  A command is appended to the context's output buffer; *)
(* its thread then looks for a reply in the context's reader, writes out   *)
(* the buffer, and reads the socket until there is one.  Nothing says      *)
(* whose reply it is: a thread returns the oldest.                         *)
(*                                                                         *)
(* No lock is held.  Accesses to the output buffer that overlap are a data *)
(* race; short of the end of the process (Restart) the model lets an      *)
(* appended command get lost and a written one be written again.           *)
(***************************************************************************)
EXTENDS Naturals, Sequences, FiniteSets

CONSTANTS
  Calls,      \* calls of the functions below, each on a thread of its own
  Kind,       \* Kind[c]: "set" updateFlightStatus, "get" getLiveStatus, "publish"
  Flights,
  FlightOf,   \* FlightOf[c]: the flight of call c
  NoCall, NoReply

ASSUME CallAssumption == /\ Kind \in [Calls -> {"set", "get", "publish"}]
                         /\ FlightOf \in [Calls -> Flights]
                         /\ NoCall \notin Calls

VARIABLES
  pc,      \* the next step of each call
  obuf,    \* commands in the context's output buffer
  wire,    \* commands written to the socket
  socket,  \* replies of Redis on their way
  reader,  \* replies the context has taken in and not returned
  link,    \* the connection works, and the context has no error
  cache,   \* cache[f]: the call whose status the hash of flight f holds
  took,    \* took[c]: the reply call c was given
  mixed,   \* history: calls that were open while another one was
  skewed   \* history: the number of replies to come went wrong

vars == <<pc, obuf, wire, socket, reader, link, cache, took, mixed, skewed>>

(* A reply of the server: to which command, and what it says. *)
Values  == {"OK", "count", NoCall} \cup Calls
Replies == [of : Calls, value : Values]

Steps == {"new", "append", "check", "flush", "read", "take", "done", "lost"}
Open  == {c \in Calls : pc[c] \notin {"new", "done", "lost"}}

Init ==
  /\ pc = [c \in Calls |-> "new"]
  /\ obuf = <<>> /\ wire = <<>> /\ socket = <<>> /\ reader = <<>>
  /\ link \in BOOLEAN
  /\ cache = [f \in Flights |-> NoCall]
  /\ took = [c \in Calls |-> NoReply]
  /\ mixed = {} /\ skewed = FALSE

GoTo(c, step) == pc' = [pc EXCEPT ![c] = step]

-----------------------------------------------------------------------------
(* redisCommand, step by step. *)

Call(c) ==
  /\ pc[c] = "new"
  /\ GoTo(c, "append")
  /\ mixed' = IF Open = {} THEN mixed ELSE mixed \cup Open \cup {c}
  /\ UNCHANGED <<obuf, wire, socket, reader, link, cache, took, skewed>>

(* Another thread may be at the output buffer at the same moment. *)
Contended(c) == \E d \in Calls \ {c} : pc[d] \in {"append", "flush"}

AppendCommand(c) ==
  /\ pc[c] = "append"
  /\ GoTo(c, "check")
  /\ \/ obuf' = Append(obuf, c) /\ UNCHANGED skewed
     \/ Contended(c) /\ skewed' = TRUE /\ UNCHANGED obuf
  /\ UNCHANGED <<wire, socket, reader, link, cache, took, mixed>>

TakeHead(c) ==
  /\ reader # <<>>
  /\ took' = [took EXCEPT ![c] = Head(reader)]
  /\ reader' = Tail(reader)
  /\ GoTo(c, "done")
  /\ UNCHANGED <<obuf, wire, socket, link, cache, mixed, skewed>>

(* Whatever is in the reader is returned at once; the command just appended *)
(* stays in the buffer until the next thread writes it out.                *)
Check(c) ==
  /\ pc[c] = "check"
  /\ \/ TakeHead(c)
     \/ /\ reader = <<>> /\ GoTo(c, "flush")
        /\ UNCHANGED <<obuf, wire, socket, reader, link, cache, took, mixed, skewed>>

(* Mutant of Flush: updateFlightStatus does not wait for its reply. *)
FlushAndForget(c) ==
  /\ pc[c] = "flush" /\ link
  /\ GoTo(c, IF Kind[c] = "set" THEN "done" ELSE "read")
  /\ wire' = wire \o obuf
  /\ \/ obuf' = <<>> /\ UNCHANGED skewed
     \/ Contended(c) /\ obuf # <<>> /\ skewed' = TRUE /\ UNCHANGED obuf
  /\ UNCHANGED <<socket, reader, link, cache, took, mixed>>

Flush(c) ==
  /\ pc[c] = "flush" /\ link
  /\ GoTo(c, "read")
  /\ wire' = wire \o obuf
  /\ \/ obuf' = <<>> /\ UNCHANGED skewed
     \/ Contended(c) /\ obuf # <<>> /\ skewed' = TRUE /\ UNCHANGED obuf
  /\ UNCHANGED <<socket, reader, link, cache, took, mixed>>

(* read() blocks until the server has sent something, and takes in what    *)
(* has arrived, the replies to other threads' commands included.           *)
Read(c) ==
  /\ pc[c] = "read" /\ link
  /\ \E n \in 1..Len(socket) :
       /\ reader' = reader \o SubSeq(socket, 1, n)
       /\ socket' = SubSeq(socket, n + 1, Len(socket))
  /\ GoTo(c, "take")
  /\ UNCHANGED <<obuf, wire, link, cache, took, mixed, skewed>>

(* The reply a thread has read may be gone by now; then it reads again. *)
Take(c) ==
  /\ pc[c] = "take"
  /\ \/ TakeHead(c)
     \/ /\ reader = <<>> /\ GoTo(c, "read")
        /\ UNCHANGED <<obuf, wire, socket, reader, link, cache, took, mixed, skewed>>

(* Mutant of Fail: a command that fails is tried again. *)
FailRetries(c) ==
  /\ pc[c] \in {"flush", "read"} /\ ~link
  /\ GoTo(c, "flush")
  /\ UNCHANGED <<obuf, wire, socket, reader, link, cache, took, mixed, skewed>>

(* On a broken connection write and read return an error, redisCommand a   *)
(* null pointer.  A reply left in the reader then is nobody's any more.    *)
Fail(c) ==
  /\ pc[c] \in {"flush", "read"} /\ ~link
  /\ GoTo(c, "done")
  /\ skewed' = (skewed \/ reader # <<>>)
  /\ UNCHANGED <<obuf, wire, socket, reader, link, cache, took, mixed>>

-----------------------------------------------------------------------------
(* Redis, which executes the commands of a connection in order. *)

Answer(c) ==
  CASE Kind[c] = "set"     -> "OK"
    [] Kind[c] = "get"     -> cache[FlightOf[c]]
    [] Kind[c] = "publish" -> "count"

ServerExecutes ==
  /\ wire # <<>>
  /\ LET c == Head(wire) IN
     /\ socket' = Append(socket, [of |-> c, value |-> Answer(c)])
     /\ cache' = IF Kind[c] = "set" THEN [cache EXCEPT ![FlightOf[c]] = c] ELSE cache
  /\ wire' = Tail(wire)
  /\ UNCHANGED <<pc, obuf, reader, link, took, mixed, skewed>>

(* Mutant of Break: what was sent is still answered. *)
BreakKeepsWire ==
  /\ link' = FALSE
  /\ UNCHANGED <<pc, obuf, wire, socket, reader, cache, took, mixed, skewed>>

(* The connection is lost with everything on it. *)
Break ==
  /\ link' = FALSE
  /\ wire' = <<>> /\ socket' = <<>>
  /\ UNCHANGED <<pc, obuf, reader, cache, took, mixed, skewed>>

(* Mutant of Restart: the context is a copy the parent process has used. *)
RestartKeepsBuffers ==
  /\ pc' = [c \in Calls |-> IF c \in Open THEN "lost" ELSE pc[c]]
  /\ wire' = <<>> /\ socket' = <<>>
  /\ link' \in BOOLEAN
  /\ skewed' = FALSE
  /\ UNCHANGED <<obuf, reader, cache, took, mixed>>

(* The process dies; the next one connects once, or fails to. *)
Restart ==
  /\ pc' = [c \in Calls |-> IF c \in Open THEN "lost" ELSE pc[c]]
  /\ obuf' = <<>> /\ wire' = <<>> /\ socket' = <<>> /\ reader' = <<>>
  /\ link' \in BOOLEAN
  /\ skewed' = FALSE
  /\ UNCHANGED <<cache, took, mixed>>

-----------------------------------------------------------------------------
Thread(c) == \/ AppendCommand(c) \/ Check(c) \/ Flush(c)
             \/ Read(c) \/ Take(c) \/ Fail(c)

Next ==
  \/ \E c \in Calls : Call(c) \/ Thread(c)
  \/ ServerExecutes \/ Break \/ Restart

Spec == Init /\ [][Next]_vars

(* A thread runs until it blocks in read(); Redis executes what it gets. *)
FairSpec == Spec /\ WF_vars(ServerExecutes) /\ \A c \in Calls : WF_vars(Thread(c))

-----------------------------------------------------------------------------
(* What the callers make of a reply. *)

ReplyType(r) == CASE r.value = "OK"    -> "status"
                  [] r.value = "count" -> "integer"
                  [] r.value = NoCall  -> "nil"
                  [] OTHER             -> "string"

(* Mutant of getFlightStatus: only the pointer is tested. *)
getFlightStatusOfAny(r) == IF r = NoReply THEN "" ELSE r.value

(* "Safety check: ensure the reply exists and is a string". *)
getFlightStatus(r) ==
  IF r # NoReply /\ ReplyType(r) = "string" THEN r.value ELSE ""

(* The status in the answer of GET /flights/{id}/live. *)
LiveStatus(c) ==
  IF getFlightStatus(took[c]) = "" THEN "Unknown" ELSE getFlightStatus(took[c])

-----------------------------------------------------------------------------
(* Properties. *)

(* Type invariant; nothing travels on a broken connection. *)
TypeOK ==
  /\ pc \in [Calls -> Steps]
  /\ obuf \in Seq(Calls) /\ wire \in Seq(Calls)
  /\ socket \in Seq(Replies) /\ reader \in Seq(Replies)
  /\ link \in BOOLEAN /\ skewed \in BOOLEAN
  /\ cache \in [Flights -> Calls \cup {NoCall}]
  /\ took \in [Calls -> Replies \cup {NoReply}]
  /\ mixed \subseteq Calls
  /\ ~link => wire = <<>> /\ socket = <<>>

(* Whatever replies threads take from each other, GET /flights/{id}/live    *)
(* shows "Unknown" or a status that updateFlightStatus was called with, not *)
(* the OK of an HMSET or the count of a PUBLISH.                           *)
Sets == {c \in Calls : Kind[c] = "set" /\ pc[c] \notin {"new", "append"}}
AnswerIsStatus ==
  \A c \in Calls : LiveStatus(c) \in Sets \cup {"Unknown"}

(* A reply is on its way, in some buffer, for every thread that waits, and *)
(* for no other: replies swapped among overlapping commands are swapped    *)
(* among these only, and the next command after they are over is right     *)
(* again.  Unless the output buffer was raced for, or an error left a      *)
(* reply behind; that lasts until the process ends.                        *)
Awaiting == {c \in Calls : pc[c] \in {"check", "flush", "read", "take"}}
RepliesBalance ==
  ~skewed =>
    /\ Len(reader) <= Cardinality(Awaiting)
    /\ link => Len(obuf) + Len(wire) + Len(socket) + Len(reader) = Cardinality(Awaiting)

(* A command that no other one overlaps gets its own reply, and a live      *)
(* status is then what the hash of this flight holds at that moment,       *)
(* whatever overlapped before and through lost connections and restarts.   *)
OwnReplies(c) ==
  {r \in Replies : r.of = c /\ (Kind[c] = "get" => r.value = cache[FlightOf[c]])}
TakesOwn ==
  \A c \in Calls :
    took'[c] # took[c] /\ c \notin mixed /\ ~skewed => took'[c] \in OwnReplies(c)
AnsweredAlone == [][TakesOwn]_vars

(* A thread that never returns hangs for one of three reasons: a reply was  *)
(* taken in by another thread while it waited for the socket, a command was *)
(* left in the output buffer by a thread that found a reply waiting, or     *)
(* replies and waiting threads no longer balance (skewed: a race for the    *)
(* output buffer lost a command or sent it twice, or an error left a reply *)
(* behind).                                                                *)
HangExplained ==
  \A c \in Calls :
    <>[](c \in Open) => <>[](reader # <<>> \/ obuf # <<>> \/ skewed)

-----------------------------------------------------------------------------
(* What makes these inductive. *)

(* Only commands that were appended travel, and only statuses they set are *)
(* stored and answered.                                                    *)
Appended    == {c \in Calls : pc[c] \notin {"new", "append"}}
GoodReplies == {r \in Replies : r.value \in {"OK", "count", NoCall} \cup Sets}
OnlyAppended ==
  /\ obuf \in Seq(Appended) /\ wire \in Seq(Appended)
  /\ socket \in Seq(GoodReplies) /\ reader \in Seq(GoodReplies)
  /\ \A f \in Flights : cache[f] \in Sets \cup {NoCall}
  /\ \A c \in Calls : took[c] \in GoodReplies \cup {NoReply}

(* A call that is not mixed is the only open one, and what is under way on *)
(* the connection is its own.                                              *)
AloneIsOnly == \A c \in Open : c \notin mixed => Open = {c}
AloneSeesOwn ==
  ~skewed => \A c \in Awaiting \ mixed :
    /\ socket \in Seq(OwnReplies(c)) /\ reader \in Seq(OwnReplies(c))
    /\ wire \in Seq({c}) /\ (link => obuf \in Seq({c}))

AwaitingFinite == IsFiniteSet(Awaiting)

(* A thread blocked in read(), on a connection that brings nothing more:    *)
(* only the bytes of a later command can ever wake it.                      *)
Blocked == {c \in Calls : pc[c] = "read" /\ link /\ wire = <<>> /\ socket = <<>>}

(* Whoever blocks overlapped another command, and its reply was taken in by *)
(* another thread or its command was left in the output buffer: what       *)
(* HangExplained says of a thread that hangs, at the moment it starts to.   *)
BlockedExplained ==
  ~skewed => \A c \in Blocked : c \in mixed /\ (reader # <<>> \/ obuf # <<>>)

(* Where the one command or reply of a call that is not mixed can be.       *)
AloneMoves ==
  ~skewed /\ link => \A c \in Awaiting \ mixed :
    /\ pc[c] \in {"check", "flush"} => obuf # <<>>
    /\ pc[c] = "read" => obuf = <<>> /\ reader = <<>>
    /\ pc[c] = "take" => reader # <<>>

IInv ==
  /\ TypeOK /\ OnlyAppended
  /\ AwaitingFinite /\ RepliesBalance
  /\ AloneIsOnly /\ AloneSeesOwn
=============================================================================
