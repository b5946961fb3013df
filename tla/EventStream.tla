----------------------------- MODULE EventStream -----------------------------
(***************************************************************************)
(* From EventPublisher::publish to the WebSocket clients.  An event is     *)
(* published on its tenant's Redis channel; Redis hands it to the          *)
(* subscriber thread of every process that is listening at that moment;    *)
(* the thread recovers the tenant from the channel's name and sends the    *)
(* event to the tenant's clients of its process.                           *)
(*                                                                         *)
(* FlightSocketController::clients is an std::set that event-loop threads  *)
(* insert into and erase from while the subscriber thread iterates over    *)
(* it, with no lock.  What the overlapping accesses may do short of        *)
(* ending the process is a choice below: an insertion is lost, or an       *)
(* iteration ends early.                                                   *)
(***************************************************************************)
EXTENDS Naturals, Sequences, FiniteSets

CONSTANTS
  Processes,
  Tenants,        \* tenant ids; a UUID has no colon in it
  Events,         \* events to be published
  EventTenant,    \* EventTenant[e]: the tenant an event is published for
  Clients,        \* WebSocket connections
  Home,           \* Home[c]: the process connection c is made to
  ClientTenant,   \* ClientTenant[c]: its tenant_id parameter, or Anonymous
  Anonymous, NoEvent

ASSUME EventAssumption  == EventTenant \in [Events -> Tenants]
ASSUME ClientAssumption == /\ ClientTenant \in [Clients -> Tenants \cup {Anonymous}]
                           /\ Home \in [Clients -> Processes] /\ Anonymous \notin Tenants

VARIABLES
  log,       \* the events Redis has accepted, in order
  publisher, \* what has become of each event's PUBLISH
  inbox,     \* inbox[p]: messages on their way to process p's subscriber
  sub,       \* sub[p]: the subscriber thread of process p
  current,   \* current[p]: the event process p is broadcasting
  todo,      \* todo[p]: the clients its loop has not reached yet
  conn,      \* state of each connection
  clients,   \* clients[p]: the set the controller keeps
  received,  \* received[c]: the events sent to each client
  raced,     \* history: clients that were in a set when accesses overlapped
  due        \* history: <<e, c>> when e was published while c was connected

vars == <<log, publisher, inbox, sub, current, todo, conn, clients, received, raced, due>>

(* Channel names, split at the colons. *)
ChannelOf(tenant) == <<"tenant", tenant, "events">>
Matches(channel)  == Len(channel) >= 3 /\ channel[1] = "tenant" /\ channel[Len(channel)] = "events"
extractTenantFromChannel(channel) == channel[2]

Message(e) == [channel |-> ChannelOf(EventTenant[e]), event |-> e]
Messages   == {Message(e) : e \in Events}

ASSUME MessageAssumption == NoEvent \notin Messages

Init ==
  /\ log = <<>>
  /\ publisher = [e \in Events |-> "ready"]
  /\ inbox = [p \in Processes |-> <<>>]
  /\ sub = [p \in Processes |-> "listening"]
  /\ current = [p \in Processes |-> NoEvent]
  /\ todo = [p \in Processes |-> {}]
  /\ conn = [c \in Clients |-> "new"]
  /\ clients = [p \in Processes |-> {}]
  /\ received = [c \in Clients |-> <<>>]
  /\ raced = {} /\ due = {}

-----------------------------------------------------------------------------
(* Publishing. *)

(* Mutant of Publish: PUBLISH is sent twice. *)
PublishTwice(e) ==
  /\ publisher[e] = "ready"
  /\ publisher' = [publisher EXCEPT ![e] = "published"]
  /\ log' = Append(log, e)
  /\ inbox' = [p \in Processes |->
       IF sub[p] = "listening" THEN inbox[p] \o <<Message(e), Message(e)>> ELSE inbox[p]]
  /\ UNCHANGED <<sub, current, todo, conn, clients, received, raced, due>>

Publish(e) ==
  /\ publisher[e] = "ready"
  /\ publisher' = [publisher EXCEPT ![e] = "published"]
  /\ log' = Append(log, e)
  /\ inbox' = [p \in Processes |->
       IF sub[p] = "listening" /\ Matches(Message(e).channel)
       THEN Append(inbox[p], Message(e)) ELSE inbox[p]]
  /\ due' = due \cup {<<e, c>> : c \in {d \in Clients :
                            ClientTenant[d] = EventTenant[e] /\ conn[d] = "open"}}
  /\ UNCHANGED <<sub, current, todo, conn, clients, received, raced>>

(* The publishing process has no usable connection to Redis. *)
PublishNowhere(e) ==
  /\ publisher[e] = "ready"
  /\ publisher' = [publisher EXCEPT ![e] = "dropped"]
  /\ UNCHANGED <<log, inbox, sub, current, todo, conn, clients, received, raced, due>>

-----------------------------------------------------------------------------
(* The set of clients. *)

Looping(p) == current[p] # NoEvent
(* Accesses to process p's set by event-loop threads, and by any thread. *)
Editing(p) == {c \in Clients : Home[c] = p /\ conn[c] \in {"inserting", "erasing"}}
Overlap(p, c) == Looping(p) \/ Editing(p) \ {c} # {}
NoteRace(p, c) == raced' = IF Overlap(p, c) THEN raced \cup clients[p] \cup {c} ELSE raced

(* handleNewConnection: a client without a tenant is closed at once. *)
Connect(c) ==
  /\ conn[c] = "new"
  /\ conn' = [conn EXCEPT ![c] = IF ClientTenant[c] = Anonymous THEN "erasing" ELSE "inserting"]
  /\ UNCHANGED <<log, publisher, inbox, sub, current, todo, clients, received, raced, due>>

(* What an edit of the set does to a loop that is under way. *)
LoopAfter(p, visit) == IF Looping(p) THEN {visit, {}} ELSE {{}}

Insert(c) ==
  LET p == Home[c] IN
  /\ conn[c] = "inserting"
  /\ conn' = [conn EXCEPT ![c] = "open"]
  /\ \E set \in {clients[p] \cup {c}} \cup (IF Overlap(p, c) THEN {clients[p]} ELSE {}),
        rest \in LoopAfter(p, todo[p]) \cup LoopAfter(p, todo[p] \cup {c}) :
       /\ clients' = [clients EXCEPT ![p] = set]
       /\ todo' = [todo EXCEPT ![p] = rest \cap set]
  /\ NoteRace(p, c)
  /\ UNCHANGED <<log, publisher, inbox, sub, current, received, due>>

Close(c) ==
  /\ conn[c] = "open"
  /\ conn' = [conn EXCEPT ![c] = "erasing"]
  /\ UNCHANGED <<log, publisher, inbox, sub, current, todo, clients, received, raced, due>>

(* Mutant of Erase: the connection is left in the set. *)
EraseNothing(c) ==
  /\ conn[c] = "erasing"
  /\ conn' = [conn EXCEPT ![c] = "closed"]
  /\ NoteRace(Home[c], c)
  /\ UNCHANGED <<log, publisher, inbox, sub, current, todo, clients, received, due>>

(* handleConnectionClosed *)
Erase(c) ==
  LET p == Home[c] IN
  /\ conn[c] = "erasing"
  /\ conn' = [conn EXCEPT ![c] = "closed"]
  /\ clients' = [clients EXCEPT ![p] = @ \ {c}]
  /\ \E rest \in LoopAfter(p, todo[p] \ {c}) : todo' = [todo EXCEPT ![p] = rest]
  /\ NoteRace(p, c)
  /\ UNCHANGED <<log, publisher, inbox, sub, current, received, due>>

-----------------------------------------------------------------------------
(* The subscriber thread. *)

Take(p) ==
  /\ sub[p] = "listening" /\ ~Looping(p) /\ inbox[p] # <<>>
  /\ current' = [current EXCEPT ![p] = Head(inbox[p])]
  /\ todo' = [todo EXCEPT ![p] = clients[p]]
  /\ inbox' = [inbox EXCEPT ![p] = Tail(@)]
  /\ raced' = IF Editing(p) # {} THEN raced \cup clients[p] \cup Editing(p) ELSE raced
  /\ UNCHANGED <<log, publisher, sub, conn, clients, received, due>>

(* Mutant of Visit: the event goes to every client of the process. *)
VisitUnfiltered(p) ==
  /\ Looping(p)
  /\ \E c \in todo[p] :
       /\ todo' = [todo EXCEPT ![p] = @ \ {c}]
       /\ received' = IF conn[c] = "open"
                      THEN [received EXCEPT ![c] = Append(@, current[p].event)] ELSE received
  /\ UNCHANGED <<log, publisher, inbox, sub, current, conn, clients, raced, due>>

(* Mutant of Visit: the loop stops at the first client of another tenant.  *)
VisitStops(p) ==
  /\ Looping(p)
  /\ \E c \in todo[p] :
       IF ClientTenant[c] = extractTenantFromChannel(current[p].channel)
       THEN /\ todo' = [todo EXCEPT ![p] = @ \ {c}]
            /\ received' = IF conn[c] = "open"
                           THEN [received EXCEPT ![c] = Append(@, current[p].event)] ELSE received
       ELSE todo' = [todo EXCEPT ![p] = {}] /\ UNCHANGED received
  /\ UNCHANGED <<log, publisher, inbox, sub, current, conn, clients, raced, due>>

(* One turn of broadcast's loop; sending on a closed connection is a no-op. *)
Visit(p) ==
  /\ Looping(p)
  /\ \E c \in todo[p] :
       /\ todo' = [todo EXCEPT ![p] = @ \ {c}]
       /\ received' =
            IF ClientTenant[c] = extractTenantFromChannel(current[p].channel) /\ conn[c] = "open"
            THEN [received EXCEPT ![c] = Append(@, current[p].event)] ELSE received
  /\ UNCHANGED <<log, publisher, inbox, sub, current, conn, clients, raced, due>>

EndLoop(p) ==
  /\ Looping(p) /\ todo[p] = {}
  /\ current' = [current EXCEPT ![p] = NoEvent]
  /\ UNCHANGED <<log, publisher, inbox, sub, todo, conn, clients, received, raced, due>>

(* An exception out of psubscribe, between two messages, ends the thread;  *)
(* nothing starts it again.                                                *)
SubscriberFails(p) ==
  /\ sub[p] = "listening" /\ ~Looping(p)
  /\ sub' = [sub EXCEPT ![p] = "dead"]
  /\ inbox' = [inbox EXCEPT ![p] = <<>>]
  /\ UNCHANGED <<log, publisher, current, todo, conn, clients, received, raced, due>>

(* The process dies, and is started again without clients. *)
Restart(p) ==
  /\ sub' = [sub EXCEPT ![p] = "listening"]
  /\ inbox' = [inbox EXCEPT ![p] = <<>>]
  /\ current' = [current EXCEPT ![p] = NoEvent]
  /\ todo' = [todo EXCEPT ![p] = {}]
  /\ clients' = [clients EXCEPT ![p] = {}]
  /\ conn' = [c \in Clients |->
       IF Home[c] = p /\ conn[c] # "new" THEN "closed" ELSE conn[c]]
  /\ UNCHANGED <<log, publisher, received, raced, due>>

-----------------------------------------------------------------------------
Subscriber(p) == Take(p) \/ Visit(p) \/ EndLoop(p)
EventLoop(c)  == Insert(c) \/ Erase(c)

Next ==
  \/ \E e \in Events : Publish(e) \/ PublishNowhere(e)
  \/ \E c \in Clients : Connect(c) \/ Close(c) \/ EventLoop(c)
  \/ \E p \in Processes : Subscriber(p) \/ SubscriberFails(p) \/ Restart(p)

Spec == Init /\ [][Next]_vars

(* The subscriber thread runs, and a handler that has started ends. *)
FairSpec == /\ Spec
            /\ \A p \in Processes : WF_vars(Subscriber(p))
            /\ \A c \in Clients : WF_vars(EventLoop(c))

-----------------------------------------------------------------------------
(* Properties. *)

Elements(s) == {s[i] : i \in DOMAIN s}

(* Type invariant; the set holds only connections of its own process.      *)
TypeOK ==
  /\ log \in Seq(Events)
  /\ publisher \in [Events -> {"ready", "published", "dropped"}]
  /\ inbox \in [Processes -> Seq(Messages)]
  /\ sub \in [Processes -> {"listening", "dead"}]
  /\ current \in [Processes -> Messages \cup {NoEvent}]
  /\ conn \in [Clients -> {"new", "inserting", "open", "erasing", "closed"}]
  /\ clients \in [Processes -> SUBSET Clients]
  /\ todo \in [Processes -> SUBSET Clients]
  /\ received \in [Clients -> Seq(Events)]
  /\ raced \subseteq Clients
  /\ due \subseteq Events \X Clients
  /\ \A p \in Processes :
       /\ clients[p] \subseteq {c \in Clients : Home[c] = p /\ conn[c] \in {"open", "erasing"}}
       /\ todo[p] \subseteq clients[p]
       /\ todo[p] # {} => Looping(p)

(* "Only sends the message if the client's tenant matches the event's      *)
(* tenant": along the channel's name and back, no event reaches a client   *)
(* of another tenant, or one that gave no tenant.                          *)
TenantIsolation ==
  \A c \in Clients : \A e \in Elements(received[c]) : EventTenant[e] = ClientTenant[c]

Position(e) == CHOOSE i \in DOMAIN log : log[i] = e

(* A client sees events in the order Redis accepted them, and none twice,  *)
(* through restarts of processes and whatever the races do.                *)
InOrderOnce ==
  \A c \in Clients : \A i, j \in DOMAIN received[c] :
    i < j => Position(received[c][i]) < Position(received[c][j])

(* The i-th event is for client c's tenant, and was published after c had  *)
(* connected or after another event c has seen.                            *)
Owed(i, c) ==
  /\ EventTenant[log[i]] = ClientTenant[c]
  /\ <<log[i], c>> \in due \/ \E j \in 1..i : log[j] \in Elements(received[c])

(* Unless accesses to the set overlapped while it was connected, a client  *)
(* that has seen an event has seen every earlier one of its tenant that    *)
(* was published after it had connected or after another one it has seen.  *)
NoGap ==
  \A c \in Clients \ raced : \A e \in Elements(received[c]) : \A i \in 1..Position(e) :
    Owed(i, c) => log[i] \in Elements(received[c])

(* An event published while a client of its tenant is connected is sent to *)
(* it, on whichever process it is, unless the client leaves, accesses to   *)
(* the set overlap or the subscriber thread of its process has ended.      *)
Served(e, c) == e \in Elements(received[c]) \/ conn[c] # "open"
Excused(c)   == c \in raced \/ sub[Home[c]] = "dead"
EventReachesClients ==
  \A e \in Events, c \in Clients : <<e, c>> \in due ~> Served(e, c) \/ Excused(c)

(* Whatever processes, subscribers, connections and races do, delivery     *)
(* keeps EventFeed's promise.                                              *)
Feed == INSTANCE EventFeed
ImplementsFeed == Feed!Spec

-----------------------------------------------------------------------------
(* What makes these inductive. *)

(* How many events of the log process p has taken or missed.  While it     *)
(* listens its inbox holds all the others.                                 *)
Reached(p) == Len(log) - Len(inbox[p])
LogOnce ==
  /\ \A i, j \in DOMAIN log : log[i] = log[j] => i = j
  /\ \A e \in Elements(log) : publisher[e] # "ready"
InboxIsSuffix ==
  \A p \in Processes :
    /\ Len(inbox[p]) <= Len(log)
    /\ sub[p] = "dead" => inbox[p] = <<>>
    /\ \A i \in DOMAIN inbox[p] : inbox[p][i] = Message(log[Reached(p) + i])
    /\ Looping(p) => /\ sub[p] = "listening" /\ Reached(p) >= 1
                     /\ current[p] = Message(log[Reached(p)])

(* A client has seen no more than its process, and not the event the loop  *)
(* will still send it.                                                     *)
SeenReached ==
  \A c \in Clients : \A e \in Elements(received[c]) :
    /\ e \in Elements(log) /\ Position(e) <= Reached(Home[c])
    /\ c \in todo[Home[c]] => Position(e) < Reached(Home[c])

(* A client is in the set once it is connected, and sees and is owed       *)
(* nothing before.                                                         *)
InSet ==
  \A c \in Clients :
    /\ conn[c] = "open" /\ c \notin raced => c \in clients[Home[c]]
    /\ conn[c] \in {"new", "inserting"} =>
         received[c] = <<>> /\ \A e \in Events : <<e, c>> \notin due

(* What is owed to a client of what its process has reached was sent to    *)
(* it, or is about to be.                                                  *)
KeptUp ==
  \A c \in Clients \ raced :
    conn[c] = "open" /\ sub[Home[c]] = "listening" =>
      \A i \in 1..Reached(Home[c]) : Owed(i, c) =>
        \/ log[i] \in Elements(received[c])
        \/ i = Reached(Home[c]) /\ c \in todo[Home[c]]

IInv ==
  /\ TypeOK /\ LogOnce /\ InboxIsSuffix /\ SeenReached /\ InSet
  /\ TenantIsolation /\ InOrderOnce /\ KeptUp /\ NoGap

-----------------------------------------------------------------------------
(* What EventReachesClients says of a state: an event published while a     *)
(* client was connected is never lost on the way to it.  Until it is sent   *)
(* it is in the inbox of the client's process, or being broadcast by a loop *)
(* that has this client still to visit.                                     *)
Coming(e, c) ==
  LET p == Home[c] IN
  \/ \E i \in DOMAIN inbox[p] : inbox[p][i] = Message(e)
  \/ current[p] = Message(e) /\ c \in todo[p]
DueIsComing ==
  \A e \in Events, c \in Clients :
    <<e, c>> \in due => Served(e, c) \/ Excused(c) \/ Coming(e, c)

(* An event is due to clients of its tenant, from when it was published.    *)
DueIsPublished ==
  \A e \in Events, c \in Clients :
    <<e, c>> \in due => e \in Elements(log) /\ EventTenant[e] = ClientTenant[c]
=============================================================================
