------------------------------- MODULE Booking -------------------------------
(***************************************************************************)
(* Tickets and baggage: POST /tickets, POST /baggage, PUT /baggage/status. *)
(* Each handler runs one statement in one transaction on its process'      *)
(* connection.  The processes meet in PostgreSQL: in the unique index of   *)
(* (flight, seat) and of the tag, and in the lock of an updated bag.  There *)
(* an INSERT or UPDATE waits for the transaction in its way, which may be  *)
(* one whose sender has died, with or without a COMMIT on its way.         *)
(*                                                                         *)
(* A request's identity stands for the UUID of the row it inserts; a client *)
(* that repeats a request sends another one with the same contents.        *)
(***************************************************************************)
EXTENDS FiniteSets

CONSTANTS
  Workers, Processes, Host,  \* threads, processes, the process of a thread
  Requests, Attr,            \* Attr[r]: what request r carries
  Seats, Tags,               \* seats of flights; tags of bags, over all tenants
  NoWorker, NoRequest

(* key: the seat, or the tag generateTag makes of flight number and sequence; *)
(* ticket: the ticket a bag is for (NoRequest: an id of none); form: "bad"  *)
(* has no token, or a body without a field of the right type (or, for bags, *)
(* none); "absent" is a ticket request without a body.                     *)
RequestAttr ==
  [kind : {"ticket"}, key : Seats, ticket : {NoRequest}, form : {"good", "bad", "absent"}]
  \cup [kind : {"bag"}, key : Tags, ticket : Requests \cup {NoRequest}, form : {"good", "bad"}]
  \cup [kind : {"status"}, key : Tags, ticket : {NoRequest}, form : {"good", "bad"}]

ASSUME HostAssumption    == Host \in [Workers -> Processes] /\ NoWorker \notin Workers
ASSUME RequestAssumption == Attr \in [Requests -> RequestAttr] /\ NoRequest \notin Requests

VARIABLES
  pc, job,  \* the next call of a thread, the request it handles
  conn,     \* conn[p]: the thread whose transaction is open on p's connection
  link,     \* link[p]: p's connection works
  staged,   \* requests whose row is written by an open transaction
  sent,     \* those of them whose COMMIT is on its way to the server
  stored,   \* requests whose row is committed
  shown,    \* shown[g]: the update that bag g's status and location are from
  answer,   \* the reply: none, ok, error; lost when the process died
  earlier   \* history: what was done with update r's bag and had ended when r came

vars == <<pc, job, conn, link, staged, sent, stored, shown, answer, earlier>>

Kind(r) == Attr[r].kind
Alike(q, r) == Kind(q) = Kind(r) /\ Attr[q].key = Attr[r].key

Init ==
  /\ pc = [w \in Workers |-> "idle"]
  /\ job = [w \in Workers |-> NoRequest]
  /\ conn = [p \in Processes |-> NoWorker]
  /\ link = [p \in Processes |-> TRUE]
  /\ staged = {} /\ sent = {} /\ stored = {}
  /\ shown = [g \in Tags |-> NoRequest]
  /\ answer = [r \in Requests |-> "none"]
  /\ earlier = [r \in Requests |-> {}]

GoTo(w, s)    == pc' = [pc EXCEPT ![w] = s]
Running(w, s) == pc[w] = s /\ link[Host[w]]
Discard(r)    == staged' = staged \ {r} /\ sent' = sent \ {r}

(* The reply, and the stack of the handler unwound: the connection is free. *)
Finish(w, a) ==
  /\ answer' = [answer EXCEPT ![job[w]] = a]
  /\ conn' = [conn EXCEPT ![Host[w]] = IF @ = w THEN NoWorker ELSE @]
  /\ job' = [job EXCEPT ![w] = NoRequest]
  /\ GoTo(w, "idle")

-----------------------------------------------------------------------------
(* The handlers. *)

(* Mutant of Receive: no return after the reply to a bad request. *)
ReceiveGoesOn(w, r) ==
  /\ pc[w] = "idle" /\ answer[r] = "none" /\ \A v \in Workers : job[v] # r
  /\ earlier' = [earlier EXCEPT ![r] = {}]
  /\ answer' = [answer EXCEPT ![r] = IF Attr[r].form = "bad" THEN "error" ELSE @]
  /\ GoTo(w, "begin") /\ job' = [job EXCEPT ![w] = r]
  /\ UNCHANGED <<conn, link, staged, sent, stored, shown>>

(* bookTicket alone reads the body without asking whether there is one.    *)
Receive(w, r) ==
  /\ pc[w] = "idle" /\ answer[r] = "none" /\ \A v \in Workers : job[v] # r
  /\ earlier' = [earlier EXCEPT ![r] =
       {q \in Requests : /\ Kind(r) = "status" /\ Kind(q) \in {"bag", "status"}
                         /\ Attr[q].key = Attr[r].key /\ answer[q] # "none"}]
  /\ \/ /\ Attr[r].form = "bad"
        /\ answer' = [answer EXCEPT ![r] = "error"] /\ UNCHANGED <<pc, job>>
     \/ /\ Attr[r].form # "bad"
        /\ GoTo(w, IF Attr[r].form = "good" THEN "begin" ELSE "crash")
        /\ job' = [job EXCEPT ![w] = r] /\ UNCHANGED answer
  /\ UNCHANGED <<conn, link, staged, sent, stored, shown>>

Begin(w) ==
  /\ Running(w, "begin") /\ conn[Host[w]] = NoWorker
  /\ conn' = [conn EXCEPT ![Host[w]] = w]
  /\ GoTo(w, "execute")
  /\ UNCHANGED <<job, link, staged, sent, stored, shown, answer, earlier>>

(* The constructor of pqxx::work: one transaction at a time. *)
BeginThrows(w) ==
  /\ Running(w, "begin") /\ conn[Host[w]] # NoWorker
  /\ Finish(w, "error")
  /\ UNCHANGED <<link, staged, sent, stored, shown, earlier>>

(* Mutant of InTheWay: a row is looked for before it is written, no index or *)
(* lock makes a transaction wait for another.                              *)
InTheWayOfNone(r) == {}

(* The open transactions PostgreSQL makes r's statement wait for. *)
InTheWay(r) == {q \in staged : Alike(q, r)}

(* Mutant of Taken: the column is declared without UNIQUE. *)
TakenNever(r) == FALSE

(* The unique index of tickets or of baggage has r's key. *)
Taken(r) == Kind(r) # "status" /\ \E q \in stored : Alike(q, r)

(* The rows that r's REFERENCES or WHERE names are there.                  *)
Referred(r) == Kind(r) = "bag" => Attr[r].ticket \in stored

(* Mutant of Tagged: ... WHERE tag_number = $3 AND status = 'Checked-In'. *)
TaggedOnce(g) ==
  shown[g] = NoRequest /\ \E q \in stored : Kind(q) = "bag" /\ Attr[q].key = g

Tagged(g) == \E q \in stored : Kind(q) = "bag" /\ Attr[q].key = g

(* Mutant of Execute: the row is read FOR SHARE before it is written, and  *)
(* the lock upgraded.                                                      *)
ExecuteUpgrades(w) ==
  LET r == job[w] IN
  /\ Running(w, "execute") /\ ~Taken(r) /\ Referred(r)
  /\ IF r \in staged THEN InTheWay(r) = {r} /\ GoTo(w, "commit") ELSE UNCHANGED pc
  /\ staged' = staged \cup {r}
  /\ UNCHANGED <<job, conn, link, sent, stored, shown, answer, earlier>>

(* An UPDATE of no row is no error and stages nothing. *)
Execute(w) ==
  LET r == job[w] IN
  /\ Running(w, "execute")
  /\ InTheWay(r) = {} /\ ~Taken(r) /\ Referred(r)
  /\ staged' = IF Kind(r) = "status" /\ ~Tagged(Attr[r].key) THEN staged ELSE staged \cup {r}
  /\ GoTo(w, "commit")
  /\ UNCHANGED <<job, conn, link, sent, stored, shown, answer, earlier>>

(* Mutant of Violation: a catch that does not call the callback. *)
ViolationSwallowed(w) ==
  LET r == job[w] IN
  /\ Running(w, "execute")
  /\ InTheWay(r) = {} /\ (Taken(r) \/ ~Referred(r))
  /\ conn' = [conn EXCEPT ![Host[w]] = NoWorker]
  /\ job' = [job EXCEPT ![w] = NoRequest] /\ GoTo(w, "idle")
  /\ UNCHANGED <<link, staged, sent, stored, shown, answer, earlier>>

(* unique_violation or foreign_key_violation. *)
Violation(w) ==
  LET r == job[w] IN
  /\ Running(w, "execute")
  /\ InTheWay(r) = {} /\ (Taken(r) \/ ~Referred(r))
  /\ Finish(w, "error")
  /\ UNCHANGED <<link, staged, sent, stored, shown, earlier>>

(* Mutant of SendCommit: the handler forgets txn.commit(). *)
SendNoCommit(w) ==
  /\ Running(w, "commit")
  /\ Finish(w, "ok") /\ Discard(job[w])
  /\ UNCHANGED <<link, stored, shown, earlier>>

SendCommit(w) ==
  /\ Running(w, "commit")
  /\ sent' = sent \cup ({job[w]} \cap staged)
  /\ GoTo(w, "committing")
  /\ UNCHANGED <<job, conn, link, staged, stored, shown, answer, earlier>>

Committed(w) ==
  /\ Running(w, "committing") /\ job[w] \notin staged
  /\ Finish(w, "ok")
  /\ UNCHANGED <<link, staged, sent, stored, shown, earlier>>

(* The server refuses the statement or the COMMIT for a reason of its own. *)
ServerFails(w) ==
  /\ Running(w, "execute") \/ (Running(w, "committing") /\ job[w] \in staged)
  /\ Finish(w, "error") /\ Discard(job[w])
  /\ UNCHANGED <<link, stored, shown, earlier>>

(* The connection is lost: the call throws; what the server has it keeps   *)
(* until it notices.                                                       *)
CallThrows(w) ==
  /\ pc[w] \in {"begin", "execute", "commit", "committing"} /\ ~link[Host[w]]
  /\ Finish(w, "error")
  /\ UNCHANGED <<link, staged, sent, stored, shown, earlier>>

(* The process dies, with what its threads are doing, and is started again. *)
Restart(p) ==
  LET mine == {w \in Workers : Host[w] = p} IN
  /\ pc' = [w \in Workers |-> IF w \in mine THEN "idle" ELSE pc[w]]
  /\ job' = [w \in Workers |-> IF w \in mine THEN NoRequest ELSE job[w]]
  /\ answer' = [r \in Requests |-> IF \E w \in mine : job[w] = r THEN "lost" ELSE answer[r]]
  /\ conn' = [conn EXCEPT ![p] = NoWorker]
  /\ link' = [link EXCEPT ![p] = TRUE]
  /\ UNCHANGED <<staged, sent, stored, shown, earlier>>

(* The body is read through a null pointer.                               *)
Crash(w) == pc[w] = "crash" /\ Restart(Host[w])

-----------------------------------------------------------------------------
(* PostgreSQL and the network. *)

ServerCommits(r) ==
  /\ r \in sent
  /\ Discard(r)
  /\ stored' = stored \cup {r}
  /\ shown' = IF Kind(r) = "status" THEN [shown EXCEPT ![Attr[r].key] = r] ELSE shown
  /\ UNCHANGED <<pc, job, conn, link, answer, earlier>>

(* The session of a client that is gone ends, its transaction with it. *)
ServerAborts(r) ==
  /\ r \in staged /\ \A w \in Workers : job[w] = r => ~link[Host[w]]
  /\ Discard(r)
  /\ UNCHANGED <<pc, job, conn, link, stored, shown, answer, earlier>>

LoseLink(p) ==
  /\ link' = [link EXCEPT ![p] = FALSE]
  /\ UNCHANGED <<pc, job, conn, staged, sent, stored, shown, answer, earlier>>

-----------------------------------------------------------------------------
Work(w) ==
  \/ Begin(w) \/ BeginThrows(w) \/ Execute(w) \/ Violation(w)
  \/ SendCommit(w) \/ Committed(w) \/ CallThrows(w) \/ Crash(w)

Server(r) == ServerCommits(r) \/ ServerAborts(r)

Next ==
  \/ \E w \in Workers, r \in Requests : Receive(w, r)
  \/ \E w \in Workers : Work(w) \/ ServerFails(w)
  \/ \E r \in Requests : Server(r)
  \/ \E p \in Processes : LoseLink(p) \/ Restart(p)

Spec == Init /\ [][Next]_vars

(* A thread executes its handler and blocks only inside PostgreSQL; the    *)
(* server performs the COMMITs it has and ends the sessions nobody holds.  *)
FairSpec ==
  /\ Spec
  /\ \A w \in Workers : WF_vars(Work(w))
  /\ \A r \in Requests : WF_vars(Server(r))

-----------------------------------------------------------------------------
(* Properties. *)

(* Type invariant; a request is handled by one thread, which has not       *)
(* answered it yet, and only its transaction's rows have a COMMIT under way. *)
TypeOK ==
  /\ pc \in [Workers -> {"idle", "begin", "execute", "commit", "committing", "crash"}]
  /\ job \in [Workers -> Requests \cup {NoRequest}]
  /\ \A w \in Workers : pc[w] = "idle" <=> job[w] = NoRequest
  /\ \A w \in Workers : job[w] # NoRequest => answer[job[w]] = "none"
  /\ conn \in [Processes -> Workers \cup {NoWorker}]
  /\ link \in [Processes -> BOOLEAN]
  /\ staged \subseteq Requests /\ sent \subseteq staged /\ stored \subseteq Requests \ staged
  /\ shown \in [Tags -> stored \cup {NoRequest}]
  /\ answer \in [Requests -> {"none", "ok", "error", "lost"}]
  /\ earlier \in [Requests -> SUBSET Requests]

(* A seat of a flight is sold once and a tag is on one bag, whichever       *)
(* processes insert at once and whatever becomes of them: tickets and      *)
(* baggage have one row per seat and per tag.                              *)
SoldOnce ==
  \A q, r \in stored : Alike(q, r) /\ Kind(r) # "status" => q = r

(* "Ticket booked successfully", or a tag number in the reply to a check-in: *)
(* the row is committed, and a bag's ticket with it.                       *)
ConfirmedIsStored ==
  \A r \in Requests :
    answer[r] = "ok" /\ Kind(r) # "status" =>
      /\ r \in stored
      /\ Kind(r) = "bag" => Attr[r].ticket \in stored

(* A bag's status and location are never those of an update that had ended, *)
(* be it with an error or a lost reply, before another one came that is    *)
(* written by now: a late COMMIT does not undo a later report.             *)
LatestReportShown ==
  \A r \in stored : Kind(r) = "status" => shown[Attr[r].key] \notin earlier[r]

(* "Baggage updated successfully" to a report that came after the check-in *)
(* of its bag was confirmed: the report is in the bag's row.  The reply    *)
(* alone says nothing, an UPDATE that meets no row is answered alike.      *)
ReportTakesEffect ==
  \A r \in Requests :
    /\ answer[r] = "ok" /\ Kind(r) = "status"
    /\ \E q \in earlier[r] : Kind(q) = "bag" /\ answer[q] = "ok"
    => r \in stored

(* Whatever processes, connections and transactions do, the three requests *)
(* keep Inventory's promise: each takes effect at one moment, and one whose *)
(* outcome is in doubt keeps its seat or bag to itself until it is known.  *)
Reply(r) == IF \E w \in Workers : job[w] = r THEN "pending" ELSE answer[r]
MissedItsBag(r) ==
  /\ r \notin staged \cup stored
  /\ \E w \in Workers : job[w] = r /\ (Running(w, "commit") \/ Running(w, "committing"))

Promise == INSTANCE Inventory WITH
  missed   <- {r \in Requests : MissedItsBag(r)},
  doubtful <- {r \in staged : answer[r] # "none"},
  reply    <- [r \in Requests |-> Reply(r)]

ImplementsInventory == Promise!Spec

(* A statement waits only for transactions that end without it: no two     *)
(* wait for each other, and none waits for one that somebody has forgotten. *)
EndsAlone(q) ==
  \/ q \in sent
  \/ \E w \in Workers : job[w] = q /\ pc[w] = "commit"
  \/ \A w \in Workers : job[w] = q => ~link[Host[w]]
NoCircularWait ==
  \A w \in Workers : Running(w, "execute") => \A q \in InTheWay(job[w]) : EndsAlone(q)

(* Every request that a thread takes up is answered, or lost with its      *)
(* process: no statement waits for ever behind an abandoned transaction.   *)
EveryRequestEnds ==
  \A r \in Requests :
    (\E w \in Workers : job[w] = r) ~> answer[r] # "none"

-----------------------------------------------------------------------------
(* What makes these inductive. *)

OneThreadPerRequest ==
  \A v, w \in Workers : job[v] = job[w] /\ job[v] # NoRequest => v = w

(* A request that has written is answered or being handled, past Execute. *)
WrittenWasTaken ==
  \A r \in staged \cup stored :
    answer[r] # "none" \/ \E w \in Workers : job[w] = r /\ pc[w] \in {"commit", "committing"}

(* Execute let nobody past an open transaction on the same row, nor an     *)
(* INSERT past a committed one.                                            *)
OneWriter ==
  \A q \in staged, r \in staged \cup stored :
    Alike(q, r) /\ (r \in staged \/ Kind(r) # "status") => q = r

(* earlier has what it was meant to have. *)
EarlierEnded ==
  \A r \in Requests : \A q \in earlier[r] :
    answer[q] # "none" /\ q # r /\ Attr[q].key = Attr[r].key

(* An update that had ended when r came has no COMMIT under way any more   *)
(* once r is written.                                                      *)
NoLateReport ==
  \A q \in staged, r \in stored : Kind(r) = "status" /\ Alike(q, r) => q \notin earlier[r]

(* A statement has been executed by the time its COMMIT is sent. *)
ExecutedIsWritten ==
  \A w \in Workers :
    Running(w, "commit") \/ Running(w, "committing") =>
      /\ \/ Kind(job[w]) # "status"
         \/ \E q \in earlier[job[w]] : Kind(q) = "bag" /\ answer[q] = "ok"
         => job[w] \in staged \cup stored
      /\ Kind(job[w]) = "bag" => Attr[job[w]].ticket \in stored

IInv ==
  /\ TypeOK /\ OneThreadPerRequest /\ WrittenWasTaken
  /\ OneWriter /\ SoldOnce
  /\ EarlierEnded /\ NoLateReport /\ LatestReportShown
  /\ ExecutedIsWritten /\ ConfirmedIsStored /\ ReportTakesEffect

(* A COMMIT that a thread waits for is on its way, or over; what a          *)
(* transaction has written refers to rows that are there.  (Neither is      *)
(* needed for the ones above.)                                             *)
AwaitedIsSent ==
  \A w \in Workers : pc[w] = "committing" /\ job[w] \in staged => job[w] \in sent
StagedRefers ==
  \A r \in staged : Referred(r) /\ (Kind(r) = "status" => Tagged(Attr[r].key))
WritesStand == AwaitedIsSent /\ StagedRefers
=============================================================================
