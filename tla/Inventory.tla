------------------------------ MODULE Inventory ------------------------------
(***************************************************************************)
(* What the three requests about tickets and bags promise, whatever        *)
(* processes, connections and transactions are behind them: each takes      *)
(* effect at one moment after it came, once or never.  One that is confirmed *)
(* has taken effect.  One that is not may still do so later, but holds its  *)
(* seat or bag for itself until then: nothing else happens to it meanwhile. *)
(***************************************************************************)
CONSTANTS
  Requests, Attr,    \* Attr[r]: the kind of request r, its seat or tag, its ticket
  Tags, NoRequest

VARIABLES
  stored,     \* requests that have taken effect
  shown,      \* shown[g]: the update that bag g's status and location are from
  missed,     \* updates that have found no bag of their tag
  doubtful,   \* requests that are over, not confirmed, and may take effect yet
  reply       \* what each client has been told

vars == <<stored, shown, missed, doubtful, reply>>

Kind(r)     == Attr[r].kind
Alike(q, r) == Kind(q) = Kind(r) /\ Attr[q].key = Attr[r].key

Pending     == {r \in Requests : reply[r] = "pending"}

Init ==
  /\ stored = {} /\ missed = {} /\ doubtful = {}
  /\ shown = [g \in Tags |-> NoRequest]
  /\ reply = [r \in Requests |-> "none"]

(* A seat that is free, a tag that is free and a ticket that was sold, or  *)
(* a bag that is checked in.                                               *)
BagOf(r) == {b \in stored : Kind(b) = "bag" /\ Attr[b].key = Attr[r].key}
Possible(r) ==
  /\ r \notin stored \cup missed
  /\ Kind(r) # "status" => \A q \in stored : ~Alike(q, r)
  /\ Kind(r) = "bag" => Attr[r].ticket \in stored
  /\ Kind(r) = "status" => BagOf(r) # {}

(* The requests of D are over with an outcome that nobody knows. *)
LeaveInDoubt(D) ==
  /\ \A r \in D : Possible(r) /\ \A q \in doubtful \cup D : Alike(q, r) => q = r
  /\ doubtful' = doubtful \cup D

Accept(r) ==
  /\ reply[r] = "none"
  /\ reply' = [reply EXCEPT ![r] = "pending"]
  /\ UNCHANGED <<stored, shown, missed, doubtful>>

Reject(r) ==
  /\ reply[r] = "none"
  /\ reply' = [reply EXCEPT ![r] = "error"]
  /\ UNCHANGED <<stored, shown, missed, doubtful>>

TakeEffect(r) ==
  /\ reply[r] = "pending" \/ r \in doubtful
  /\ Possible(r) /\ \A q \in doubtful : Alike(q, r) => q = r
  /\ stored' = stored \cup {r}
  /\ shown' = IF Kind(r) = "status" THEN [shown EXCEPT ![Attr[r].key] = r] ELSE shown
  /\ doubtful' = doubtful \ {r}
  /\ UNCHANGED <<missed, reply>>

(* An update that comes before its bag. *)
Miss(r) ==
  /\ reply[r] = "pending"
  /\ Kind(r) = "status" /\ BagOf(r) = {}
  /\ missed' = missed \cup {r}
  /\ UNCHANGED <<stored, shown, doubtful, reply>>

Confirm(r) ==
  /\ reply[r] = "pending" /\ r \in stored \cup missed
  /\ reply' = [reply EXCEPT ![r] = "ok"]
  /\ missed' = missed \ {r}
  /\ UNCHANGED <<stored, shown, doubtful>>

(* Requests that fail, or are lost with their process. *)
GiveUp(R, answer) ==
  /\ reply' = [r \in Requests |-> IF r \in R THEN answer ELSE reply[r]]
  /\ \E D \in SUBSET R : LeaveInDoubt(D)
  /\ missed' = missed \ R
  /\ UNCHANGED <<stored, shown>>

(* What is in doubt will not happen any more; what updates of no bag came  *)
(* to is not known any more.                                               *)
Forget ==
  /\ doubtful' \in SUBSET doubtful /\ missed' \in SUBSET missed
  /\ UNCHANGED <<stored, shown, reply>>

Next ==
  \/ Forget
  \/ \E r \in Requests :
       Accept(r) \/ Reject(r) \/ TakeEffect(r) \/ Miss(r) \/ Confirm(r)
  \/ \E R \in SUBSET Pending, answer \in {"error", "lost"} : GiveUp(R, answer)

Spec == Init /\ [][Next]_vars
=============================================================================
