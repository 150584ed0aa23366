---------------------------- MODULE RemoteServer ----------------------------
(***************************************************************************)
(* The central server as its clients see it: what a request to one of its  *)
(* routes is answered, and what it leaves in the database.                 *)
(*                                                                         *)
(* A request is authenticated (auth.py, get_current_device), then the      *)
(* caller's member is checked (require_member), then the service is        *)
(* called: three transactions.  Devices, members and pools are never       *)
(* changed or deleted once they exist, so nothing the first two read can   *)
(* change before the third, and a request is one step.  Of the services'   *)
(* quota arithmetic, which QuotaLedger has, a bound on what a member may   *)
(* consume and one on what it may offer are kept.                          *)
(***************************************************************************)
EXTENDS Totals, Sequences, SequencesExt

CONSTANTS
  Owner,   \* member |-> the user it belongs to, for the members on the server
  Base     \* units a member may consume, and units it may offer

ASSUME ServerAssumption == Base \in Nat

Members == DOMAIN Owner
Users == Range(Owner)

\* A database: the devices, whose place is their token's (a hash finds it), and
\* the tables of requests, grants and usage records, rows in order of insertion.
EmptyDb == [devices |-> <<>>, requests |-> <<>>, grants |-> <<>>, usage |-> <<>>]

\* Rows of capacity_requests and capacity_grants; which request a grant answers
\* is history.
RequestRows == [from : Members, to : Members, amount : Nat, status : {"PENDING", "APPROVED", "REJECTED"}]
GrantRows == [request : Nat, source : Members, amount : Nat, status : {"ACTIVE", "REVOKED"}]

\* The approved requests are those that have a grant.
GrantsAnswerRequests(db) ==
  /\ \A j \in DOMAIN db.grants : db.grants[j].request \in DOMAIN db.requests
  /\ \A i \in DOMAIN db.requests :
       db.requests[i].status = "APPROVED" <=> \E j \in DOMAIN db.grants : db.grants[j].request = i

\* A request: the token it carries (0: none), the route, the member the caller
\* acts as, and its parameters.
Body(op, as, of, amount) == [op |-> op, as |-> as, of |-> of, amount |-> amount]

-----------------------------------------------------------------------------
(* auth.py, agent_service.py                                               *)

\* find_by_token_hash()
DeviceOf(db, token) == IF token \in DOMAIN db.devices THEN {db.devices[token]} ELSE {}

\* Slip: that the token is known is enough.
MayActAsAnyone(db, token, member) == member \in Members

\* require_member(): the member exists and the device's user owns it.
MayActAs(db, token, member) == member \in Members /\ Owner[member] \in DeviceOf(db, token)

\* register_device(), which needs no token: a user is known by its members.
CanRegister(user) == user \in Users
Registered(db, user) == [db EXCEPT !.devices = Append(@, user)]

-----------------------------------------------------------------------------
(* The services behind the routes: whether a call is carried out, and the  *)
(* database it leaves.                                                     *)

\* find_by_idempotency_key()
Recorded(db, key) == { i \in DOMAIN db.usage : db.usage[i].key = key }

UsedBy(db, member) ==
  Total({ [row |-> i, amount |-> db.usage[i].amount] : i \in { j \in DOMAIN db.usage : db.usage[j].member = member } })

CanConsume(db, b) == Recorded(db, b.of) = {} /\ b.amount =< Base - UsedBy(db, b.as)

Consumed(db, b) == [db EXCEPT !.usage = Append(@, [member |-> b.as, key |-> b.of, amount |-> b.amount])]

\* A report that is already recorded, for the same member and amount, is
\* answered as accepted once more.
Replayed(db, b) == \E i \in Recorded(db, b.of) : db.usage[i].member = b.as /\ db.usage[i].amount = b.amount

CanRequest(db, b) == b.of \in Members \ {b.as}

Requested(db, b) ==
  [db EXCEPT !.requests = Append(@, [from |-> b.as, to |-> b.of, amount |-> b.amount, status |-> "PENDING"])]

\* Slip: a request may be decided again.
MayDecideAgain(db, b) == b.of \in DOMAIN db.requests /\ b.as = db.requests[b.of].to

MayDecide(db, b) ==
  /\ b.of \in DOMAIN db.requests
  /\ db.requests[b.of].status = "PENDING"
  /\ b.as = db.requests[b.of].to

Offered(db, member) ==
  Total({ [row |-> i, amount |-> db.grants[i].amount] :
            i \in { j \in DOMAIN db.grants : db.grants[j].source = member /\ db.grants[j].status = "ACTIVE" } })

CanApprove(db, b) == MayDecide(db, b) /\ db.requests[b.of].amount =< Base - Offered(db, b.as)

\* Slip: the request is left pending.
ApprovedInPart(db, b) ==
  [db EXCEPT !.grants = Append(@, [request |-> b.of, source |-> b.as, amount |-> db.requests[b.of].amount, status |-> "ACTIVE"])]

Approved(db, b) ==
  [db EXCEPT !.requests[b.of].status = "APPROVED",
             !.grants = Append(@, [request |-> b.of, source |-> b.as, amount |-> db.requests[b.of].amount, status |-> "ACTIVE"])]

Rejected(db, b) == [db EXCEPT !.requests[b.of].status = "REJECTED"]

CanRevoke(db, b) ==
  /\ b.of \in DOMAIN db.grants
  /\ db.grants[b.of].status = "ACTIVE"
  /\ b.as = db.grants[b.of].source

Revoked(db, b) == [db EXCEPT !.grants[b.of].status = "REVOKED"]

-----------------------------------------------------------------------------
(* routes.py                                                               *)

\* The routes that act for a member: the caller's own is checked.
Allowed(db, token, b) ==
  /\ MayActAs(db, token, b.as)
  /\ CASE b.op = "consume" -> CanConsume(db, b)
       [] b.op = "request" -> CanRequest(db, b)
       [] b.op = "approve" -> CanApprove(db, b)
       [] b.op = "reject" -> MayDecide(db, b)
       [] b.op = "revoke" -> CanRevoke(db, b)
       [] OTHER -> FALSE

Outcome(db, b) ==
  CASE b.op = "consume" -> Consumed(db, b)
    [] b.op = "request" -> Requested(db, b)
    [] b.op = "approve" -> Approved(db, b)
    [] b.op = "reject" -> Rejected(db, b)
    [] b.op = "revoke" -> Revoked(db, b)

\* GET requests and replays: answered, nothing changed.
Answered(db, token, b) ==
  \/ b.op = "members" /\ DeviceOf(db, token) # {}
  \/ b.op = "status" /\ MayActAs(db, token, b.as)
  \/ b.op = "consume" /\ MayActAs(db, token, b.as) /\ Replayed(db, b)
=============================================================================
