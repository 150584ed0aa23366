---------------------------- MODULE QuotaLedger ----------------------------
(***************************************************************************)
(* The quota engine: QuotaService and CapacityService over one pool.       *)
(*                                                                         *)
(* Every service call runs inside one unit of work.  On SQLite that is one *)
(* BEGIN IMMEDIATE transaction, so each call that commits is one atomic    *)
(* action here.  A call that is refused rolls its transaction back and     *)
(* leaves no trace, lazy expiries included: it is a stuttering step.       *)
(*                                                                         *)
(* Each call reads the wall clock BEFORE it enters the unit of work and so *)
(* before it waits for the database lock.  `now` may therefore lie up to   *)
(* LockWait ticks in the past when the call takes effect (CallTimes).      *)
(*                                                                         *)
(* The FIVE_HOUR and WEEKLY windows share no state but the table of        *)
(* idempotency keys; the module follows one window type.                   *)
(***************************************************************************)
EXTENDS Totals

CONSTANTS
  Members,    \* the members of the pool
  Base,       \* Base[m]: QuotaWindow.allocation_units
  ResetAt,    \* ResetAt[m]: QuotaWindow.reset_at
  Amounts,    \* amounts callers may ask for
  Keys,       \* idempotency keys callers may use
  Ids,        \* the ids new_id() may return, per table
  MaxClock,   \* bound on the clock
  LockWait    \* how long a call may wait for the database lock

ASSUME MembersAssumption == IsFiniteSet(Members) /\ IsFiniteSet(Ids) /\ IsFiniteSet(Keys)
ASSUME BaseAssumption == Base \in [Members -> Nat]
ASSUME ResetAssumption == ResetAt \in [Members -> Nat]
ASSUME AmountsAssumption == Amounts \subseteq Nat \ {0}
ASSUME ClockAssumption == MaxClock \in Nat /\ LockWait \in Nat

VARIABLES
  clock,      \* wall-clock time
  usage,      \* usage[m]: QuotaWindow.usage_units
  requests,   \* table capacity_requests
  grants,     \* table capacity_grants
  records,    \* table usage_records
  shared      \* table shared_consumption_records

vars == <<clock, usage, requests, grants, records, shared>>

Types == {"SOLID", "SHARED"}

Requests == [id : Ids, requester : Members, target : Members, amount : Amounts,
             type : Types, status : {"PENDING", "APPROVED", "REJECTED"}]

Grants == [id : Ids, source : Members, recipient : Members, amount : Amounts,
           type : Types, status : {"ACTIVE", "REVOKED", "EXPIRED"},
           created : Nat, expires : Nat]

Records == [key : Keys, member : Members, amount : Amounts]

SharedRecords == [key : Keys, grant : Ids, amount : Nat \ {0}, at : Nat]

TypeOK ==
  /\ clock \in Nat
  /\ usage \in [Members -> Nat]
  /\ requests \subseteq Requests
  /\ grants \subseteq Grants
  /\ records \subseteq Records
  /\ shared \subseteq SharedRecords

-----------------------------------------------------------------------------
(* What a call computes from the tables, at the time `now` it captured.    *)

\* datetime.now() as captured before the wait for the database lock.
CallTimes == { t \in 0..clock : clock - t =< LockWait }

FreshId(table) == CHOOSE i \in Ids : i \notin { row.id : row \in table }

CanAdd(table) == { row.id : row \in table } # Ids

\* Slip: the status alone is tested, which no call may have brought up to date.
UsableIfActive(g, now) == g.status = "ACTIVE"

Usable(g, now) == g.status = "ACTIVE" /\ g.expires > now

\* A grant still stored as ACTIVE that `now` has overtaken.
Stale(g, now) == g.status = "ACTIVE" /\ g.expires =< now

Sent(m, type, now) ==
  { g \in grants : g.source = m /\ g.type = type /\ Usable(g, now) }

\* Slip: grants are only filtered by status on the recipient's side.
ReceivedAnyAge(m, type, now) ==
  { g \in grants : g.recipient = m /\ g.type = type /\ g.status = "ACTIVE" }

Received(m, type, now) ==
  { g \in grants : g.recipient = m /\ g.type = type /\ Usable(g, now) }

\* Slip: borrowed SHARED units are counted as guaranteed.
GuaranteedWithShared(m, now) ==
  Base[m] - Total(Sent(m, "SOLID", now)) + Total(Received(m, "SOLID", now))
          + Total(Received(m, "SHARED", now))

Guaranteed(m, now) ==
  Base[m] - Total(Sent(m, "SOLID", now)) + Total(Received(m, "SOLID", now))

\* Slip: the base allocation is used where the guaranteed units are meant.
AvailableOfBase(m, now) == Clamp(Base[m] - usage[m])

Available(m, now) == Clamp(Guaranteed(m, now) - usage[m])

LifetimeDrawn(g) == Total({ s \in shared : s.grant = g.id })

\* Slip: stale grants are left out of sums and not stored as EXPIRED.
ExpireNone(members, now) == grants

\* The grants table once `members` have been summarised at `now`: reading a
\* member's grants stores every stale one as EXPIRED.
ExpireFor(members, now) ==
  { IF Stale(g, now) /\ (g.source \in members \/ g.recipient \in members)
      THEN [g EXCEPT !.status = "EXPIRED"] ELSE g : g \in grants }

-----------------------------------------------------------------------------
(* Drawing a shortfall from SHARED grants, oldest first.                   *)

\* Sorted by created_at; equal times are left in either order.
DrawOrders(held) ==
  { rank \in [held -> 1..Cardinality(held)] :
      \A g, h \in held :
        /\ g # h => rank[g] # rank[h]
        /\ g.created < h.created => rank[g] < rank[h] }

\* The shared_consumption_records one call with key k writes for its draws, with
\* the clock reading it took as their timestamp.
DrawRows(k, draw, now) ==
  { [key |-> k, grant |-> g.id, amount |-> draw[g], at |-> now] :
      g \in { h \in DOMAIN draw : draw[h] > 0 } }

DrawSource(s, draw) == { h \in DOMAIN draw : h.source = s }

\* What those grants in `among` that `rank` puts before g have contributed.
DrawnBefore(among, draw, rank, g) ==
  TotalOf([h \in { h \in among : rank[h] < rank[g] } |-> draw[h]])

\* Slip: a grant's amount is taken as a ceiling for each call.
GreedyPerCall(draw, rank, shortfall, now) ==
  \A g \in DOMAIN draw :
    draw[g] = Clamp(Least(g.amount,
                    Least(Available(g.source, now) - DrawnBefore(DrawSource(g.source, draw), draw, rank, g),
                          shortfall - DrawnBefore(DOMAIN draw, draw, rank, g))))

\* Slip: the loop stops at the first grant that has nothing to give.
GreedyUntilEmpty(draw, rank, shortfall, now) ==
  \A g \in DOMAIN draw :
    draw[g] = IF \E h \in DOMAIN draw : rank[h] < rank[g] /\ draw[h] = 0 THEN 0
      ELSE Clamp(Least(g.amount - LifetimeDrawn(g),
                 Least(Available(g.source, now) - DrawnBefore(DrawSource(g.source, draw), draw, rank, g),
                       shortfall - DrawnBefore(DOMAIN draw, draw, rank, g))))

\* The draw loop as an equation: what each grant gives is limited by its own
\* lifetime ceiling, by what its source has left of its guaranteed units after
\* this call's earlier draws, and by the shortfall still open.
GreedyDraw(draw, rank, shortfall, now) ==
  \A g \in DOMAIN draw :
    draw[g] = Clamp(Least(g.amount - LifetimeDrawn(g),
                    Least(Available(g.source, now) - DrawnBefore(DrawSource(g.source, draw), draw, rank, g),
                          shortfall - DrawnBefore(DOMAIN draw, draw, rank, g))))

\* The sources the loop summarises before the shortfall is covered.
Visited(draw, rank, shortfall) ==
  { g.source : g \in { h \in DOMAIN draw : DrawnBefore(DOMAIN draw, draw, rank, h) < shortfall } }

-----------------------------------------------------------------------------
(* create_pool: members, allocations and windows in one transaction.       *)
Init ==
  /\ clock = 0
  /\ usage = [m \in Members |-> 0]
  /\ requests = {}
  /\ grants = {}
  /\ records = {}
  /\ shared = {}

Tick ==
  /\ clock < MaxClock
  /\ clock' = clock + 1
  /\ UNCHANGED <<usage, requests, grants, records, shared>>

\* Slip: a member may ask itself.
RequestCapacityOfAnyone(requester, target, amount, type) ==
  /\ CanAdd(requests)
  /\ requests' = requests \cup
       { [id |-> FreshId(requests), requester |-> requester, target |-> target,
          amount |-> amount, type |-> type, status |-> "PENDING"] }
  /\ UNCHANGED <<clock, usage, grants, records, shared>>

RequestCapacity(requester, target, amount, type) ==
  /\ requester # target
  /\ CanAdd(requests)
  /\ requests' = requests \cup
       { [id |-> FreshId(requests), requester |-> requester, target |-> target,
          amount |-> amount, type |-> type, status |-> "PENDING"] }
  /\ UNCHANGED <<clock, usage, grants, records, shared>>

SetStatus(table, row, status) ==
  (table \ {row}) \cup { [row EXCEPT !.status = status] }

\* Slip: an approved request can be approved again.
PendingUnlessRejected(r) == r.status # "REJECTED"

Pending(r) == r.status = "PENDING"

\* What the target may still promise away under grants of the same type.
Uncommitted(m, type, now) == Base[m] - Total(Sent(m, type, now))

ApproveRequest(r, actor, now) ==
  /\ Pending(r)
  /\ actor = r.target
  /\ Uncommitted(r.target, r.type, now) >= r.amount
  /\ CanAdd(grants)
  /\ requests' = SetStatus(requests, r, "APPROVED")
  /\ grants' = ExpireFor({r.target}, now) \cup
       { [id |-> FreshId(grants), source |-> r.target, recipient |-> r.requester,
          amount |-> r.amount, type |-> r.type, status |-> "ACTIVE",
          created |-> now, expires |-> ResetAt[r.target]] }
  /\ UNCHANGED <<clock, usage, records, shared>>

RejectRequest(r, actor) ==
  /\ Pending(r)
  /\ actor = r.target
  /\ requests' = SetStatus(requests, r, "REJECTED")
  /\ UNCHANGED <<clock, usage, grants, records, shared>>

\* Slip: a grant that has already ended is revoked again.
RevokeEnded(g, actor) ==
  /\ actor = g.source
  /\ grants' = SetStatus(grants, g, "REVOKED")
  /\ UNCHANGED <<clock, usage, requests, records, shared>>

\* Slip: the status of a refused request is stored in the grant.
RevokeAsRejected(g, actor) ==
  /\ g.status = "ACTIVE"
  /\ actor = g.source
  /\ grants' = SetStatus(grants, g, "REJECTED")
  /\ UNCHANGED <<clock, usage, requests, records, shared>>

\* Only the stored status is checked: a grant past its expiry that no call has
\* summarised since can still be revoked.
RevokeGrant(g, actor) ==
  /\ g.status = "ACTIVE"
  /\ actor = g.source
  /\ grants' = SetStatus(grants, g, "REVOKED")
  /\ UNCHANGED <<clock, usage, requests, records, shared>>

\* Slip: the lookup of the idempotency key is left out.
RecordedNever(k) == FALSE

Recorded(k) == \E r \in records : r.key = k

OwnPortion(m, amount, now) == Least(amount, Available(m, now))

\* The grants the draw loop goes over; none when there is no shortfall.
Held(m, shortfall, now) == IF shortfall > 0 THEN Received(m, "SHARED", now) ELSE {}

DrawnFrom(s, draw) == TotalOf([g \in DrawSource(s, draw) |-> draw[g]])

\* Slip: the borrower pays for what its lenders pay for.
ChargedTwice(m, own, draw) ==
  [s \in Members |-> IF s = m THEN usage[m] + own + TotalOf(draw)
                              ELSE usage[s] + DrawnFrom(s, draw)]

\* The windows once the call has stored what it updated.
Charged(m, own, draw) ==
  [s \in Members |-> IF s = m THEN usage[m] + own ELSE usage[s] + DrawnFrom(s, draw)]

\* consume() of a new key that is admitted: the member's own guaranteed units
\* first, then the shortfall from the SHARED grants it holds.
Consume(m, amount, k, now) ==
  LET own       == OwnPortion(m, amount, now)
      shortfall == amount - own
      held      == Held(m, shortfall, now)
  IN  /\ ~Recorded(k)
      /\ \E rank \in DrawOrders(held), draw \in [held -> 0..shortfall] :
           /\ GreedyDraw(draw, rank, shortfall, now)
           /\ TotalOf(draw) = shortfall
           /\ usage' = Charged(m, own, draw)
           /\ shared' = shared \cup DrawRows(k, draw, now)
           /\ grants' = ExpireFor({m} \cup Visited(draw, rank, shortfall), now)
      /\ records' = records \cup {[key |-> k, member |-> m, amount |-> amount]}
      /\ UNCHANGED <<clock, requests>>

\* consume() with a key already recorded for the same member and amount: the
\* stored result is returned and the member's summary recomputed.  With any
\* other member or amount it is a conflict, which rolls back.
ConsumeReplay(m, amount, k, now) ==
  /\ [key |-> k, member |-> m, amount |-> amount] \in records
  /\ grants' = ExpireFor({m}, now)
  /\ UNCHANGED <<clock, usage, requests, records, shared>>

\* get_effective_capacity() and list_active_grants(): reads that store expiries.
Summarise(m, now) ==
  /\ grants' = ExpireFor({m}, now)
  /\ UNCHANGED <<clock, usage, requests, records, shared>>

Next ==
  \/ Tick
  \/ \E m, target \in Members, a \in Amounts, type \in Types :
       RequestCapacity(m, target, a, type)
  \/ \E r \in requests, actor \in Members :
       \/ \E now \in CallTimes : ApproveRequest(r, actor, now)
       \/ RejectRequest(r, actor)
  \/ \E g \in grants, actor \in Members : RevokeGrant(g, actor)
  \/ \E m \in Members, a \in Amounts, k \in Keys, now \in CallTimes :
       Consume(m, a, k, now) \/ ConsumeReplay(m, a, k, now)
  \/ \E m \in Members, now \in CallTimes : Summarise(m, now)

Spec == Init /\ [][Next]_vars
-----------------------------------------------------------------------------
(* Correctness.                                                            *)

\* A member's stored usage is exactly what the audit trail says: what it
\* reported itself, less what others lent for that, plus what it lent.
LedgerBalance ==
  \A m \in Members :
    LET mine     == { r \in records : r.member = m }
        borrowed == { s \in shared : \E r \in mine : r.key = s.key }
        lent     == { s \in shared : \E g \in grants : g.id = s.grant /\ g.source = m }
    IN  usage[m] = Total(mine) - Total(borrowed) + Total(lent)

\* A member's guaranteed units are never negative, whatever clock reading
\* (within LockWait) the call that computes them holds.
GuaranteedNonNegative ==
  \A m \in Members, now \in CallTimes : Guaranteed(m, now) >= 0

\* What a member has given away under SOLID grants that are still usable never
\* exceeds its allocation, nor does what it offers under SHARED grants, for any
\* clock reading a call may hold.
OffersWithinBase ==
  \A m \in Members, type \in Types, now \in CallTimes : Total(Sent(m, type, now)) =< Base[m]

\* SOLID grants move guaranteed units around the pool and create none.
GuaranteeConserved ==
  \A now \in CallTimes :
    TotalOf([m \in Members |-> Guaranteed(m, now)]) = TotalOf(Base)

\* A SHARED grant's amount is a ceiling for all calls that ever draw on it.
LifetimeCeiling == \A g \in grants : LifetimeDrawn(g) =< g.amount

\* A member is never charged beyond its allocation and the SOLID units it was
\* ever granted, by its own calls and its borrowers' together.
UsageWithinEntitlement ==
  \A m \in Members :
    usage[m] =< Base[m] + Total({ g \in grants : g.recipient = m /\ g.type = "SOLID" })

\* Approvals and grants match one to one on their terms: no request is
\* approved into two grants, and no grant appears without an approval.
GrantsMatchApprovals ==
  \A src, rcp \in Members, a \in Amounts, type \in Types :
    Cardinality({ r \in requests : r.status = "APPROVED" /\ r.target = src
                    /\ r.requester = rcp /\ r.amount = a /\ r.type = type })
    = Cardinality({ g \in grants : g.source = src /\ g.recipient = rcp
                    /\ g.amount = a /\ g.type = type })

\* A decided request and an ended grant stay as they are, and no row is lost.
DecisionsFinal ==
  [][ /\ \A r \in requests : \E q \in requests' :
           q.id = r.id /\ (r.status # "PENDING" => q = r)
      /\ \A g \in grants : \E h \in grants' :
           h.id = g.id /\ (g.status # "ACTIVE" => h = g) ]_vars

\* Units are drawn only on a grant that is stored as ACTIVE when the call takes
\* effect, whatever has ended it since the call was made, and that expires after
\* the reading which the call took and which its draws are stamped with.
OnlyLiveGrantsPay ==
  [][ \A s \in shared' \ shared : \E g \in grants :
        g.id = s.grant /\ g.status = "ACTIVE" /\ g.expires > s.at ]_vars

\* A charge leaves no balance it raises above that member's guaranteed units,
\* and reaches a lender only after the borrower's own units are used up.
OwnerPriority ==
  [][ \A r \in records' \ records : \E now \in CallTimes :
        /\ \A s \in Members : usage'[s] > usage[s] => usage'[s] =< Guaranteed(s, now)
        /\ (\E s \in Members \ {r.member} : usage'[s] > usage[s])
             => usage'[r.member] >= Guaranteed(r.member, now) ]_vars

\* What a member's lenders could still give it, taken source by source.
Lendable(m, now) ==
  TotalOf([s \in Members |->
    LET from == { g \in Received(m, "SHARED", now) : g.source = s }
    IN  Least(Available(s, now), TotalOf([g \in from |-> g.amount - LifetimeDrawn(g)]))])

\* consume() refuses a report only when the member's own units and everything
\* its lenders could give fall short of it: taking the grants one by one, in
\* any order, never strands units that another order would have used.
NoNeedlessRefusal ==
  \A m \in Members, amount \in Amounts, now \in CallTimes :
    LET shortfall == amount - OwnPortion(m, amount, now)
        held      == Held(m, shortfall, now)
    IN  shortfall =< Lendable(m, now) =>
          \A rank \in DrawOrders(held) : \E draw \in [held -> 0..shortfall] :
            GreedyDraw(draw, rank, shortfall, now) /\ TotalOf(draw) = shortfall

\* The engine implements the promise made to the pool.
Promise == INSTANCE QuotaPromise WITH
  spent    <- usage,
  receipts <- records,
  consents <- { <<g.source, g.recipient>> : g \in grants }

PromiseSpec == Promise!Spec

-----------------------------------------------------------------------------
(* What the invariants above rest on.  A call may hold a clock reading that *)
(* is older than an expiry another call has already acted on.  The grants   *)
(* stored as ACTIVE, whatever their expiry, must therefore fit the source's *)
(* allocation: approve_request() may free what has expired only because the *)
(* same transaction stores those grants as EXPIRED.                         *)

Committed(m, type) ==
  { g \in grants : g.source = m /\ g.type = type /\ g.status = "ACTIVE" }

TablesFinite == IsFiniteSet(requests) /\ IsFiniteSet(grants) /\ IsFiniteSet(records) /\ IsFiniteSet(shared)

GrantIdsUnique == \A g, h \in grants : g.id = h.id => g = h

\* The foreign key of shared_consumption_records.
DrawsOnGrants == \A s \in shared : \E g \in grants : g.id = s.grant

CommittedWithinBase ==
  \A m \in Members, type \in Types : Total(Committed(m, type)) =< Base[m]

\* The inductive invariant: what is stored as ACTIVE stays within the source's
\* allocation, and no SHARED grant has given more than its amount.
LedgerInv ==
  /\ TypeOK
  /\ TablesFinite
  /\ GrantIdsUnique
  /\ DrawsOnGrants
  /\ CommittedWithinBase
  /\ LifetimeCeiling

\* UNIQUE and FOREIGN KEY constraints that the calls keep by themselves, and
\* request_capacity()'s check that nobody asks itself.
RequestIdsUnique == \A r, q \in requests : r.id = q.id => r = q

KeysUnique == \A r, q \in records : r.key = q.key => r = q

DrawsRecorded == \A s \in shared : \E r \in records : r.key = s.key

NobodyLendsToItself ==
  /\ \A r \in requests : r.requester # r.target
  /\ \A g \in grants : g.source # g.recipient

\* What ties the windows and the grants to the records they come from.
AuditInv ==
  /\ LedgerInv
  /\ RequestIdsUnique
  /\ KeysUnique
  /\ DrawsRecorded
  /\ NobodyLendsToItself
  /\ LedgerBalance
  /\ UsageWithinEntitlement
  /\ GrantsMatchApprovals

-----------------------------------------------------------------------------
(* What the documentation says of the engine and the code does not do.     *)

\* docs/architecture.md: the consume-time check "is what actually prevents
\* overselling in every case", and a SOLID grant of units its source has
\* already used has "no other side effect" than leaving the source with zero
\* remaining.  Read as: the pool is never charged more than it was allotted.
NeverOversold == TotalOf(usage) =< TotalOf(Base)
=============================================================================
