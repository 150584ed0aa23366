------------------------- MODULE QuotaLedger_proofs -------------------------
(***************************************************************************)
(* Theorems about QuotaLedger for every pool, allocation, set of amounts   *)
(* and lock wait.                                                          *)
(*                                                                         *)
(* The first part rests on the inductive invariant LedgerInv: the types,   *)
(* the ceilings, final decisions.  The second adds AuditInv, the books:    *)
(* every window is what the audit trail says, nobody is charged beyond its *)
(* entitlement, grants match approvals, and the engine implements the      *)
(* promise made to the pool.  One lemma per action shows that the action   *)
(* preserves each.                                                         *)
(***************************************************************************)
EXTENDS QuotaLedger, TotalsTheorems

-----------------------------------------------------------------------------
(* Facts about a state.                                                    *)

\* Any part of the grants table can be summed.
LEMMA GrantsSummable ==
  ASSUME TypeOK, TablesFinite, NEW part \in SUBSET grants
  PROVE  Summable(part)
<1>1. Summable(grants)
  BY AmountsAssumption DEF TypeOK, TablesFinite, Grants, Summable
<1>2. QED
  BY <1>1, TotalSubset

\* Any part of the shared-consumption table can be summed.
LEMMA SharedSummable ==
  ASSUME TypeOK, TablesFinite, NEW part \in SUBSET shared
  PROVE  Summable(part)
<1>1. Summable(shared)
  BY DEF TypeOK, TablesFinite, SharedRecords, Summable
<1>2. QED
  BY <1>1, TotalSubset

\* Guaranteed units are an integer and available units a natural number.
LEMMA BalanceType ==
  ASSUME TypeOK, TablesFinite, NEW m \in Members, NEW now
  PROVE  /\ Guaranteed(m, now) \in Int
         /\ Available(m, now) \in Nat
<1>1. Total(Sent(m, "SOLID", now)) \in Nat
  <2>1. Sent(m, "SOLID", now) \in SUBSET grants
    BY DEF Sent
  <2>2. QED
    BY <2>1, GrantsSummable, TotalType
<1>2. Total(Received(m, "SOLID", now)) \in Nat
  <2>1. Received(m, "SOLID", now) \in SUBSET grants
    BY DEF Received
  <2>2. QED
    BY <2>1, GrantsSummable, TotalType
<1>3. Guaranteed(m, now) \in Int
  BY <1>1, <1>2, BaseAssumption DEF Guaranteed
<1>4. usage[m] \in Nat
  BY DEF TypeOK
<1>5. QED
  BY <1>3, <1>4, ClampType DEF Available

\* What has ever been drawn on a grant is a natural number.
LEMMA LifetimeDrawnType ==
  ASSUME TypeOK, TablesFinite, NEW g
  PROVE  LifetimeDrawn(g) \in Nat
<1>1. { s \in shared : s.grant = g.id } \in SUBSET shared
  OBVIOUS
<1>2. QED
  BY <1>1, SharedSummable, TotalType DEF LifetimeDrawn

\* A call's clock reading is a time.
LEMMA CallTimesType ==
  ASSUME TypeOK, NEW now \in CallTimes
  PROVE  now \in Nat
BY DEF TypeOK, CallTimes

\* The new rows' ids are new.
LEMMA FreshIdIsFresh ==
  ASSUME NEW table, \A row \in table : row.id \in Ids, CanAdd(table)
  PROVE  /\ FreshId(table) \in Ids
         /\ \A row \in table : row.id # FreshId(table)
<1>1. \E i \in Ids : i \notin { row.id : row \in table }
  BY DEF CanAdd
<1>2. QED
  BY <1>1 DEF FreshId

-----------------------------------------------------------------------------
(* Lazy expiry.                                                            *)

\* `after` holds the rows of the grants table, some of them ended since.
RowsKept(after) ==
  /\ after \subseteq Grants
  /\ IsFiniteSet(after)
  /\ \A g, h \in after : g.id = h.id => g = h
  /\ \A h \in after : \E g \in grants :
       /\ h.id = g.id /\ h.amount = g.amount
       /\ h.status = "ACTIVE" => h = g
  /\ \A g \in grants : \E h \in after :
       /\ h.id = g.id
       /\ g.status # "ACTIVE" => h = g

\* Storing stale grants as EXPIRED keeps every row but for its status, and
\* makes no grant ACTIVE.
LEMMA ExpireForKeepsRows ==
  ASSUME TypeOK, TablesFinite, GrantIdsUnique, NEW members, NEW now,
         NEW after, after = ExpireFor(members, now)
  PROVE  RowsKept(after)
<1> DEFINE Expiring(g) == Stale(g, now) /\ (g.source \in members \/ g.recipient \in members)
           Step == [g \in grants |-> IF Expiring(g) THEN [g EXCEPT !.status = "EXPIRED"] ELSE g]
<1>1. after = { Step[g] : g \in grants }
  BY DEF ExpireFor
<1>2. \A g \in grants : /\ Step[g] \in Grants
                        /\ Step[g].id = g.id
                        /\ Step[g].amount = g.amount
                        /\ Step[g].status = "ACTIVE" => Step[g] = g
                        /\ g.status # "ACTIVE" => Step[g] = g
  BY DEF TypeOK, Grants, Stale
<1>3. Step \in Surjection(grants, after)
  BY <1>1 DEF Surjection
<1>4. IsFiniteSet(after)
  BY <1>3, FS_Surjection DEF TablesFinite
<1> HIDE DEF Step
<1>5. \A g, h \in after : g.id = h.id => g = h
  BY <1>1, <1>2 DEF GrantIdsUnique
<1>6. QED
  BY <1>1, <1>2, <1>4, <1>5 DEF RowsKept

\* A step after which no more is committed than before keeps the allocations
\* respected.
LEMMA FewerCommittedPreserve ==
  ASSUME LedgerInv,
         \A m \in Members, type \in Types : Committed(m, type)' \subseteq Committed(m, type)
  PROVE  CommittedWithinBase'
<1> SUFFICES ASSUME NEW m \in Members, NEW type \in Types
             PROVE  Total(Committed(m, type)') =< Base[m]
  BY DEF CommittedWithinBase
<1>1. Committed(m, type) \in SUBSET grants
  BY DEF Committed
<1>2. Summable(Committed(m, type)) /\ Total(Committed(m, type)) \in Nat
  BY <1>1, GrantsSummable, TotalType DEF LedgerInv
<1>3. /\ Total(Committed(m, type)') =< Total(Committed(m, type))
      /\ Total(Committed(m, type)') \in Nat
  BY <1>2, TotalSubset, TotalType
<1>4. Total(Committed(m, type)) =< Base[m]
  BY DEF LedgerInv, CommittedWithinBase
<1>5. QED
  BY <1>2, <1>3, <1>4, BaseAssumption

\* A step that stores stale grants as EXPIRED and adds no grant keeps the
\* grants table in order.
LEMMA ExpireForPreserves ==
  ASSUME LedgerInv, NEW members, NEW now, grants' = ExpireFor(members, now)
  PROVE  /\ grants' \subseteq Grants
         /\ IsFiniteSet(grants')
         /\ GrantIdsUnique'
         /\ CommittedWithinBase'
         /\ \A h \in grants' : \E g \in grants : h.id = g.id /\ h.amount = g.amount
         /\ \A g \in grants : \E h \in grants' : h.id = g.id
<1>1. RowsKept(grants')
  BY ExpireForKeepsRows DEF LedgerInv
<1>2. CommittedWithinBase'
  <2>1. \A m \in Members, type \in Types : Committed(m, type)' \subseteq Committed(m, type)
    BY <1>1 DEF Committed, RowsKept
  <2>2. QED
    BY <2>1, FewerCommittedPreserve
<1>3. QED
  BY <1>1, <1>2 DEF GrantIdsUnique, RowsKept

\* Grants that keep their ids and amounts, and draws that stay as they are,
\* keep the lifetime ceiling and the foreign key.
LEMMA SameDrawsPreserve ==
  ASSUME LedgerInv, shared' = shared,
         \A h \in grants' : \E g \in grants : h.id = g.id /\ h.amount = g.amount,
         \A g \in grants : \E h \in grants' : h.id = g.id
  PROVE  LifetimeCeiling' /\ DrawsOnGrants'
<1>1. DrawsOnGrants'
  BY DEF LedgerInv, DrawsOnGrants
<1>2. ASSUME NEW h \in grants'
      PROVE  LifetimeDrawn(h)' =< h.amount
  <2>1. PICK g \in grants : h.id = g.id /\ h.amount = g.amount
    OBVIOUS
  <2>2. LifetimeDrawn(h)' = LifetimeDrawn(g)
    BY <2>1 DEF LifetimeDrawn
  <2>3. QED
    BY <2>1, <2>2 DEF LedgerInv, LifetimeCeiling
<1>3. QED
  BY <1>1, <1>2 DEF LifetimeCeiling

-----------------------------------------------------------------------------
(* One lemma per action.                                                   *)

\* A new pool has empty tables.
LEMMA InitEstablishesInv == Init => LedgerInv
<1> SUFFICES ASSUME Init PROVE LedgerInv
  OBVIOUS
<1>1. TypeOK
  BY DEF Init, TypeOK
<1>2. TablesFinite
  BY FS_EmptySet DEF Init, TablesFinite
<1>3. GrantIdsUnique /\ DrawsOnGrants /\ LifetimeCeiling
  BY DEF Init, GrantIdsUnique, DrawsOnGrants, LifetimeCeiling
<1>4. CommittedWithinBase
  <2>1. \A m \in Members, type \in Types : Committed(m, type) = {}
    BY DEF Init, Committed
  <2>2. QED
    BY <2>1, TotalEmpty, BaseAssumption DEF CommittedWithinBase
<1>5. QED
  BY <1>1, <1>2, <1>3, <1>4 DEF LedgerInv

\* Steps that touch none of the grants, draws, windows and records.
LEMMA OtherTablesPreserve ==
  ASSUME LedgerInv, UNCHANGED <<usage, grants, records, shared>>,
         clock' \in Nat, requests' \subseteq Requests, IsFiniteSet(requests')
  PROVE  LedgerInv'
BY DEF LedgerInv, TypeOK, TablesFinite, GrantIdsUnique, DrawsOnGrants,
       CommittedWithinBase, Committed, LifetimeCeiling, LifetimeDrawn

\* Time passes without a change to any table.
LEMMA TickPreserves == LedgerInv /\ Tick => LedgerInv'
<1> SUFFICES ASSUME LedgerInv, Tick PROVE LedgerInv'
  OBVIOUS
<1>1. clock' \in Nat
  BY DEF LedgerInv, TypeOK, Tick
<1>2. QED
  BY <1>1, OtherTablesPreserve DEF LedgerInv, TypeOK, TablesFinite, Tick

\* A request is a new row of its own table.
LEMMA RequestCapacityPreserves ==
  ASSUME LedgerInv, NEW m \in Members, NEW target \in Members, NEW a \in Amounts,
         NEW type \in Types, RequestCapacity(m, target, a, type)
  PROVE  LedgerInv'
<1>1. \A row \in requests : row.id \in Ids
  BY DEF LedgerInv, TypeOK, Requests
<1>2. FreshId(requests) \in Ids
  BY <1>1, FreshIdIsFresh DEF RequestCapacity
<1>3. requests' \subseteq Requests
  BY <1>2 DEF RequestCapacity, Requests, LedgerInv, TypeOK
<1>4. IsFiniteSet(requests')
  BY FS_AddElement DEF RequestCapacity, LedgerInv, TablesFinite
<1>5. QED
  BY <1>3, <1>4, OtherTablesPreserve DEF RequestCapacity, LedgerInv, TypeOK

\* Changing the status of one request.
LEMMA SetRequestStatusType ==
  ASSUME LedgerInv, NEW r \in requests, NEW status \in {"PENDING", "APPROVED", "REJECTED"}
  PROVE  /\ SetStatus(requests, r, status) \subseteq Requests
         /\ IsFiniteSet(SetStatus(requests, r, status))
<1>1. [r EXCEPT !.status = status] \in Requests
  BY DEF LedgerInv, TypeOK, Requests
<1>2. IsFiniteSet(requests \ {r})
  BY FS_RemoveElement DEF LedgerInv, TablesFinite
<1>3. QED
  BY <1>1, <1>2, FS_AddElement DEF SetStatus, LedgerInv, TypeOK

\* Rejecting changes one request's status.
LEMMA RejectRequestPreserves ==
  ASSUME LedgerInv, NEW r \in requests, NEW actor, RejectRequest(r, actor)
  PROVE  LedgerInv'
<1>1. requests' \subseteq Requests /\ IsFiniteSet(requests')
  BY SetRequestStatusType DEF RejectRequest
<1>2. QED
  BY <1>1, OtherTablesPreserve DEF RejectRequest, LedgerInv, TypeOK

\* Revoking ends a grant and makes none.
LEMMA RevokeGrantPreserves ==
  ASSUME LedgerInv, NEW g \in grants, NEW actor, RevokeGrant(g, actor)
  PROVE  LedgerInv'
<1> DEFINE ended == [g EXCEPT !.status = "REVOKED"]
<1>1. /\ ended \in Grants
      /\ ended.id = g.id /\ ended.amount = g.amount /\ ended.status = "REVOKED"
  BY DEF LedgerInv, TypeOK, Grants
<1>2. grants' = (grants \ {g}) \cup {ended}
  BY DEF RevokeGrant, SetStatus
<1> HIDE DEF ended
<1>3. grants' \subseteq Grants
  BY <1>1, <1>2 DEF LedgerInv, TypeOK
<1>4. IsFiniteSet(grants')
  BY <1>2, FS_RemoveElement, FS_AddElement DEF LedgerInv, TablesFinite
<1>5. GrantIdsUnique'
  BY <1>1, <1>2 DEF LedgerInv, GrantIdsUnique
<1>6. CommittedWithinBase'
  <2>1. \A m \in Members, type \in Types : Committed(m, type)' \subseteq Committed(m, type)
    BY <1>1, <1>2 DEF Committed
  <2>2. QED
    BY <2>1, FewerCommittedPreserve
<1>7. LifetimeCeiling' /\ DrawsOnGrants'
  <2>1. \A h \in grants' : \E o \in grants : h.id = o.id /\ h.amount = o.amount
    BY <1>1, <1>2
  <2>2. \A o \in grants : \E h \in grants' : h.id = o.id
    BY <1>1, <1>2
  <2>3. QED
    BY <2>1, <2>2, SameDrawsPreserve DEF RevokeGrant
<1>8. QED
  BY <1>3, <1>4, <1>5, <1>6, <1>7 DEF RevokeGrant, LedgerInv, TypeOK, TablesFinite

\* Approval frees what has expired by storing it as EXPIRED, checks the amount
\* against what is left, and adds one grant under an unused id.
LEMMA ApproveRequestPreserves ==
  ASSUME LedgerInv, NEW r \in requests, NEW actor, NEW now \in CallTimes,
         ApproveRequest(r, actor, now)
  PROVE  LedgerInv'
<1> DEFINE kept  == ExpireFor({r.target}, now)
           grant == [id |-> FreshId(grants), source |-> r.target, recipient |-> r.requester,
                     amount |-> r.amount, type |-> r.type, status |-> "ACTIVE",
                     created |-> now, expires |-> ResetAt[r.target]]
<1>1. /\ r.target \in Members /\ r.requester \in Members
      /\ r.amount \in Amounts /\ r.amount \in Nat /\ r.type \in Types
  BY AmountsAssumption DEF LedgerInv, TypeOK, Requests
<1>2. /\ FreshId(grants) \in Ids
      /\ \A g \in grants : g.id # FreshId(grants)
  BY FreshIdIsFresh DEF LedgerInv, TypeOK, Grants, ApproveRequest
<1>3. /\ grant \in Grants
      /\ grant.id = FreshId(grants) /\ grant.amount = r.amount
      /\ grant.source = r.target /\ grant.type = r.type
  BY <1>1, <1>2, CallTimesType, ResetAssumption DEF Grants, LedgerInv
<1>4. kept = ExpireFor({r.target}, now)
  OBVIOUS
<1>5. grants' = kept \cup {grant}
  BY DEF ApproveRequest
<1>6. \A h \in kept : h.status = "ACTIVE" /\ h.source = r.target => Usable(h, now)
  BY CallTimesType DEF LedgerInv, ExpireFor, Stale, Usable, TypeOK, Grants
<1> HIDE DEF kept, grant
<1>7. RowsKept(kept)
  BY <1>4, ExpireForKeepsRows DEF LedgerInv
<1>7a. requests' \subseteq Requests /\ IsFiniteSet(requests')
  BY SetRequestStatusType DEF ApproveRequest
<1>8. GrantIdsUnique'
  BY <1>2, <1>3, <1>7, <1>5 DEF GrantIdsUnique, RowsKept
<1>9. CommittedWithinBase'
  <2> SUFFICES ASSUME NEW m \in Members, NEW type \in Types
               PROVE  Total(Committed(m, type)') =< Base[m]
    BY DEF CommittedWithinBase
  <2>1. CASE m = r.target /\ type = r.type
    <3>1. Sent(m, type, now) \in SUBSET grants
      BY DEF Sent
    <3>2. Summable(Sent(m, type, now)) /\ Total(Sent(m, type, now)) \in Nat
      BY <3>1, GrantsSummable, TotalType DEF LedgerInv
    <3>3. grant \notin Sent(m, type, now)
      BY <1>2, <1>3, <3>1
    <3>4. /\ Summable(Sent(m, type, now) \cup {grant})
          /\ Total(Sent(m, type, now) \cup {grant}) = Total(Sent(m, type, now)) + r.amount
      BY <1>1, <1>3, <3>2, <3>3, TotalAdd
    <3>5. Committed(m, type)' \in SUBSET (Sent(m, type, now) \cup {grant})
      BY <1>7, <1>5, <1>6, <2>1 DEF Committed, Sent, RowsKept
    <3>6. /\ Total(Committed(m, type)') =< Total(Sent(m, type, now) \cup {grant})
          /\ Total(Committed(m, type)') \in Nat
      BY <3>4, <3>5, TotalSubset, TotalType
    <3>7. Base[m] - Total(Sent(m, type, now)) >= r.amount
      BY <2>1 DEF ApproveRequest, Uncommitted
    <3>8. QED
      BY <1>1, <3>2, <3>4, <3>6, <3>7, BaseAssumption
  <2>2. CASE ~(m = r.target /\ type = r.type)
    <3>1. Committed(m, type) \in SUBSET grants
      BY DEF Committed
    <3>2. Summable(Committed(m, type)) /\ Total(Committed(m, type)) \in Nat
      BY <3>1, GrantsSummable, TotalType DEF LedgerInv
    <3>3. Committed(m, type)' \in SUBSET Committed(m, type)
      BY <1>3, <1>7, <1>5, <2>2 DEF Committed, RowsKept
    <3>4. /\ Total(Committed(m, type)') =< Total(Committed(m, type))
          /\ Total(Committed(m, type)') \in Nat
      BY <3>2, <3>3, TotalSubset, TotalType
    <3>5. Total(Committed(m, type)) =< Base[m]
      BY DEF LedgerInv, CommittedWithinBase
    <3>6. QED
      BY <3>2, <3>4, <3>5, BaseAssumption
  <2>3. QED
    BY <2>1, <2>2
<1>10. shared' = shared
  BY DEF ApproveRequest
<1>11. DrawsOnGrants'
  BY <1>7, <1>5, <1>10 DEF LedgerInv, DrawsOnGrants, RowsKept
<1>12. LifetimeCeiling'
  <2> SUFFICES ASSUME NEW h \in grants'
               PROVE  LifetimeDrawn(h)' =< h.amount
    BY DEF LifetimeCeiling
  <2>1. CASE h = grant
    <3>1. { s \in shared : s.grant = h.id } = {}
      BY <1>2, <1>3, <2>1 DEF LedgerInv, DrawsOnGrants
    <3>2. LifetimeDrawn(h)' = 0
      BY <1>10, <3>1, TotalEmpty DEF LifetimeDrawn
    <3>3. QED
      BY <1>1, <1>3, <2>1, <3>2
  <2>2. CASE h \in kept
    <3>1. PICK g \in grants : h.id = g.id /\ h.amount = g.amount
      BY <1>7, <2>2 DEF RowsKept
    <3>2. LifetimeDrawn(h)' = LifetimeDrawn(g)
      BY <1>10, <3>1 DEF LifetimeDrawn
    <3>3. QED
      BY <3>1, <3>2 DEF LedgerInv, LifetimeCeiling
  <2>3. QED
    BY <1>5, <2>1, <2>2
<1>13. TypeOK'
  BY <1>3, <1>5, <1>7, <1>7a DEF ApproveRequest, LedgerInv, TypeOK, RowsKept
<1>14. TablesFinite'
  <2>1. IsFiniteSet(grants')
    BY <1>7, <1>5, FS_AddElement DEF RowsKept
  <2>2. QED
    BY <1>7a, <2>1 DEF ApproveRequest, LedgerInv, TablesFinite
<1>15. QED
  BY <1>8, <1>9, <1>11, <1>12, <1>13, <1>14 DEF LedgerInv

\* Calls that only store expiries: effective-capacity reads and replays.
LEMMA ExpiryOnlyPreserves ==
  ASSUME LedgerInv, NEW members, NEW now, grants' = ExpireFor(members, now),
         UNCHANGED <<clock, usage, requests, records, shared>>
  PROVE  LedgerInv'
<1>1. /\ grants' \subseteq Grants
      /\ IsFiniteSet(grants')
      /\ GrantIdsUnique'
      /\ CommittedWithinBase'
      /\ \A h \in grants' : \E g \in grants : h.id = g.id /\ h.amount = g.amount
      /\ \A g \in grants : \E h \in grants' : h.id = g.id
  BY ExpireForPreserves
<1>2. LifetimeCeiling' /\ DrawsOnGrants'
  BY <1>1, SameDrawsPreserve
<1>3. QED
  BY <1>1, <1>2 DEF LedgerInv, TypeOK, TablesFinite

-----------------------------------------------------------------------------
(* Consumption.                                                            *)

\* What a call may draw from the grants in `held`.
DrawOn(held, draw) ==
  /\ held \in SUBSET grants
  /\ DOMAIN draw = held
  /\ \A g \in held : draw[g] \in Nat

\* Sums over part of the draws are natural numbers.
LEMMA PartialDrawType ==
  ASSUME TypeOK, TablesFinite, NEW held, NEW draw, DrawOn(held, draw),
         NEW part \in SUBSET held
  PROVE  TotalOf([g \in part |-> draw[g]]) \in Nat
<1>1. IsFiniteSet(part)
  BY FS_Subset DEF TablesFinite, DrawOn
<1>2. [g \in part |-> draw[g]] \in [part -> Nat]
  BY DEF DrawOn
<1>3. QED
  BY <1>1, <1>2, TotalOfType

\* A grant that gives anything gives no more than its lifetime ceiling leaves,
\* no more than its source has available after this call's earlier draws, and
\* no more than is still to be found.
LEMMA GreedyDrawBounds ==
  ASSUME TypeOK, TablesFinite, NEW held, NEW draw, DrawOn(held, draw), NEW rank,
         NEW shortfall \in Nat, NEW now, GreedyDraw(draw, rank, shortfall, now),
         NEW g \in held, draw[g] > 0
  PROVE  /\ draw[g] =< g.amount - LifetimeDrawn(g)
         /\ draw[g] =< Available(g.source, now) - DrawnBefore(DrawSource(g.source, draw), draw, rank, g)
         /\ draw[g] =< shortfall - DrawnBefore(held, draw, rank, g)
<1> DEFINE lender   == DrawSource(g.source, draw)
           lifetime == g.amount - LifetimeDrawn(g)
           source   == Available(g.source, now) - DrawnBefore(lender, draw, rank, g)
           open     == shortfall - DrawnBefore(held, draw, rank, g)
<1>1. g.source \in Members /\ g.amount \in Nat
  BY AmountsAssumption DEF DrawOn, TypeOK, Grants
<1>2. ASSUME NEW among \in SUBSET held
      PROVE  DrawnBefore(among, draw, rank, g) \in Nat
  <2> DEFINE part == { h \in among : rank[h] < rank[g] }
  <2>1. part \in SUBSET held
    OBVIOUS
  <2>2. TotalOf([h \in part |-> draw[h]]) \in Nat
    BY <2>1, PartialDrawType
  <2>3. QED
    BY <2>2 DEF DrawnBefore
<1>3. /\ LifetimeDrawn(g) \in Nat
      /\ Available(g.source, now) \in Nat
      /\ DrawnBefore(lender, draw, rank, g) \in Nat
      /\ DrawnBefore(held, draw, rank, g) \in Nat
  <2>1. lender \in SUBSET held
    BY DEF DrawSource, DrawOn
  <2>2. QED
    BY <1>1, <1>2, <2>1, LifetimeDrawnType, BalanceType
<1> HIDE DEF lender
<1>4. lifetime \in Int /\ source \in Int /\ open \in Int
  BY <1>1, <1>3
<1>5. draw[g] = Clamp(Least(lifetime, Least(source, open)))
  BY DEF GreedyDraw, DrawOn, lender
<1> HIDE DEF lifetime, source, open
<1>6. Least(source, open) \in Int /\ Least(source, open) =< source /\ Least(source, open) =< open
  BY <1>4, LeastType
<1>7. /\ Least(lifetime, Least(source, open)) \in Int
      /\ Least(lifetime, Least(source, open)) =< lifetime
      /\ Least(lifetime, Least(source, open)) =< Least(source, open)
  BY <1>4, <1>6, LeastType
<1>8. draw[g] = Least(lifetime, Least(source, open))
  BY <1>5, <1>7, ClampType
<1>9. draw[g] =< lifetime /\ draw[g] =< source /\ draw[g] =< open
  BY <1>4, <1>6, <1>7, <1>8
<1>10. QED
  BY <1>9 DEF lifetime, source, open, lender

\* The rows written for a call's draws: well-formed, finitely many, on grants
\* the call held, and one per grant.
LEMMA DrawRowsType ==
  ASSUME TypeOK, TablesFinite, NEW held, NEW draw, DrawOn(held, draw), NEW k \in Keys, NEW now \in Nat
  PROVE  /\ DrawRows(k, draw, now) \subseteq SharedRecords
         /\ IsFiniteSet(DrawRows(k, draw, now))
         /\ \A s \in DrawRows(k, draw, now) : \E g \in held :
              draw[g] > 0 /\ s = [key |-> k, grant |-> g.id, amount |-> draw[g], at |-> now]
<1> DEFINE giving == { h \in held : draw[h] > 0 }
           Row    == [g \in giving |-> [key |-> k, grant |-> g.id, amount |-> draw[g], at |-> now]]
<1>1. DrawRows(k, draw, now) = { Row[g] : g \in giving }
  BY DEF DrawRows, DrawOn
<1>2. \A g \in giving : Row[g] \in SharedRecords
  BY DEF SharedRecords, DrawOn, TypeOK, Grants
<1>3. IsFiniteSet(giving)
  BY FS_Subset DEF DrawOn, TablesFinite
<1>4. Row \in Surjection(giving, DrawRows(k, draw, now))
  BY <1>1 DEF Surjection
<1>5. IsFiniteSet(DrawRows(k, draw, now))
  BY <1>3, <1>4, FS_Surjection
<1>6. QED
  BY <1>1, <1>2, <1>5

\* After a call's draws no grant has given more than its amount: the call
\* adds at most one row per grant, and that row fits what the ceiling leaves.
LEMMA DrawsWithinCeiling ==
  ASSUME LedgerInv, NEW held, NEW draw, DrawOn(held, draw), NEW rank,
         NEW shortfall \in Nat, NEW now \in Nat, GreedyDraw(draw, rank, shortfall, now),
         NEW k \in Keys, shared' = shared \cup DrawRows(k, draw, now),
         \A h \in grants' : \E g \in grants : h.id = g.id /\ h.amount = g.amount
  PROVE  LifetimeCeiling'
<1> SUFFICES ASSUME NEW h \in grants'
             PROVE  LifetimeDrawn(h)' =< h.amount
  BY DEF LifetimeCeiling
<1>1. PICK g \in grants : h.id = g.id /\ h.amount = g.amount
  OBVIOUS
<1> DEFINE old == { s \in shared : s.grant = g.id }
           new == { s \in DrawRows(k, draw, now) : s.grant = g.id }
<1>2. LifetimeDrawn(h)' = Total(old \cup new)
  <2>1. { s \in shared' : s.grant = h.id } = old \cup new
    BY <1>1
  <2>2. QED
    BY <2>1 DEF LifetimeDrawn
<1>3. Summable(old) /\ Total(old) = LifetimeDrawn(g) /\ Total(old) =< g.amount
  BY SharedSummable DEF LifetimeDrawn, LedgerInv, LifetimeCeiling
<1>4. CASE new \subseteq old
  <2>1. old \cup new = old
    BY <1>4
  <2>2. QED
    BY <1>1, <1>2, <1>3, <2>1
<1>5. CASE ~(new \subseteq old)
  <2>1. PICK row \in new : row \notin old
    BY <1>5
  <2>2. /\ row.grant = g.id
        /\ g \in held /\ draw[g] > 0 /\ row.amount = draw[g]
        /\ new = {row}
    BY DrawRowsType DEF LedgerInv, GrantIdsUnique, DrawOn
  <2>3. row.amount \in Nat
    BY <2>2 DEF DrawOn
  <2>4. Total(old \cup new) = Total(old) + draw[g]
    BY <1>3, <2>1, <2>2, <2>3, TotalAdd, SMTT(20)
  <2>5. draw[g] =< g.amount - LifetimeDrawn(g)
    BY <2>2, GreedyDrawBounds DEF LedgerInv
  <2>6. g.amount \in Nat /\ LifetimeDrawn(g) \in Nat
    BY LifetimeDrawnType, AmountsAssumption DEF LedgerInv, TypeOK, Grants
  <2>7. QED
    BY <1>1, <1>2, <1>3, <2>2, <2>3, <2>4, <2>5, <2>6
<1>6. QED
  BY <1>4, <1>5

\* What a call stores in the windows are natural numbers.
LEMMA ChargedType ==
  ASSUME TypeOK, TablesFinite, NEW held, NEW draw, DrawOn(held, draw),
         NEW m \in Members, NEW own \in Nat
  PROVE  Charged(m, own, draw) \in [Members -> Nat]
<1>1. ASSUME NEW s \in Members
      PROVE  DrawnFrom(s, draw) \in Nat
  <2>1. DrawSource(s, draw) \in SUBSET held
    BY DEF DrawSource, DrawOn
  <2>2. QED
    BY <2>1, PartialDrawType DEF DrawnFrom
<1>2. \A s \in Members : usage[s] \in Nat
  BY DEF TypeOK
<1>3. QED
  BY <1>1, <1>2 DEF Charged

\* The member's own portion and the shortfall split the amount.
LEMMA OwnPortionType ==
  ASSUME TypeOK, TablesFinite, NEW m \in Members, NEW amount \in Amounts, NEW now
  PROVE  /\ OwnPortion(m, amount, now) \in Nat
         /\ amount - OwnPortion(m, amount, now) \in Nat
<1>1. amount \in Nat /\ Available(m, now) \in Nat
  BY AmountsAssumption, BalanceType
<1>2. QED
  BY <1>1 DEF OwnPortion, Least

\* An admitted report writes well-formed rows within the lifetime ceilings.
LEMMA ConsumePreserves ==
  ASSUME LedgerInv, NEW m \in Members, NEW amount \in Amounts, NEW k \in Keys,
         NEW now \in CallTimes, Consume(m, amount, k, now)
  PROVE  LedgerInv'
<1> DEFINE own       == OwnPortion(m, amount, now)
           shortfall == amount - own
           held      == Held(m, shortfall, now)
<1>1. own \in Nat /\ shortfall \in Nat
  BY OwnPortionType DEF LedgerInv
<1>2. held \in SUBSET grants
  BY DEF Held, Received
<1>3. PICK rank \in DrawOrders(held), draw \in [held -> 0..shortfall] :
        /\ GreedyDraw(draw, rank, shortfall, now)
        /\ usage' = Charged(m, own, draw)
        /\ shared' = shared \cup DrawRows(k, draw, now)
        /\ grants' = ExpireFor({m} \cup Visited(draw, rank, shortfall), now)
  BY DEF Consume
<1>0. now \in Nat
  BY CallTimesType DEF LedgerInv
<1> HIDE DEF own, shortfall, held
<1>4. DrawOn(held, draw)
  BY <1>1, <1>2, <1>3 DEF DrawOn
<1>5. usage' \in [Members -> Nat]
  BY <1>1, <1>3, <1>4, ChargedType DEF LedgerInv
<1>6. /\ grants' \subseteq Grants
      /\ IsFiniteSet(grants')
      /\ GrantIdsUnique'
      /\ CommittedWithinBase'
      /\ \A h \in grants' : \E g \in grants : h.id = g.id /\ h.amount = g.amount
      /\ \A g \in grants : \E h \in grants' : h.id = g.id
  BY <1>3, ExpireForPreserves
<1>7. /\ DrawRows(k, draw, now) \subseteq SharedRecords
      /\ IsFiniteSet(DrawRows(k, draw, now))
      /\ \A s \in DrawRows(k, draw, now) : \E g \in held :
           draw[g] > 0 /\ s = [key |-> k, grant |-> g.id, amount |-> draw[g], at |-> now]
  BY <1>0, <1>4, DrawRowsType DEF LedgerInv
<1>8. shared' \subseteq SharedRecords /\ IsFiniteSet(shared')
  BY <1>3, <1>7, FS_Union DEF LedgerInv, TypeOK, TablesFinite
<1>9. records' = records \cup {[key |-> k, member |-> m, amount |-> amount]}
  BY DEF Consume
<1>10. records' \subseteq Records /\ IsFiniteSet(records')
  <2>1. records \subseteq Records /\ IsFiniteSet(records)
    BY DEF LedgerInv, TypeOK, TablesFinite
  <2>2. [key |-> k, member |-> m, amount |-> amount] \in Records
    BY DEF Records
  <2>3. IsFiniteSet(records \cup {[key |-> k, member |-> m, amount |-> amount]})
    BY <2>1, FS_AddElement
  <2>4. QED
    BY <1>9, <2>1, <2>2, <2>3
<1>11. UNCHANGED <<clock, requests>>
  BY DEF Consume
<1>12. TypeOK' /\ TablesFinite'
  BY <1>5, <1>6, <1>8, <1>10, <1>11 DEF LedgerInv, TypeOK, TablesFinite
<1>13. DrawsOnGrants'
  <2> SUFFICES ASSUME NEW s \in shared'
               PROVE  \E h \in grants' : h.id = s.grant
    BY DEF DrawsOnGrants
  <2>1. \E g \in grants : g.id = s.grant
    BY <1>2, <1>3, <1>7 DEF LedgerInv, DrawsOnGrants
  <2>2. QED
    BY <1>6, <2>1
<1>14. LifetimeCeiling'
  BY <1>0, <1>1, <1>3, <1>4, <1>6, DrawsWithinCeiling
<1>15. QED
  BY <1>6, <1>12, <1>13, <1>14 DEF LedgerInv

-----------------------------------------------------------------------------
(* The theorems.                                                           *)

\* No call breaks the invariant.
LEMMA NextPreserves == LedgerInv /\ [Next]_vars => LedgerInv'
<1> SUFFICES ASSUME LedgerInv, [Next]_vars PROVE LedgerInv'
  OBVIOUS
<1>1. CASE Tick
  BY <1>1, TickPreserves
<1>2. ASSUME NEW m \in Members, NEW target \in Members, NEW a \in Amounts, NEW type \in Types,
             RequestCapacity(m, target, a, type)
      PROVE  LedgerInv'
  BY <1>2, RequestCapacityPreserves
<1>3. ASSUME NEW r \in requests, NEW actor \in Members, NEW now \in CallTimes,
             ApproveRequest(r, actor, now)
      PROVE  LedgerInv'
  BY <1>3, ApproveRequestPreserves
<1>4. ASSUME NEW r \in requests, NEW actor \in Members, RejectRequest(r, actor)
      PROVE  LedgerInv'
  BY <1>4, RejectRequestPreserves
<1>5. ASSUME NEW g \in grants, NEW actor \in Members, RevokeGrant(g, actor)
      PROVE  LedgerInv'
  BY <1>5, RevokeGrantPreserves
<1>6. ASSUME NEW m \in Members, NEW a \in Amounts, NEW k \in Keys, NEW now \in CallTimes,
             Consume(m, a, k, now)
      PROVE  LedgerInv'
  BY <1>6, ConsumePreserves
<1>7. ASSUME NEW m \in Members, NEW a \in Amounts, NEW k \in Keys, NEW now \in CallTimes,
             ConsumeReplay(m, a, k, now)
      PROVE  LedgerInv'
  BY <1>7, ExpiryOnlyPreserves DEF ConsumeReplay
<1>8. ASSUME NEW m \in Members, NEW now \in CallTimes, Summarise(m, now)
      PROVE  LedgerInv'
  BY <1>8, ExpiryOnlyPreserves DEF Summarise
<1>9. CASE UNCHANGED vars
  <2>1. clock' \in Nat /\ requests' \subseteq Requests /\ IsFiniteSet(requests')
    BY <1>9 DEF vars, LedgerInv, TypeOK, TablesFinite
  <2>2. QED
    BY <1>9, <2>1, OtherTablesPreserve DEF vars
<1>10. QED
  BY <1>1, <1>2, <1>3, <1>4, <1>5, <1>6, <1>7, <1>8, <1>9 DEF Next

\* The inductive invariant holds of the quota engine for every pool, every
\* allocation, any number of calls and any length of wait for the lock.
THEOREM LedgerInvariant == Spec => []LedgerInv
  BY InitEstablishesInv, NextPreserves, PTL DEF Spec

\* The tables only ever hold well-formed rows, and usage is never negative.
THEOREM TypeCorrect == Spec => []TypeOK
<1>1. LedgerInv => TypeOK
  BY DEF LedgerInv
<1>2. QED
  BY <1>1, LedgerInvariant, PTL

\* A SHARED grant never gives more than its amount over all the calls that
\* draw on it: the ceiling consume() computes from the audit rows.
THEOREM CeilingHolds == Spec => []LifetimeCeiling
<1>1. LedgerInv => LifetimeCeiling
  BY DEF LedgerInv
<1>2. QED
  BY <1>1, LedgerInvariant, PTL

\* What a call sees as usable is part of what is stored as ACTIVE, whatever
\* clock reading the call holds.
LEMMA SentWithinBase ==
  ASSUME LedgerInv, NEW m \in Members, NEW type \in Types, NEW now
  PROVE  /\ Total(Sent(m, type, now)) \in Nat
         /\ Total(Sent(m, type, now)) =< Base[m]
<1>1. Committed(m, type) \in SUBSET grants
  BY DEF Committed
<1>2. Summable(Committed(m, type)) /\ Total(Committed(m, type)) \in Nat
  BY <1>1, GrantsSummable, TotalType DEF LedgerInv
<1>3. Sent(m, type, now) \in SUBSET Committed(m, type)
  BY DEF Sent, Committed, Usable
<1>4. /\ Total(Sent(m, type, now)) =< Total(Committed(m, type))
      /\ Total(Sent(m, type, now)) \in Nat
  BY <1>2, <1>3, TotalSubset, TotalType
<1>5. Total(Committed(m, type)) =< Base[m]
  BY DEF LedgerInv, CommittedWithinBase
<1>6. QED
  BY <1>2, <1>4, <1>5, BaseAssumption

\* Approving never lets a member give away under SOLID grants, or offer under
\* SHARED grants, more than its allocation, even to calls whose clock reading is old.
THEOREM OffersBounded == Spec => []OffersWithinBase
<1>1. LedgerInv => OffersWithinBase
  BY SentWithinBase DEF OffersWithinBase
<1>2. QED
  BY <1>1, LedgerInvariant, PTL

\* Guaranteed units are a natural number, for any clock reading.
LEMMA GuaranteedIsNatural ==
  ASSUME LedgerInv, NEW m \in Members, NEW now
  PROVE  Guaranteed(m, now) \in Nat
<1>1. Received(m, "SOLID", now) \in SUBSET grants
  BY DEF Received
<1>2. Total(Received(m, "SOLID", now)) \in Nat
  BY <1>1, GrantsSummable, TotalType DEF LedgerInv
<1>3. /\ Total(Sent(m, "SOLID", now)) \in Nat
      /\ Total(Sent(m, "SOLID", now)) =< Base[m]
  BY SentWithinBase DEF Types
<1>4. QED
  BY <1>2, <1>3, BaseAssumption DEF Guaranteed

\* A member's guaranteed units are never negative: SOLID grants cannot take
\* away more than the base allocation they are carved from.
THEOREM GuaranteeNeverNegative == Spec => []GuaranteedNonNegative
<1>1. LedgerInv => GuaranteedNonNegative
  BY GuaranteedIsNatural DEF GuaranteedNonNegative
<1>2. QED
  BY <1>1, LedgerInvariant, PTL

-----------------------------------------------------------------------------
(* What a step may never do.                                               *)

RequestsKept ==
  \A r \in requests : \E q \in requests' : q.id = r.id /\ (r.status # "PENDING" => q = r)

GrantsKept ==
  \A g \in grants : \E h \in grants' : h.id = g.id /\ (g.status # "ACTIVE" => h = g)

DrawsAreLive ==
  \A s \in shared' \ shared : \E g \in grants :
    g.id = s.grant /\ g.status = "ACTIVE" /\ g.expires > s.at

\* Replacing an undecided row by the decided one keeps every decision.
LEMMA SetStatusKeepsRequests ==
  ASSUME LedgerInv, NEW r \in requests, r.status = "PENDING",
         NEW status, requests' = SetStatus(requests, r, status)
  PROVE  RequestsKept
<1> DEFINE decided == [r EXCEPT !.status = status]
<1>1. decided.id = r.id
  BY DEF LedgerInv, TypeOK, Requests
<1>2. requests' = (requests \ {r}) \cup {decided}
  BY DEF SetStatus
<1> HIDE DEF decided
<1>3. QED
  BY <1>1, <1>2 DEF RequestsKept

\* Storing expiries ends ACTIVE grants and leaves ended ones alone.
LEMMA ExpiryKeepsGrants ==
  ASSUME LedgerInv, NEW members, NEW now, ExpireFor(members, now) \subseteq grants'
  PROVE  GrantsKept
<1>1. RowsKept(ExpireFor(members, now))
  BY ExpireForKeepsRows DEF LedgerInv
<1>2. QED
  BY <1>1 DEF RowsKept, GrantsKept

\* No step takes a decision back or loses a row.
LEMMA StepKeepsDecisions ==
  ASSUME LedgerInv, Next
  PROVE  RequestsKept /\ GrantsKept
<1>1. CASE Tick
  BY <1>1 DEF Tick, RequestsKept, GrantsKept
<1>2. ASSUME NEW m \in Members, NEW target \in Members, NEW a \in Amounts, NEW type \in Types,
             RequestCapacity(m, target, a, type)
      PROVE  RequestsKept /\ GrantsKept
  <2>1. requests \subseteq requests' /\ grants' = grants
    BY <1>2 DEF RequestCapacity
  <2>2. QED
    BY <2>1 DEF RequestsKept, GrantsKept
<1>3. ASSUME NEW r \in requests, NEW actor \in Members, NEW now \in CallTimes,
             ApproveRequest(r, actor, now)
      PROVE  RequestsKept /\ GrantsKept
  <2>1. RequestsKept
    BY <1>3, SetStatusKeepsRequests DEF ApproveRequest, Pending
  <2>2. ExpireFor({r.target}, now) \subseteq grants'
    BY <1>3 DEF ApproveRequest
  <2>3. QED
    BY <2>1, <2>2, ExpiryKeepsGrants
<1>4. ASSUME NEW r \in requests, NEW actor \in Members, RejectRequest(r, actor)
      PROVE  RequestsKept /\ GrantsKept
  <2>1. RequestsKept
    BY <1>4, SetStatusKeepsRequests DEF RejectRequest, Pending
  <2>2. grants' = grants
    BY <1>4 DEF RejectRequest
  <2>3. QED
    BY <2>1, <2>2 DEF GrantsKept
<1>5. ASSUME NEW g \in grants, NEW actor \in Members, RevokeGrant(g, actor)
      PROVE  RequestsKept /\ GrantsKept
  <2> DEFINE ended == [g EXCEPT !.status = "REVOKED"]
  <2>1. ended.id = g.id
    BY DEF LedgerInv, TypeOK, Grants
  <2>2. /\ grants' = (grants \ {g}) \cup {ended}
        /\ requests' = requests
        /\ g.status = "ACTIVE"
    BY <1>5 DEF RevokeGrant, SetStatus
  <2> HIDE DEF ended
  <2>3. QED
    BY <2>1, <2>2 DEF RequestsKept, GrantsKept
<1>6. ASSUME requests' = requests, NEW members, NEW now, grants' = ExpireFor(members, now)
      PROVE  RequestsKept /\ GrantsKept
  <2>1. GrantsKept
    BY <1>6, ExpiryKeepsGrants
  <2>2. QED
    BY <1>6, <2>1 DEF RequestsKept
<1>7. ASSUME NEW m \in Members, NEW a \in Amounts, NEW k \in Keys, NEW now \in CallTimes,
             Consume(m, a, k, now) \/ ConsumeReplay(m, a, k, now)
      PROVE  RequestsKept /\ GrantsKept
  <2>1. requests' = requests /\ \E members : grants' = ExpireFor(members, now)
    BY <1>7 DEF Consume, ConsumeReplay
  <2>2. QED
    BY <1>6, <2>1
<1>8. ASSUME NEW m \in Members, NEW now \in CallTimes, Summarise(m, now)
      PROVE  RequestsKept /\ GrantsKept
  BY <1>6, <1>8 DEF Summarise
<1>9. QED
  BY <1>1, <1>2, <1>3, <1>4, <1>5, <1>7, <1>8 DEF Next

\* A call draws only on grants that are stored as ACTIVE and that its own clock
\* reading has not overtaken.
LEMMA StepDrawsLive ==
  ASSUME LedgerInv, Next
  PROVE  DrawsAreLive
<1>1. ASSUME shared' = shared
      PROVE  DrawsAreLive
  BY <1>1 DEF DrawsAreLive
<1>2. ASSUME NEW m \in Members, NEW a \in Amounts, NEW k \in Keys, NEW now \in CallTimes,
             Consume(m, a, k, now)
      PROVE  DrawsAreLive
  <2> DEFINE shortfall == a - OwnPortion(m, a, now)
             held      == Held(m, shortfall, now)
  <2>1. shortfall \in Nat
    BY OwnPortionType DEF LedgerInv
  <2>2. /\ held \in SUBSET grants
        /\ \A g \in held : g.status = "ACTIVE" /\ g.expires > now
    BY DEF Held, Received, Usable
  <2>3. PICK draw \in [held -> 0..shortfall] : shared' = shared \cup DrawRows(k, draw, now)
    BY <1>2 DEF Consume
  <2> HIDE DEF shortfall, held
  <2>4. DrawOn(held, draw)
    BY <2>1, <2>2, <2>3 DEF DrawOn
  <2>5. \A s \in DrawRows(k, draw, now) : \E g \in held :
          draw[g] > 0 /\ s = [key |-> k, grant |-> g.id, amount |-> draw[g], at |-> now]
    BY <2>4, CallTimesType, DrawRowsType DEF LedgerInv
  <2>6. QED
    BY <2>2, <2>3, <2>5 DEF DrawsAreLive
<1>3. CASE \E m \in Members, a \in Amounts, k \in Keys, now \in CallTimes : Consume(m, a, k, now)
  BY <1>2, <1>3
<1>4. CASE ~ \E m \in Members, a \in Amounts, k \in Keys, now \in CallTimes : Consume(m, a, k, now)
  <2>1. shared' = shared
    BY <1>4 DEF Next, Tick, RequestCapacity, ApproveRequest, RejectRequest, RevokeGrant,
                ConsumeReplay, Summarise
  <2>2. QED
    BY <1>1, <2>1
<1>5. QED
  BY <1>3, <1>4

\* A decided request and an ended grant stay as they are, and no row is lost.
THEOREM DecisionsNeverChange == Spec => DecisionsFinal
<1>1. LedgerInv /\ [Next]_vars =>
        [ /\ \A r \in requests : \E q \in requests' :
               q.id = r.id /\ (r.status # "PENDING" => q = r)
          /\ \A g \in grants : \E h \in grants' :
               h.id = g.id /\ (g.status # "ACTIVE" => h = g) ]_vars
  BY StepKeepsDecisions DEF RequestsKept, GrantsKept
<1>2. QED
  BY <1>1, LedgerInvariant, PTL DEF Spec, DecisionsFinal

\* Units are drawn only on a grant that is stored as ACTIVE when the call takes
\* effect, and never with a clock reading at or past the grant's expiry.
THEOREM OnlyLiveGrantsAreDrawn == Spec => OnlyLiveGrantsPay
<1>1. LedgerInv /\ [Next]_vars => [DrawsAreLive]_vars
  BY StepDrawsLive
<1>2. Spec => [][DrawsAreLive]_vars
  BY <1>1, LedgerInvariant, PTL DEF Spec
<1>3. QED
  BY <1>2 DEF OnlyLiveGrantsPay, DrawsAreLive

-----------------------------------------------------------------------------
(* The sets of rows that the properties add up.                            *)

Mine(m) == { r \in records : r.member = m }

Borrowed(m) == { s \in shared : \E r \in Mine(m) : r.key = s.key }

Lent(m) == { s \in shared : \E g \in grants : g.id = s.grant /\ g.source = m }

SolidTo(m) == { g \in grants : g.recipient = m /\ g.type = "SOLID" }

ApprovedOn(src, rcp, a, type) ==
  { r \in requests : r.status = "APPROVED" /\ r.target = src
                       /\ r.requester = rcp /\ r.amount = a /\ r.type = type }

GrantedOn(src, rcp, a, type) ==
  { g \in grants : g.source = src /\ g.recipient = rcp /\ g.amount = a /\ g.type = type }

\* The balance in terms of these sets.
LEMMA BalanceOfRows ==
  LedgerBalance <=> \A m \in Members : usage[m] = Total(Mine(m)) - Total(Borrowed(m)) + Total(Lent(m))
BY DEF LedgerBalance, Mine, Borrowed, Lent

\* The entitlement in terms of them.
LEMMA EntitlementOfRows ==
  UsageWithinEntitlement <=> \A m \in Members : usage[m] =< Base[m] + Total(SolidTo(m))
BY DEF UsageWithinEntitlement, SolidTo

\* Approvals and grants in terms of them.
LEMMA MatchOfRows ==
  GrantsMatchApprovals <=>
    \A src, rcp \in Members, a \in Amounts, type \in Types :
      Cardinality(ApprovedOn(src, rcp, a, type)) = Cardinality(GrantedOn(src, rcp, a, type))
BY DEF GrantsMatchApprovals, ApprovedOn, GrantedOn

\* All of them can be summed or counted.
LEMMA RowsSummable ==
  ASSUME TypeOK, TablesFinite, NEW m
  PROVE  /\ Summable(Mine(m)) /\ Total(Mine(m)) \in Nat
         /\ Summable(Borrowed(m)) /\ Total(Borrowed(m)) \in Nat
         /\ Summable(Lent(m)) /\ Total(Lent(m)) \in Nat
         /\ Summable(SolidTo(m)) /\ Total(SolidTo(m)) \in Nat
<1>1. Summable(records)
  BY AmountsAssumption DEF TypeOK, TablesFinite, Records, Summable
<1>2. /\ Mine(m) \in SUBSET records
      /\ Borrowed(m) \in SUBSET shared
      /\ Lent(m) \in SUBSET shared
      /\ SolidTo(m) \in SUBSET grants
  BY DEF Mine, Borrowed, Lent, SolidTo
<1>3. Summable(Mine(m))
  BY <1>1, <1>2, TotalSubset
<1>4. Summable(Borrowed(m)) /\ Summable(Lent(m)) /\ Summable(SolidTo(m))
  BY <1>2, SharedSummable, GrantsSummable
<1> QED
  BY <1>3, <1>4, TotalType

-----------------------------------------------------------------------------
(* Grants carried over a step: only their statuses may change.             *)

Carried(g, h) ==
  /\ h.id = g.id /\ h.source = g.source /\ h.recipient = g.recipient
  /\ h.amount = g.amount /\ h.type = g.type

\* `f` takes every row of the table to what has become of it in `after`.
Carries(f, after) == f \in Bijection(grants, after) /\ \A g \in grants : Carried(g, f[g])

\* Lazy expiry carries the grants.
LEMMA ExpiryCarries ==
  ASSUME TypeOK, GrantIdsUnique, NEW members, NEW now
  PROVE  \E f : Carries(f, ExpireFor(members, now))
<1> DEFINE Expiring(g) == Stale(g, now) /\ (g.source \in members \/ g.recipient \in members)
           step == [g \in grants |-> IF Expiring(g) THEN [g EXCEPT !.status = "EXPIRED"] ELSE g]
<1>1. ExpireFor(members, now) = { step[g] : g \in grants }
  BY DEF ExpireFor
<1>2. \A g \in grants : Carried(g, step[g])
  BY DEF TypeOK, Grants, Carried
<1>3. step \in [grants -> ExpireFor(members, now)]
  BY <1>1
<1> HIDE DEF step
<1>4. \A g, h \in grants : step[g] = step[h] => g = h
  BY <1>2 DEF Carried, GrantIdsUnique
<1>5. step \in Bijection(grants, ExpireFor(members, now))
  BY <1>1, <1>3, <1>4, Fun_IsBij
<1> QED
  BY <1>2, <1>5 DEF Carries

\* So does a new status of one of them.
LEMMA StatusCarries ==
  ASSUME TypeOK, GrantIdsUnique, NEW g \in grants, NEW status
  PROVE  \E f : Carries(f, SetStatus(grants, g, status))
<1> DEFINE ended == [g EXCEPT !.status = status]
           step == [h \in grants |-> IF h = g THEN ended ELSE h]
<1>1. Carried(g, ended) /\ \A h \in grants : Carried(h, h)
  BY DEF TypeOK, Grants, Carried
<1>2. SetStatus(grants, g, status) = (grants \ {g}) \cup {ended}
  BY DEF SetStatus
<1> HIDE DEF ended
<1>3. \A h \in grants : Carried(h, step[h])
  BY <1>1
<1>4. step \in [grants -> SetStatus(grants, g, status)]
  BY <1>2
<1>5. \A t \in SetStatus(grants, g, status) : \E h \in grants : step[h] = t
  BY <1>2
<1> HIDE DEF step
<1>6. \A h, i \in grants : step[h] = step[i] => h = i
  BY <1>3 DEF Carried, GrantIdsUnique
<1>7. step \in Bijection(grants, SetStatus(grants, g, status))
  BY <1>4, <1>5, <1>6, Fun_IsBij
<1> QED
  BY <1>3, <1>7 DEF Carries

\* Part of the table and what it has become total and count the same.
LEMMA CarriedPart ==
  ASSUME TypeOK, TablesFinite, NEW f, NEW after, Carries(f, after), NEW part \in SUBSET grants,
         NEW image, image = { f[g] : g \in part }
  PROVE  Total(image) = Total(part) /\ Cardinality(image) = Cardinality(part)
<1> DEFINE h == [g \in part |-> f[g]]
<1>1. /\ \A g, i \in grants : f[g] = f[i] => g = i
      /\ \A g \in grants : f[g].amount = g.amount
  BY Fun_BijectionProperties DEF Carries, Carried
<1>2. h \in Bijection(part, image)
  BY <1>1, Fun_IsBij
<1>3. \A g \in part : h[g].amount = g.amount
  BY <1>1
<1> HIDE DEF h
<1>4. Summable(part)
  BY GrantsSummable
<1>5. Total(image) = Total(part)
  BY <1>2, <1>3, <1>4, TotalBijection
<1>6. Cardinality(image) = Cardinality(part)
  BY <1>2, <1>4, FS_Bijection DEF Summable, ExistsBijection
<1> QED
  BY <1>5, <1>6

\* What the properties read off a table that has been carried.
LEMMA CarriedTable ==
  ASSUME TypeOK, TablesFinite, NEW f, NEW after, Carries(f, after)
  PROVE  /\ \A m : Total({ h \in after : h.recipient = m /\ h.type = "SOLID" }) = Total(SolidTo(m))
         /\ \A src, rcp, a, type :
              Cardinality({ h \in after : h.source = src /\ h.recipient = rcp /\ h.amount = a /\ h.type = type })
                = Cardinality(GrantedOn(src, rcp, a, type))
         /\ \A id, m : (\E h \in after : h.id = id /\ h.source = m) <=> (\E g \in grants : g.id = id /\ g.source = m)
         /\ { <<h.source, h.recipient>> : h \in after } = { <<g.source, g.recipient>> : g \in grants }
         /\ \A h \in after : h.source # h.recipient \/ \E g \in grants : g.source = g.recipient
<1>1. /\ \A g \in grants : f[g] \in after /\ Carried(g, f[g])
      /\ \A h \in after : \E g \in grants : f[g] = h
  BY Fun_BijectionProperties DEF Carries
<1>2. ASSUME NEW m
      PROVE  Total({ h \in after : h.recipient = m /\ h.type = "SOLID" }) = Total(SolidTo(m))
  <2>1. { h \in after : h.recipient = m /\ h.type = "SOLID" } = { f[g] : g \in SolidTo(m) }
    BY <1>1 DEF Carried, SolidTo
  <2>2. SolidTo(m) \in SUBSET grants
    BY DEF SolidTo
  <2> QED
    BY <2>1, <2>2, CarriedPart
<1>3. ASSUME NEW src, NEW rcp, NEW a, NEW type
      PROVE  Cardinality({ h \in after : h.source = src /\ h.recipient = rcp /\ h.amount = a /\ h.type = type })
               = Cardinality(GrantedOn(src, rcp, a, type))
  <2>1. { h \in after : h.source = src /\ h.recipient = rcp /\ h.amount = a /\ h.type = type }
          = { f[g] : g \in GrantedOn(src, rcp, a, type) }
    BY <1>1 DEF Carried, GrantedOn
  <2>2. GrantedOn(src, rcp, a, type) \in SUBSET grants
    BY DEF GrantedOn
  <2> QED
    BY <2>1, <2>2, CarriedPart
<1>4. ASSUME NEW id, NEW m
      PROVE  (\E h \in after : h.id = id /\ h.source = m) <=> (\E g \in grants : g.id = id /\ g.source = m)
  BY <1>1 DEF Carried
<1>5. { <<h.source, h.recipient>> : h \in after } = { <<g.source, g.recipient>> : g \in grants }
  BY <1>1 DEF Carried
<1>6. \A h \in after : h.source # h.recipient \/ \E g \in grants : g.source = g.recipient
  BY <1>1 DEF Carried
<1> QED
  BY <1>2, <1>3, <1>4, <1>5, <1>6

\* A step that only carries the grants keeps the books.
LEMMA CarryPreserves ==
  ASSUME AuditInv, LedgerInv', UNCHANGED <<usage, requests, records, shared>>,
         NEW f, Carries(f, grants')
  PROVE  AuditInv'
<1>1. /\ \A m : Total(SolidTo(m)') = Total(SolidTo(m))
      /\ \A src, rcp, a, type :
           Cardinality(GrantedOn(src, rcp, a, type)') = Cardinality(GrantedOn(src, rcp, a, type))
      /\ \A id, m : (\E h \in grants' : h.id = id /\ h.source = m) <=> (\E g \in grants : g.id = id /\ g.source = m)
      /\ \A h \in grants' : h.source # h.recipient \/ \E g \in grants : g.source = g.recipient
  <2>1. /\ \A m : Total({ h \in grants' : h.recipient = m /\ h.type = "SOLID" }) = Total(SolidTo(m))
        /\ \A src, rcp, a, type :
             Cardinality({ h \in grants' : h.source = src /\ h.recipient = rcp /\ h.amount = a /\ h.type = type })
               = Cardinality(GrantedOn(src, rcp, a, type))
        /\ \A id, m : (\E h \in grants' : h.id = id /\ h.source = m) <=> (\E g \in grants : g.id = id /\ g.source = m)
        /\ \A h \in grants' : h.source # h.recipient \/ \E g \in grants : g.source = g.recipient
    BY CarriedTable DEF AuditInv, LedgerInv
  <2>2. /\ \A m : SolidTo(m)' = { h \in grants' : h.recipient = m /\ h.type = "SOLID" }
        /\ \A src, rcp, a, type :
             GrantedOn(src, rcp, a, type)'
               = { h \in grants' : h.source = src /\ h.recipient = rcp /\ h.amount = a /\ h.type = type }
    BY DEF SolidTo, GrantedOn
  <2> QED
    BY <2>1, <2>2
<1>2. LedgerBalance'
  <2>1. \A m : Lent(m)' = Lent(m) /\ Mine(m)' = Mine(m) /\ Borrowed(m)' = Borrowed(m)
    BY <1>1 DEF Lent, Mine, Borrowed
  <2>2. \A m \in Members : usage'[m] = Total(Mine(m)') - Total(Borrowed(m)') + Total(Lent(m)')
    BY <2>1, BalanceOfRows DEF AuditInv
  <2> QED
    BY <2>2 DEF LedgerBalance, Mine, Borrowed, Lent
<1>3. UsageWithinEntitlement'
  <2>1. \A m \in Members : usage'[m] =< Base[m] + Total(SolidTo(m)')
    BY <1>1, EntitlementOfRows DEF AuditInv
  <2> QED
    BY <2>1 DEF UsageWithinEntitlement, SolidTo
<1>4. GrantsMatchApprovals'
  <2>1. \A src, rcp, a, type : ApprovedOn(src, rcp, a, type)' = ApprovedOn(src, rcp, a, type)
    BY DEF ApprovedOn
  <2>2. \A src, rcp \in Members, a \in Amounts, type \in Types :
          Cardinality(ApprovedOn(src, rcp, a, type)') = Cardinality(GrantedOn(src, rcp, a, type)')
    BY <1>1, <2>1, MatchOfRows DEF AuditInv
  <2> QED
    BY <2>2 DEF GrantsMatchApprovals, ApprovedOn, GrantedOn
<1>5. RequestIdsUnique' /\ KeysUnique' /\ DrawsRecorded' /\ NobodyLendsToItself'
  BY <1>1 DEF AuditInv, RequestIdsUnique, KeysUnique, DrawsRecorded, NobodyLendsToItself
<1> QED
  BY <1>2, <1>3, <1>4, <1>5 DEF AuditInv

-----------------------------------------------------------------------------
(* One lemma per action.                                                   *)

\* A new pool has nothing to account for.
LEMMA InitEstablishesAudit == Init => AuditInv
<1> SUFFICES ASSUME Init PROVE AuditInv
  OBVIOUS
<1>1. LedgerInv
  BY InitEstablishesInv
<1>2. \A m : Mine(m) = {} /\ Borrowed(m) = {} /\ Lent(m) = {} /\ SolidTo(m) = {}
  BY DEF Init, Mine, Borrowed, Lent, SolidTo
<1>3. LedgerBalance
  BY <1>2, BalanceOfRows, TotalEmpty DEF Init
<1>4. UsageWithinEntitlement
  BY <1>2, EntitlementOfRows, TotalEmpty, BaseAssumption DEF Init
<1>5. GrantsMatchApprovals
  <2>1. \A src, rcp, a, type : ApprovedOn(src, rcp, a, type) = {} /\ GrantedOn(src, rcp, a, type) = {}
    BY DEF Init, ApprovedOn, GrantedOn
  <2> QED
    BY <2>1, MatchOfRows
<1>6. RequestIdsUnique /\ KeysUnique /\ DrawsRecorded /\ NobodyLendsToItself
  BY DEF Init, RequestIdsUnique, KeysUnique, DrawsRecorded, NobodyLendsToItself
<1> QED
  BY <1>1, <1>3, <1>4, <1>5, <1>6 DEF AuditInv

\* A step that touches only requests, and neither adds nor removes an approved
\* one.
LEMMA RequestsOnlyPreserve ==
  ASSUME AuditInv, LedgerInv', UNCHANGED <<usage, grants, records, shared>>,
         RequestIdsUnique', \A r \in requests' : r.requester # r.target,
         { r \in requests' : r.status = "APPROVED" } = { r \in requests : r.status = "APPROVED" }
  PROVE  AuditInv'
<1>1. LedgerBalance' /\ UsageWithinEntitlement' /\ KeysUnique' /\ DrawsRecorded'
  BY DEF AuditInv, LedgerBalance, UsageWithinEntitlement, KeysUnique, DrawsRecorded
<1>2. GrantsMatchApprovals'
  <2>1. \A src, rcp, a, type : ApprovedOn(src, rcp, a, type)' = ApprovedOn(src, rcp, a, type)
    BY DEF ApprovedOn
  <2>2. \A src, rcp, a, type : GrantedOn(src, rcp, a, type)' = GrantedOn(src, rcp, a, type)
    BY DEF GrantedOn
  <2>3. \A src, rcp \in Members, a \in Amounts, type \in Types :
          Cardinality(ApprovedOn(src, rcp, a, type)') = Cardinality(GrantedOn(src, rcp, a, type)')
    BY <2>1, <2>2, MatchOfRows DEF AuditInv
  <2> QED
    BY <2>3 DEF GrantsMatchApprovals, ApprovedOn, GrantedOn
<1>3. NobodyLendsToItself'
  BY DEF AuditInv, NobodyLendsToItself
<1> QED
  BY <1>1, <1>2, <1>3 DEF AuditInv

\* A new request is undecided and not to oneself.
LEMMA RequestCapacityKeepsAudit ==
  ASSUME AuditInv, NEW m \in Members, NEW target \in Members, NEW a \in Amounts,
         NEW type \in Types, RequestCapacity(m, target, a, type)
  PROVE  AuditInv'
<1> DEFINE row == [id |-> FreshId(requests), requester |-> m, target |-> target,
                   amount |-> a, type |-> type, status |-> "PENDING"]
<1>1. LedgerInv'
  BY RequestCapacityPreserves DEF AuditInv
<1>2. \A r \in requests : r.id # FreshId(requests)
  BY FreshIdIsFresh DEF AuditInv, LedgerInv, TypeOK, Requests, RequestCapacity
<1>3. row.id = FreshId(requests) /\ row.requester # row.target /\ row.status = "PENDING"
  BY DEF RequestCapacity
<1>4. requests' = requests \cup {row} /\ UNCHANGED <<usage, grants, records, shared>>
  BY DEF RequestCapacity
<1> HIDE DEF row
<1>5. RequestIdsUnique'
  BY <1>2, <1>3, <1>4 DEF AuditInv, RequestIdsUnique
<1> QED
  BY <1>1, <1>3, <1>4, <1>5, RequestsOnlyPreserve DEF AuditInv, NobodyLendsToItself

\* A decided request keeps its id and terms.
LEMMA DecidedRequest ==
  ASSUME LedgerInv, NEW r \in requests, NEW status, NEW decided, decided = [r EXCEPT !.status = status]
  PROVE  /\ decided.id = r.id /\ decided.requester = r.requester /\ decided.target = r.target
         /\ decided.amount = r.amount /\ decided.type = r.type /\ decided.status = status
BY DEF LedgerInv, TypeOK, Requests

\* A rejected request was not approved, nor is it now.
LEMMA RejectRequestKeepsAudit ==
  ASSUME AuditInv, NEW r \in requests, NEW actor, RejectRequest(r, actor)
  PROVE  AuditInv'
<1> DEFINE decided == [r EXCEPT !.status = "REJECTED"]
<1>1. LedgerInv'
  BY RejectRequestPreserves DEF AuditInv
<1>2. decided.id = r.id /\ decided.requester = r.requester /\ decided.target = r.target /\ decided.status = "REJECTED"
  BY DecidedRequest DEF AuditInv
<1>3. /\ requests' = (requests \ {r}) \cup {decided} /\ UNCHANGED <<usage, grants, records, shared>>
      /\ r.status = "PENDING"
  BY DEF RejectRequest, SetStatus, Pending
<1> HIDE DEF decided
<1>4. RequestIdsUnique'
  BY <1>2, <1>3 DEF AuditInv, RequestIdsUnique
<1>5. \A q \in requests' : q.requester # q.target
  BY <1>2, <1>3 DEF AuditInv, NobodyLendsToItself
<1>6. { q \in requests' : q.status = "APPROVED" } = { q \in requests : q.status = "APPROVED" }
  BY <1>2, <1>3
<1> QED
  BY <1>1, <1>3, <1>4, <1>5, <1>6, RequestsOnlyPreserve

\* Revoking changes one status.
LEMMA RevokeGrantKeepsAudit ==
  ASSUME AuditInv, NEW g \in grants, NEW actor, RevokeGrant(g, actor)
  PROVE  AuditInv'
<1>1. LedgerInv'
  BY RevokeGrantPreserves DEF AuditInv
<1>2. \E f : Carries(f, grants')
  BY StatusCarries DEF RevokeGrant, AuditInv, LedgerInv
<1> QED
  BY <1>1, <1>2, CarryPreserves DEF RevokeGrant

\* Calls that only store expiries.
LEMMA ExpiryOnlyKeepsAudit ==
  ASSUME AuditInv, NEW members, NEW now, grants' = ExpireFor(members, now),
         UNCHANGED <<clock, usage, requests, records, shared>>
  PROVE  AuditInv'
<1>1. LedgerInv'
  BY ExpiryOnlyPreserves DEF AuditInv
<1>2. \E f : Carries(f, grants')
  BY ExpiryCarries DEF AuditInv, LedgerInv
<1> QED
  BY <1>1, <1>2, CarryPreserves

\* Approval adds one approved request and one grant on the same terms.
LEMMA ApproveRequestKeepsAudit ==
  ASSUME AuditInv, NEW r \in requests, NEW actor, NEW now \in CallTimes,
         ApproveRequest(r, actor, now)
  PROVE  AuditInv'
<1> DEFINE kept    == ExpireFor({r.target}, now)
           decided == [r EXCEPT !.status = "APPROVED"]
           grant   == [id |-> FreshId(grants), source |-> r.target, recipient |-> r.requester,
                       amount |-> r.amount, type |-> r.type, status |-> "ACTIVE",
                       created |-> now, expires |-> ResetAt[r.target]]
<1>1. LedgerInv'
  BY ApproveRequestPreserves DEF AuditInv
<1>2. \A g \in grants : g.id # FreshId(grants)
  BY FreshIdIsFresh DEF AuditInv, LedgerInv, TypeOK, Grants, ApproveRequest
<1>3. /\ grant.id = FreshId(grants) /\ grant.source = r.target /\ grant.recipient = r.requester
      /\ grant.amount = r.amount /\ grant.type = r.type
  OBVIOUS
<1>4. /\ decided.id = r.id /\ decided.requester = r.requester /\ decided.target = r.target
      /\ decided.amount = r.amount /\ decided.type = r.type /\ decided.status = "APPROVED"
  BY DecidedRequest DEF AuditInv
<1>5. /\ requests' = (requests \ {r}) \cup {decided}
      /\ grants' = kept \cup {grant}
      /\ UNCHANGED <<usage, records, shared>>
      /\ r.status = "PENDING"
  BY DEF ApproveRequest, SetStatus, Pending
<1>6. PICK f : Carries(f, kept)
  BY ExpiryCarries DEF AuditInv, LedgerInv
<1> HIDE DEF kept, decided, grant
<1>7. \A h \in kept : \E g \in grants : Carried(g, h)
  BY <1>6, Fun_BijectionProperties DEF Carries
<1>8. /\ \A m : Total({ h \in kept : h.recipient = m /\ h.type = "SOLID" }) = Total(SolidTo(m))
      /\ \A src, rcp, a, type :
           Cardinality({ h \in kept : h.source = src /\ h.recipient = rcp /\ h.amount = a /\ h.type = type })
             = Cardinality(GrantedOn(src, rcp, a, type))
      /\ \A id, m : (\E h \in kept : h.id = id /\ h.source = m) <=> (\E g \in grants : g.id = id /\ g.source = m)
      /\ \A h \in kept : h.source # h.recipient \/ \E g \in grants : g.source = g.recipient
  BY <1>6, CarriedTable DEF AuditInv, LedgerInv
<1>9. /\ \A h \in kept : h.id # grant.id
      /\ grant \notin kept
  BY <1>2, <1>3, <1>7 DEF Carried
<1>10. Summable(grants')
  BY <1>1, AmountsAssumption DEF LedgerInv, TypeOK, TablesFinite, Grants, Summable
<1>11. LedgerBalance'
  <2>1. \A m : Mine(m)' = Mine(m) /\ Borrowed(m)' = Borrowed(m)
    BY <1>5 DEF Mine, Borrowed
  <2>2. ASSUME NEW m, NEW s \in shared
        PROVE  (\E h \in grants' : h.id = s.grant /\ h.source = m)
                 <=> (\E g \in grants : g.id = s.grant /\ g.source = m)
    <3>1. s.grant # grant.id
      BY <1>2, <1>3 DEF AuditInv, LedgerInv, DrawsOnGrants
    <3> QED
      BY <1>5, <1>8, <3>1
  <2>3. \A m : Lent(m)' = Lent(m)
    BY <1>5, <2>2 DEF Lent
  <2>4. \A m \in Members : usage'[m] = Total(Mine(m)') - Total(Borrowed(m)') + Total(Lent(m)')
    BY <1>5, <2>1, <2>3, BalanceOfRows DEF AuditInv
  <2> QED
    BY <2>4 DEF LedgerBalance, Mine, Borrowed, Lent
<1>12. UsageWithinEntitlement'
  <2> SUFFICES ASSUME NEW m \in Members PROVE usage'[m] =< Base[m] + Total(SolidTo(m)')
    BY DEF UsageWithinEntitlement, SolidTo
  <2>1. { h \in kept : h.recipient = m /\ h.type = "SOLID" } \subseteq SolidTo(m)' /\ SolidTo(m)' \subseteq grants'
    BY <1>5 DEF SolidTo
  <2>2. Summable(SolidTo(m)') /\ Total(SolidTo(m)') \in Nat
    BY <1>10, <2>1, TotalSubset, TotalType
  <2>3. Total(SolidTo(m)) =< Total(SolidTo(m)')
    BY <1>8, <2>1, <2>2, TotalSubset
  <2>4. usage[m] =< Base[m] + Total(SolidTo(m)) /\ usage[m] \in Nat /\ Total(SolidTo(m)) \in Nat
    BY EntitlementOfRows, RowsSummable DEF AuditInv, LedgerInv, TypeOK
  <2> QED
    BY <1>5, <2>2, <2>3, <2>4, BaseAssumption
<1>13. GrantsMatchApprovals'
  <2> SUFFICES ASSUME NEW src \in Members, NEW rcp \in Members, NEW a \in Amounts, NEW type \in Types
               PROVE  Cardinality(ApprovedOn(src, rcp, a, type)') = Cardinality(GrantedOn(src, rcp, a, type)')
    BY DEF GrantsMatchApprovals, ApprovedOn, GrantedOn
  <2> DEFINE before == { h \in kept : h.source = src /\ h.recipient = rcp /\ h.amount = a /\ h.type = type }
             terms  == r.target = src /\ r.requester = rcp /\ r.amount = a /\ r.type = type
  <2>1. Cardinality(before) = Cardinality(ApprovedOn(src, rcp, a, type))
    BY <1>8, MatchOfRows DEF AuditInv
  <2>2. GrantedOn(src, rcp, a, type)' = IF terms THEN before \cup {grant} ELSE before
    BY <1>3, <1>5 DEF GrantedOn
  <2>3. ApprovedOn(src, rcp, a, type)'
          = IF terms THEN ApprovedOn(src, rcp, a, type) \cup {decided} ELSE ApprovedOn(src, rcp, a, type)
    BY <1>4, <1>5 DEF ApprovedOn
  <2>4. grant \notin before /\ IsFiniteSet(before)
    <3>1. before \subseteq grants'
      BY <1>5
    <3> QED
      BY <1>9, <1>10, <3>1, FS_Subset DEF Summable
  <2>5. decided \notin ApprovedOn(src, rcp, a, type) /\ IsFiniteSet(ApprovedOn(src, rcp, a, type))
    <3>1. decided \notin requests
      BY <1>4, <1>5 DEF AuditInv, RequestIdsUnique
    <3>2. ApprovedOn(src, rcp, a, type) \subseteq requests
      BY DEF ApprovedOn
    <3> QED
      BY <3>1, <3>2, FS_Subset DEF AuditInv, LedgerInv, TablesFinite
  <2> HIDE DEF before, terms
  <2>6. /\ Cardinality(before \cup {grant}) = Cardinality(before) + 1
        /\ Cardinality(ApprovedOn(src, rcp, a, type) \cup {decided}) = Cardinality(ApprovedOn(src, rcp, a, type)) + 1
    BY <2>4, <2>5, FS_AddElement
  <2> QED
    BY <2>1, <2>2, <2>3, <2>6
<1>14. RequestIdsUnique'
  BY <1>4, <1>5 DEF AuditInv, RequestIdsUnique
<1>15. NobodyLendsToItself'
  BY <1>3, <1>4, <1>5, <1>8 DEF AuditInv, NobodyLendsToItself
<1>16. KeysUnique' /\ DrawsRecorded'
  BY <1>5 DEF AuditInv, KeysUnique, DrawsRecorded
<1> QED
  BY <1>1, <1>11, <1>12, <1>13, <1>14, <1>15, <1>16 DEF AuditInv

-----------------------------------------------------------------------------
(* Consumption.                                                            *)

\* The rows a call writes for its draws on some of the grants it holds.
DrawRowsOn(k, draw, now, part) ==
  { [key |-> k, grant |-> g.id, amount |-> draw[g], at |-> now] : g \in { h \in part : draw[h] > 0 } }

\* They total what was drawn on those grants.
LEMMA DrawRowsTotal ==
  ASSUME TypeOK, TablesFinite, GrantIdsUnique, NEW held, NEW draw, DrawOn(held, draw),
         NEW part \in SUBSET held, NEW k, NEW now
  PROVE  /\ Summable(DrawRowsOn(k, draw, now, part))
         /\ Total(DrawRowsOn(k, draw, now, part)) = TotalOf([g \in part |-> draw[g]])
<1> DEFINE drawn   == [g \in part |-> draw[g]]
           giving  == { r \in RowsOf(drawn) : r.amount > 0 }
           written == [r \in giving |-> [key |-> k, grant |-> r.of.id, amount |-> r.amount, at |-> now]]
<1>1. IsFiniteSet(part)
  BY FS_Subset DEF TablesFinite, DrawOn
<1>2. drawn \in [part -> Nat]
  BY DEF DrawOn
<1>3. Summable(RowsOf(drawn)) /\ TotalOf(drawn) = Total(RowsOf(drawn))
  BY <1>1, <1>2, RowsOfFunction
<1>4. \A r : r \in RowsOf(drawn) <=> \E g \in part : r = [of |-> g, amount |-> draw[g]]
  BY DEF RowsOf
<1> HIDE DEF drawn
<1>5. Summable(giving) /\ Total(giving) = Total(RowsOf(drawn))
  <2>1. giving \in SUBSET RowsOf(drawn)
    OBVIOUS
  <2> QED
    BY <1>3, <2>1, TotalSubset, TotalWithoutZeros
<1>6. \A r : r \in giving <=> \E g \in part : draw[g] > 0 /\ r = [of |-> g, amount |-> draw[g]]
  BY <1>4
<1> HIDE DEF giving
<1>7. written \in Bijection(giving, DrawRowsOn(k, draw, now, part))
  <2>1. \A r \in giving : written[r] \in DrawRowsOn(k, draw, now, part)
    BY <1>6, SMTT(30) DEF DrawRowsOn
  <2>2. \A s \in DrawRowsOn(k, draw, now, part) : \E r \in giving : written[r] = s
    <3> SUFFICES ASSUME NEW s \in DrawRowsOn(k, draw, now, part) PROVE \E r \in giving : written[r] = s
      OBVIOUS
    <3>1. PICK g \in part : draw[g] > 0 /\ s = [key |-> k, grant |-> g.id, amount |-> draw[g], at |-> now]
      BY DEF DrawRowsOn
    <3>2. [of |-> g, amount |-> draw[g]] \in giving
      BY <1>6, <3>1
    <3> QED
      BY <3>1, <3>2
  <2>3. \A r, q \in giving : written[r] = written[q] => r = q
    <3> SUFFICES ASSUME NEW r \in giving, NEW q \in giving, written[r] = written[q] PROVE r = q
      OBVIOUS
    <3>1. r.of.id = q.of.id
      OBVIOUS
    <3>2. r.of \in grants /\ q.of \in grants
      BY <1>6 DEF DrawOn
    <3>3. r.of = q.of
      BY <3>1, <3>2 DEF GrantIdsUnique
    <3> QED
      BY <1>6, <3>3
  <2> QED
    BY <2>1, <2>2, <2>3, Fun_IsBij
<1>8. \A r \in giving : written[r].amount = r.amount
  OBVIOUS
<1> HIDE DEF written
<1> QED
  BY <1>3, <1>5, <1>7, <1>8, TotalBijection DEF drawn

\* Some of the grants a call holds have given nothing, or the last of them to
\* give closes their account.
LEMMA LastToGive ==
  ASSUME TypeOK, TablesFinite, NEW held, NEW draw, DrawOn(held, draw),
         NEW rank \in DrawOrders(held), NEW among \in SUBSET held,
         NEW total, total = TotalOf([g \in among |-> draw[g]])
  PROVE  /\ total \in Nat
         /\ total = 0 \/ \E g \in among : draw[g] > 0 /\ total = DrawnBefore(among, draw, rank, g) + draw[g]
<1> DEFINE drawn  == [g \in among |-> draw[g]]
           giving == { g \in among : draw[g] > 0 }
<1>1. IsFiniteSet(among) /\ IsFiniteSet(held)
  BY FS_Subset DEF DrawOn, TablesFinite
<1>2. total = TotalOf(drawn) /\ drawn \in [among -> Nat]
  BY DEF DrawOn
<1>3. total \in Nat
  BY <1>1, <1>2, TotalOfType
<1>4. ASSUME giving = {} PROVE total = 0
  <2>1. \A g \in among : drawn[g] = 0
    BY <1>2, <1>4
  <2> QED
    BY <1>1, <1>2, <2>1, TotalOfZeros
<1>5. ASSUME giving # {}
      PROVE  \E g \in among : draw[g] > 0 /\ total = DrawnBefore(among, draw, rank, g) + draw[g]
  <2>1. \A g \in held : rank[g] \in Nat /\ rank[g] \in 0..Cardinality(held)
    BY <1>1, FS_CardinalityType DEF DrawOrders
  <2>2. \A g, h \in held : g # h => rank[g] # rank[h]
    BY DEF DrawOrders
  <2>3. PICK g \in giving : \A h \in giving : rank[h] =< rank[g]
    <3> DEFINE ranks == { rank[g] : g \in giving }
    <3>1. ranks \in SUBSET (0..Cardinality(held)) /\ ranks # {}
      BY <1>5, <2>1
    <3>2. PICK x \in ranks : \A y \in ranks : y =< x
      BY <1>1, <3>1, FS_CardinalityType, GreatestElement
    <3> QED
      BY <3>2
  <2> DEFINE earlier == { h \in among : rank[h] < rank[g] }
             before  == [h \in earlier |-> draw[h]]
             row     == [of |-> g, amount |-> draw[g]]
  <2>4. g \in among /\ g \in held /\ draw[g] > 0 /\ draw[g] \in Nat
    BY DEF DrawOn
  <2>5. DrawnBefore(among, draw, rank, g) = TotalOf(before)
    BY DEF DrawnBefore
  <2>6. IsFiniteSet(earlier) /\ before \in [earlier -> Nat]
    BY <1>1, FS_Subset DEF DrawOn
  <2>7. /\ Summable(RowsOf(drawn)) /\ TotalOf(drawn) = Total(RowsOf(drawn))
        /\ Summable(RowsOf(before)) /\ TotalOf(before) = Total(RowsOf(before))
    BY <1>1, <1>2, <2>6, RowsOfFunction
  <2>8. row \in RowsOf(drawn) /\ row \notin RowsOf(before) /\ RowsOf(before) \subseteq RowsOf(drawn)
    <3>1. \A r : r \in RowsOf(drawn) <=> \E h \in among : r = [of |-> h, amount |-> draw[h]]
      BY DEF RowsOf
    <3>2. \A r : r \in RowsOf(before) <=> \E h \in earlier : r = [of |-> h, amount |-> draw[h]]
      BY DEF RowsOf
    <3>3. g \notin earlier /\ earlier \subseteq among
      BY <2>1, <2>4
    <3> HIDE DEF earlier, drawn, before
    <3> QED
      BY <2>4, <3>1, <3>2, <3>3
  <2>9. ASSUME NEW r \in RowsOf(drawn), r.amount > 0 PROVE r \in RowsOf(before) \cup {row}
    <3>1. PICK h \in among : r = [of |-> h, amount |-> draw[h]]
      BY DEF RowsOf
    <3>2. h = g \/ rank[h] < rank[g]
      BY <2>1, <2>2, <2>3, <2>4, <2>9, <3>1
    <3> QED
      BY <3>1, <3>2 DEF RowsOf
  <2> HIDE DEF drawn, giving, earlier, before
  <2>10. Total(RowsOf(before) \cup {row}) = Total(RowsOf(drawn))
    BY <2>7, <2>8, <2>9, TotalWithoutZeros
  <2>11. Total(RowsOf(before) \cup {row}) = Total(RowsOf(before)) + draw[g]
    BY <2>4, <2>7, <2>8, TotalAdd
  <2> QED
    BY <1>2, <2>4, <2>5, <2>7, <2>10, <2>11
<1> QED
  BY <1>3, <1>4, <1>5

\* What a call draws on one source, over all its grants, is what the source
\* has available or less.
LEMMA DrawnWithinAvailable ==
  ASSUME TypeOK, TablesFinite, NEW held, NEW draw, DrawOn(held, draw),
         NEW rank \in DrawOrders(held), NEW shortfall \in Nat, NEW now,
         GreedyDraw(draw, rank, shortfall, now), NEW s \in Members
  PROVE  DrawnFrom(s, draw) \in Nat /\ DrawnFrom(s, draw) =< Available(s, now)
<1> DEFINE lender == DrawSource(s, draw)
<1>1. lender \in SUBSET held /\ \A g \in lender : g.source = s
  BY DEF DrawSource, DrawOn
<1>2. Available(s, now) \in Nat
  BY BalanceType
<1>3. /\ DrawnFrom(s, draw) \in Nat
      /\ DrawnFrom(s, draw) = 0
           \/ \E g \in lender : draw[g] > 0 /\ DrawnFrom(s, draw) = DrawnBefore(lender, draw, rank, g) + draw[g]
  BY <1>1, LastToGive DEF DrawnFrom
<1>4. ASSUME NEW g \in lender, draw[g] > 0, DrawnFrom(s, draw) = DrawnBefore(lender, draw, rank, g) + draw[g]
      PROVE  DrawnFrom(s, draw) =< Available(s, now)
  <2>1. draw[g] =< Available(s, now) - DrawnBefore(lender, draw, rank, g) /\ draw[g] \in Nat
    BY <1>1, <1>4, GreedyDrawBounds DEF DrawOn
  <2>2. { h \in lender : rank[h] < rank[g] } \in SUBSET held
    BY <1>1
  <2>3. DrawnBefore(lender, draw, rank, g) \in Nat
    BY <2>2, PartialDrawType DEF DrawnBefore
  <2> QED
    BY <1>2, <1>4, <2>1, <2>3
<1> QED
  BY <1>2, <1>3, <1>4

\* What is charged to a member within what it has available leaves it within
\* its guaranteed units, and so within its entitlement.
LEMMA ChargeWithinAvailable ==
  ASSUME TypeOK, TablesFinite, NEW s \in Members, NEW now,
         NEW charge \in Nat, charge =< Available(s, now)
  PROVE  /\ charge > 0 => usage[s] + charge =< Guaranteed(s, now)
         /\ charge = Available(s, now) => usage[s] + charge >= Guaranteed(s, now)
         /\ Guaranteed(s, now) =< Base[s] + Total(SolidTo(s))
<1>1. Guaranteed(s, now) \in Int /\ usage[s] \in Nat /\ Base[s] \in Nat
  BY BalanceType, BaseAssumption DEF TypeOK
<1>2. Available(s, now) = Clamp(Guaranteed(s, now) - usage[s])
  BY DEF Available
<1>3. Guaranteed(s, now) =< Base[s] + Total(SolidTo(s))
  <2>1. Total(SolidTo(s)) \in Nat /\ Summable(SolidTo(s))
    BY RowsSummable
  <2>2. Sent(s, "SOLID", now) \in SUBSET grants /\ Received(s, "SOLID", now) \in SUBSET SolidTo(s)
    BY DEF Sent, Received, SolidTo
  <2>3. Total(Sent(s, "SOLID", now)) \in Nat
    BY <2>2, GrantsSummable, TotalType
  <2>4. Total(Received(s, "SOLID", now)) \in Nat /\ Total(Received(s, "SOLID", now)) =< Total(SolidTo(s))
    BY <2>1, <2>2, TotalSubset, TotalType
  <2> QED
    BY <1>1, <2>1, <2>3, <2>4 DEF Guaranteed
<1> QED
  BY <1>1, <1>2, <1>3 DEF Clamp

\* An admitted report: who pays what, and what is recorded.
AdmittedCharge(m, amount, k, now, own, draw) ==
  /\ own \in Nat /\ own =< Available(m, now)
  /\ TotalOf(draw) \in Nat /\ own + TotalOf(draw) = amount
  /\ TotalOf(draw) > 0 => own = Available(m, now)
  /\ DrawOn(DOMAIN draw, draw) /\ draw \in [DOMAIN draw -> Nat]
  /\ \A g \in DOMAIN draw : g.recipient = m
  /\ \A s \in Members : DrawnFrom(s, draw) \in Nat /\ DrawnFrom(s, draw) =< Available(s, now)
  /\ ~Recorded(k)
  /\ usage' = Charged(m, own, draw)
  /\ shared' = shared \cup DrawRows(k, draw, now)
  /\ \E members : grants' = ExpireFor(members, now)
  /\ records' = records \cup {[key |-> k, member |-> m, amount |-> amount]}
  /\ requests' = requests

\* What consume() admits is such a charge.
LEMMA ConsumeIsAdmitted ==
  ASSUME LedgerInv, NEW m \in Members, NEW amount \in Amounts, NEW k \in Keys,
         NEW now, Consume(m, amount, k, now)
  PROVE  \E own, draw : AdmittedCharge(m, amount, k, now, own, draw)
<1> DEFINE own       == OwnPortion(m, amount, now)
           shortfall == amount - own
           held      == Held(m, shortfall, now)
<1>1. own \in Nat /\ shortfall \in Nat /\ own =< Available(m, now) /\ amount \in Nat
      /\ (shortfall > 0 => own = Available(m, now))
  <2>1. Available(m, now) \in Nat /\ amount \in Nat
    BY BalanceType, AmountsAssumption DEF LedgerInv
  <2> QED
    BY <2>1 DEF OwnPortion, Least
<1>2. held \in SUBSET grants /\ \A g \in held : g.recipient = m
  BY DEF Held, Received
<1>3. PICK rank \in DrawOrders(held), draw \in [held -> 0..shortfall] :
        /\ GreedyDraw(draw, rank, shortfall, now)
        /\ TotalOf(draw) = shortfall
        /\ usage' = Charged(m, own, draw)
        /\ shared' = shared \cup DrawRows(k, draw, now)
        /\ grants' = ExpireFor({m} \cup Visited(draw, rank, shortfall), now)
  BY DEF Consume
<1>4. ~Recorded(k) /\ requests' = requests
      /\ records' = records \cup {[key |-> k, member |-> m, amount |-> amount]}
  BY DEF Consume
<1> HIDE DEF held, own
<1>5. DrawOn(held, draw) /\ DOMAIN draw = held /\ draw \in [held -> Nat]
  BY <1>1, <1>2, <1>3 DEF DrawOn
<1>6. \A s \in Members : DrawnFrom(s, draw) \in Nat /\ DrawnFrom(s, draw) =< Available(s, now)
  BY <1>1, <1>3, <1>5, DrawnWithinAvailable DEF LedgerInv
<1>7. own + TotalOf(draw) = amount /\ TotalOf(draw) \in Nat
  BY <1>1, <1>3
<1>8. AdmittedCharge(m, amount, k, now, own, draw)
  BY <1>1, <1>2, <1>3, <1>4, <1>5, <1>6, <1>7 DEF AdmittedCharge
<1> QED
  BY <1>8

\* An admitted report moves the reporter's balance, its lenders' balances and
\* the audit rows by the same amounts.
LEMMA ChargeKeepsBalance ==
  ASSUME AuditInv, LedgerInv', NEW m \in Members, NEW amount \in Amounts, NEW k \in Keys,
         NEW now, NEW own, NEW draw, AdmittedCharge(m, amount, k, now, own, draw)
  PROVE  LedgerBalance'
<1> DEFINE held   == DOMAIN draw
           report == [key |-> k, member |-> m, amount |-> amount]
           new    == DrawRows(k, draw, now)
           from(s) == DrawRowsOn(k, draw, now, DrawSource(s, draw))
<1>1. TypeOK /\ TablesFinite /\ GrantIdsUnique /\ DrawsOnGrants
  BY DEF AuditInv, LedgerInv
<1>2. amount \in Nat
  BY AmountsAssumption
<1>3. report \notin records /\ (\A r \in records : r.key # k) /\ (\A s \in shared : s.key # k)
  BY DEF AdmittedCharge, Recorded, AuditInv, DrawsRecorded
<1>4. new = DrawRowsOn(k, draw, now, held)
  BY DEF DrawRows, DrawRowsOn
<1>5. /\ Summable(new) /\ Total(new) = TotalOf(draw)
      /\ \A s \in Members : Summable(from(s)) /\ Total(from(s)) = DrawnFrom(s, draw)
  <2>1. DrawOn(held, draw) /\ draw \in [held -> Nat]
    BY DEF AdmittedCharge
  <2>2. draw = [g \in held |-> draw[g]]
    BY <2>1
  <2>3. Summable(new) /\ Total(new) = TotalOf(draw)
    BY <1>1, <1>4, <2>1, <2>2, DrawRowsTotal
  <2>4. \A s : DrawSource(s, draw) \in SUBSET held
    BY DEF DrawSource
  <2> QED
    BY <1>1, <2>1, <2>3, <2>4, DrawRowsTotal DEF DrawnFrom
<1>6. \A row \in new : /\ row.key = k
                       /\ \E g \in held : draw[g] > 0 /\ row = [key |-> k, grant |-> g.id, amount |-> draw[g], at |-> now]
  BY DEF DrawRows
<1>7. new \cap shared = {}
  BY <1>3, <1>6
<1>8. /\ records' = records \cup {report}
      /\ shared' = shared \cup new
      /\ usage' = Charged(m, own, draw)
  BY DEF AdmittedCharge
<1>9. \A g \in held : g \in grants /\ g.recipient = m
  BY DEF AdmittedCharge, DrawOn
<1>10. \A x : Lent(x)' = Lent(x) \cup from(x)
  <2> SUFFICES ASSUME NEW x PROVE Lent(x)' = Lent(x) \cup from(x)
    OBVIOUS
  <2>1. \A id : (\E h \in grants' : h.id = id /\ h.source = x) <=> (\E g \in grants : g.id = id /\ g.source = x)
    <3>1. PICK members : grants' = ExpireFor(members, now)
      BY DEF AdmittedCharge
    <3>2. PICK f : Carries(f, grants')
      BY <1>1, <3>1, ExpiryCarries
    <3> QED
      BY <1>1, <3>2, CarriedTable, SMTT(20)
  <2>2. Lent(x)' = { s \in shared' : \E h \in grants' : h.id = s.grant /\ h.source = x }
    BY DEF Lent
  <2>3. \A row : row \in from(x) <=> row \in new /\ \E g \in grants : g.id = row.grant /\ g.source = x
    <3>1. \A row : row \in from(x) <=>
            \E g \in held : g.source = x /\ draw[g] > 0 /\ row = [key |-> k, grant |-> g.id, amount |-> draw[g], at |-> now]
      BY DEF DrawRowsOn, DrawSource
    <3>2. \A row : row \in new <=>
            \E g \in held : draw[g] > 0 /\ row = [key |-> k, grant |-> g.id, amount |-> draw[g], at |-> now]
      BY DEF DrawRows
    <3> HIDE DEF from, new, held
    <3> QED
      BY <1>1, <1>9, <3>1, <3>2 DEF GrantIdsUnique
  <2> HIDE DEF from, new
  <2> QED
    BY <1>8, <2>1, <2>2, <2>3 DEF Lent
<1>11. \A x : from(x) \subseteq new
  BY DEF DrawRowsOn, DrawSource, DrawRows
<1> HIDE DEF held, report, new, from
<1>12. \A x \in Members : Total(Lent(x)') = Total(Lent(x)) + DrawnFrom(x, draw)
  <2> SUFFICES ASSUME NEW x \in Members PROVE Total(Lent(x)') = Total(Lent(x)) + DrawnFrom(x, draw)
    OBVIOUS
  <2>1. Summable(Lent(x)) /\ Lent(x) \subseteq shared
    BY <1>1, RowsSummable DEF Lent
  <2>2. Lent(x) \cap from(x) = {}
    BY <1>7, <1>11, <2>1
  <2> QED
    BY <1>5, <1>10, <2>1, <2>2, TotalDisjointUnion
<1>13. report.key = k /\ report.member = m /\ report.amount = amount
  BY DEF report
<1>14. \A x : Mine(x)' = IF x = m THEN Mine(x) \cup {report} ELSE Mine(x)
  BY <1>8, <1>13 DEF Mine
<1>15. \A x : Total(Mine(x)') = IF x = m THEN Total(Mine(x)) + amount ELSE Total(Mine(x))
  <2>1. Summable(Mine(m)) /\ report \notin Mine(m)
    BY <1>1, <1>3, RowsSummable DEF Mine, report
  <2>2. Total(Mine(m) \cup {report}) = Total(Mine(m)) + amount
    BY <1>2, <1>13, <2>1, TotalAdd
  <2> QED
    BY <1>14, <2>2
<1>16. \A x : Borrowed(x)' = IF x = m THEN Borrowed(x) \cup new ELSE Borrowed(x)
  <2> SUFFICES ASSUME NEW x PROVE Borrowed(x)' = IF x = m THEN Borrowed(x) \cup new ELSE Borrowed(x)
    OBVIOUS
  <2>1. \A r \in Mine(x) : r.key # k
    BY <1>3 DEF Mine
  <2>2. Borrowed(x)' = { s \in shared' : \E r \in Mine(x)' : r.key = s.key }
    BY DEF Borrowed
  <2>3. Borrowed(x) = { s \in shared : \E r \in Mine(x) : r.key = s.key }
    BY DEF Borrowed
  <2> QED
    BY <1>3, <1>6, <1>8, <1>13, <1>14, <2>1, <2>2, <2>3
<1>17. \A x : Total(Borrowed(x)') = IF x = m THEN Total(Borrowed(x)) + TotalOf(draw) ELSE Total(Borrowed(x))
  <2>1. Summable(Borrowed(m)) /\ Borrowed(m) \cap new = {}
    BY <1>1, <1>7, RowsSummable DEF Borrowed
  <2>2. Total(Borrowed(m) \cup new) = Total(Borrowed(m)) + TotalOf(draw)
    BY <1>5, <2>1, TotalDisjointUnion
  <2> QED
    BY <1>16, <2>2
<1>18. DrawnFrom(m, draw) = 0
  <2>1. \A g \in DOMAIN draw : g.source # m
    BY <1>9 DEF AuditInv, NobodyLendsToItself, held
  <2>2. [g \in DrawSource(m, draw) |-> draw[g]] \in [{} -> Nat] /\ DrawSource(m, draw) = {}
    BY <2>1 DEF DrawSource
  <2> QED
    BY <2>2, FS_EmptySet, TotalOfZeros DEF DrawnFrom
<1>19. ASSUME NEW x \in Members
       PROVE  usage'[x] = Total(Mine(x)') - Total(Borrowed(x)') + Total(Lent(x)')
  <2>1. usage[x] = Total(Mine(x)) - Total(Borrowed(x)) + Total(Lent(x))
    BY BalanceOfRows DEF AuditInv
  <2>2. /\ Total(Mine(x)) \in Nat /\ Total(Borrowed(x)) \in Nat /\ Total(Lent(x)) \in Nat
        /\ own \in Nat /\ TotalOf(draw) \in Nat /\ own + TotalOf(draw) = amount
        /\ DrawnFrom(x, draw) \in Nat
    BY <1>1, RowsSummable DEF AdmittedCharge
  <2>3. usage'[x] = IF x = m THEN usage[x] + own ELSE usage[x] + DrawnFrom(x, draw)
    BY <1>8 DEF Charged
  <2>4. CASE x = m
    BY <1>2, <1>12, <1>15, <1>17, <1>18, <2>1, <2>2, <2>3, <2>4
  <2>5. CASE x # m
    BY <1>12, <1>15, <1>17, <2>1, <2>2, <2>3, <2>5
  <2> QED
    BY <2>4, <2>5
<1> QED
  BY <1>19 DEF LedgerBalance, Mine, Borrowed, Lent

\* What each member's window shows after an admitted report: never more than
\* its guaranteed units where the report raised it.
LEMMA ChargeWithinGuarantee ==
  ASSUME TypeOK, TablesFinite, NEW m \in Members, NEW amount \in Amounts, NEW k \in Keys,
         NEW now, NEW own, NEW draw, AdmittedCharge(m, amount, k, now, own, draw),
         NEW s \in Members
  PROVE  /\ usage'[s] \in Nat
         /\ usage'[s] = usage[s] \/ (usage'[s] > usage[s] /\ usage'[s] =< Guaranteed(s, now))
<1>1. usage[s] \in Nat /\ Guaranteed(s, now) \in Int
  BY BalanceType DEF TypeOK
<1>2. own \in Nat /\ own =< Available(m, now) /\ DrawnFrom(s, draw) \in Nat /\ DrawnFrom(s, draw) =< Available(s, now)
  BY DEF AdmittedCharge
<1>3. usage'[s] = IF s = m THEN usage[s] + own ELSE usage[s] + DrawnFrom(s, draw)
  BY DEF AdmittedCharge, Charged
<1>4. (own > 0 /\ s = m => usage[s] + own =< Guaranteed(s, now))
      /\ (DrawnFrom(s, draw) > 0 => usage[s] + DrawnFrom(s, draw) =< Guaranteed(s, now))
  BY <1>2, ChargeWithinAvailable
<1> QED
  BY <1>1, <1>2, <1>3, <1>4

\* An admitted report keeps the books.
LEMMA ConsumeKeepsAudit ==
  ASSUME AuditInv, NEW m \in Members, NEW amount \in Amounts, NEW k \in Keys,
         NEW now \in CallTimes, Consume(m, amount, k, now)
  PROVE  AuditInv'
<1>1. LedgerInv'
  BY ConsumePreserves DEF AuditInv
<1>2. TypeOK /\ TablesFinite /\ GrantIdsUnique
  BY DEF AuditInv, LedgerInv
<1>3. PICK own, draw : AdmittedCharge(m, amount, k, now, own, draw)
  BY ConsumeIsAdmitted DEF AuditInv
<1>4. LedgerBalance'
  BY <1>1, <1>3, ChargeKeepsBalance
<1>5. PICK members : grants' = ExpireFor(members, now)
  BY <1>3 DEF AdmittedCharge
<1>6. PICK f : Carries(f, grants')
  BY <1>2, <1>5, ExpiryCarries
<1>7. /\ \A x : Total({ h \in grants' : h.recipient = x /\ h.type = "SOLID" }) = Total(SolidTo(x))
      /\ \A src, rcp, a, type :
           Cardinality({ h \in grants' : h.source = src /\ h.recipient = rcp /\ h.amount = a /\ h.type = type })
             = Cardinality(GrantedOn(src, rcp, a, type))
      /\ \A h \in grants' : h.source # h.recipient \/ \E g \in grants : g.source = g.recipient
  BY <1>2, <1>6, CarriedTable
<1>8. UsageWithinEntitlement'
  <2> SUFFICES ASSUME NEW s \in Members PROVE usage'[s] =< Base[s] + Total(SolidTo(s)')
    BY DEF UsageWithinEntitlement, SolidTo
  <2>1. SolidTo(s)' = { h \in grants' : h.recipient = s /\ h.type = "SOLID" }
    BY DEF SolidTo
  <2>2. Total(SolidTo(s)') = Total(SolidTo(s))
    BY <1>7, <2>1
  <2>3. usage[s] =< Base[s] + Total(SolidTo(s)) /\ usage[s] \in Nat /\ Total(SolidTo(s)) \in Nat
    BY <1>2, EntitlementOfRows, RowsSummable DEF AuditInv, TypeOK
  <2>4. usage'[s] \in Nat /\ (usage'[s] = usage[s] \/ usage'[s] =< Guaranteed(s, now))
    BY <1>2, <1>3, ChargeWithinGuarantee
  <2>5. Guaranteed(s, now) =< Base[s] + Total(SolidTo(s)) /\ Guaranteed(s, now) \in Int
    <3>1. 0 \in Nat /\ 0 =< Available(s, now)
      BY <1>2, BalanceType
    <3> QED
      BY <1>2, <3>1, ChargeWithinAvailable, BalanceType
  <2> QED
    BY <2>2, <2>3, <2>4, <2>5, BaseAssumption
<1>9. GrantsMatchApprovals'
  <2> SUFFICES ASSUME NEW src \in Members, NEW rcp \in Members, NEW a \in Amounts, NEW type \in Types
               PROVE  Cardinality(ApprovedOn(src, rcp, a, type)') = Cardinality(GrantedOn(src, rcp, a, type)')
    BY DEF GrantsMatchApprovals, ApprovedOn, GrantedOn
  <2>1. GrantedOn(src, rcp, a, type)'
          = { h \in grants' : h.source = src /\ h.recipient = rcp /\ h.amount = a /\ h.type = type }
    BY DEF GrantedOn
  <2>2. ApprovedOn(src, rcp, a, type)' = ApprovedOn(src, rcp, a, type)
    BY <1>3 DEF ApprovedOn, AdmittedCharge
  <2> QED
    BY <1>7, <2>1, <2>2, MatchOfRows DEF AuditInv
<1>10. RequestIdsUnique' /\ NobodyLendsToItself'
  BY <1>3, <1>7 DEF AdmittedCharge, AuditInv, RequestIdsUnique, NobodyLendsToItself
<1>11. KeysUnique'
  BY <1>3 DEF AdmittedCharge, AuditInv, KeysUnique, Recorded
<1>12. DrawsRecorded'
  <2>1. \A s \in DrawRows(k, draw, now) : s.key = k
    BY DEF DrawRows
  <2> QED
    BY <1>3, <2>1 DEF AdmittedCharge, AuditInv, DrawsRecorded
<1> QED
  BY <1>1, <1>4, <1>8, <1>9, <1>10, <1>11, <1>12 DEF AuditInv

-----------------------------------------------------------------------------
(* The theorems.                                                           *)

\* No call breaks the invariant.
LEMMA NextKeepsAudit == AuditInv /\ [Next]_vars => AuditInv'
<1> SUFFICES ASSUME AuditInv, [Next]_vars PROVE AuditInv'
  OBVIOUS
<1>1. ASSUME UNCHANGED <<usage, requests, grants, records, shared>>, LedgerInv'
      PROVE  AuditInv'
  <2>1. RequestIdsUnique' /\ (\A r \in requests' : r.requester # r.target)
        /\ { r \in requests' : r.status = "APPROVED" } = { r \in requests : r.status = "APPROVED" }
    BY <1>1 DEF AuditInv, RequestIdsUnique, NobodyLendsToItself
  <2> QED
    BY <1>1, <2>1, RequestsOnlyPreserve
<1>2. CASE Tick \/ UNCHANGED vars
  <2>1. LedgerInv'
    BY <1>2, NextPreserves DEF AuditInv, Next
  <2> QED
    BY <1>1, <1>2, <2>1 DEF Tick, vars
<1>3. ASSUME NEW m \in Members, NEW target \in Members, NEW a \in Amounts, NEW type \in Types,
             RequestCapacity(m, target, a, type)
      PROVE  AuditInv'
  BY <1>3, RequestCapacityKeepsAudit
<1>4. ASSUME NEW r \in requests, NEW actor \in Members, NEW now \in CallTimes,
             ApproveRequest(r, actor, now)
      PROVE  AuditInv'
  BY <1>4, ApproveRequestKeepsAudit
<1>5. ASSUME NEW r \in requests, NEW actor \in Members, RejectRequest(r, actor)
      PROVE  AuditInv'
  BY <1>5, RejectRequestKeepsAudit
<1>6. ASSUME NEW g \in grants, NEW actor \in Members, RevokeGrant(g, actor)
      PROVE  AuditInv'
  BY <1>6, RevokeGrantKeepsAudit
<1>7. ASSUME NEW m \in Members, NEW a \in Amounts, NEW k \in Keys, NEW now \in CallTimes,
             Consume(m, a, k, now)
      PROVE  AuditInv'
  BY <1>7, ConsumeKeepsAudit
<1>8. ASSUME NEW m \in Members, NEW a \in Amounts, NEW k \in Keys, NEW now \in CallTimes,
             ConsumeReplay(m, a, k, now)
      PROVE  AuditInv'
  BY <1>8, ExpiryOnlyKeepsAudit DEF ConsumeReplay
<1>9. ASSUME NEW m \in Members, NEW now \in CallTimes, Summarise(m, now)
      PROVE  AuditInv'
  BY <1>9, ExpiryOnlyKeepsAudit DEF Summarise
<1> QED
  BY <1>2, <1>3, <1>4, <1>5, <1>6, <1>7, <1>8, <1>9 DEF Next

\* The windows, the grants and the requests agree with the records they come
\* from, for every pool and any interleaving of calls.
THEOREM AuditInvariant == Spec => []AuditInv
  BY InitEstablishesAudit, NextKeepsAudit, PTL DEF Spec

\* A member's stored usage is exactly what the audit trail says.
THEOREM BooksBalance == Spec => []LedgerBalance
<1>1. AuditInv => LedgerBalance
  BY DEF AuditInv
<1> QED
  BY <1>1, AuditInvariant, PTL

\* A member is never charged beyond its allocation and the SOLID units it was
\* ever granted.
THEOREM ChargesWithinEntitlement == Spec => []UsageWithinEntitlement
<1>1. AuditInv => UsageWithinEntitlement
  BY DEF AuditInv
<1> QED
  BY <1>1, AuditInvariant, PTL

\* Approvals and grants match one to one on their terms.
THEOREM OneGrantPerApproval == Spec => []GrantsMatchApprovals
<1>1. AuditInv => GrantsMatchApprovals
  BY DEF AuditInv
<1> QED
  BY <1>1, AuditInvariant, PTL

\* The borrower's own units go first, and no charge raises a balance above
\* what its member is guaranteed.
THEOREM OwnersComeFirst == Spec => OwnerPriority
<1> DEFINE Priority ==
      \A r \in records' \ records : \E now \in CallTimes :
        /\ \A s \in Members : usage'[s] > usage[s] => usage'[s] =< Guaranteed(s, now)
        /\ (\E s \in Members \ {r.member} : usage'[s] > usage[s])
             => usage'[r.member] >= Guaranteed(r.member, now)
<1>1. ASSUME AuditInv, Next PROVE Priority
  <2>1. ASSUME NEW m \in Members, NEW amount \in Amounts, NEW k \in Keys, NEW now \in CallTimes,
               Consume(m, amount, k, now)
        PROVE  Priority
    <3>1. LedgerInv /\ TypeOK /\ TablesFinite
      BY <1>1 DEF AuditInv, LedgerInv
    <3>2. PICK own, draw : AdmittedCharge(m, amount, k, now, own, draw)
      BY <2>1, <3>1, ConsumeIsAdmitted
    <3>3. \A r \in records' \ records : r.member = m
      BY <3>2 DEF AdmittedCharge
    <3>4. \A s \in Members : usage'[s] > usage[s] => usage'[s] =< Guaranteed(s, now)
      <4> SUFFICES ASSUME NEW s \in Members, usage'[s] > usage[s] PROVE usage'[s] =< Guaranteed(s, now)
        OBVIOUS
      <4>1. usage'[s] \in Nat /\ usage[s] \in Nat
            /\ (usage'[s] = usage[s] \/ (usage'[s] > usage[s] /\ usage'[s] =< Guaranteed(s, now)))
        BY <3>1, <3>2, ChargeWithinGuarantee DEF TypeOK
      <4> QED
        BY <4>1
    <3>5. ASSUME NEW s \in Members \ {m}, usage'[s] > usage[s]
          PROVE  usage'[m] >= Guaranteed(m, now)
      <4>1. usage'[s] = usage[s] + DrawnFrom(s, draw) /\ usage'[m] = usage[m] + own
        BY <3>2 DEF AdmittedCharge, Charged
      <4>2. DrawnFrom(s, draw) \in Nat /\ usage[s] \in Nat /\ own \in Nat /\ TotalOf(draw) \in Nat
        BY <3>1, <3>2 DEF AdmittedCharge, TypeOK
      <4>3. DrawnFrom(s, draw) > 0
        BY <3>5, <4>1, <4>2
      <4>4. TotalOf(draw) > 0
        <5>1. CASE TotalOf(draw) = 0
          <6>1. draw \in [DOMAIN draw -> Nat] /\ IsFiniteSet(DOMAIN draw) /\ DrawSource(s, draw) \in SUBSET DOMAIN draw
            BY <3>1, <3>2, FS_Subset DEF AdmittedCharge, DrawOn, TablesFinite, DrawSource
          <6>2. ASSUME NEW g \in DOMAIN draw PROVE draw[g] = 0
            <7>1. draw[g] =< TotalOf(draw) /\ draw[g] \in Nat
              BY <6>1, TotalOfMember
            <7> QED
              BY <5>1, <7>1
          <6>3. DrawnFrom(s, draw) = 0
            <7>1. IsFiniteSet(DrawSource(s, draw))
              BY <6>1, FS_Subset
            <7>2. [g \in DrawSource(s, draw) |-> draw[g]] \in [DrawSource(s, draw) -> Nat]
              BY <6>1
            <7> QED
              BY <6>1, <6>2, <7>1, <7>2, TotalOfZeros DEF DrawnFrom
          <6> QED
            BY <4>3, <6>3
        <5> QED
          BY <4>2, <5>1
      <4>5. own = Available(m, now)
        BY <3>2, <4>4 DEF AdmittedCharge
      <4>6. usage[m] + own >= Guaranteed(m, now)
        BY <3>1, <4>2, <4>5, ChargeWithinAvailable, BalanceType
      <4> QED
        BY <4>1, <4>6
    <3> QED
      BY <3>3, <3>4, <3>5
  <2>2. CASE ~ \E m \in Members, a \in Amounts, k \in Keys, now \in CallTimes : Consume(m, a, k, now)
    <3>1. records' = records
      BY <1>1, <2>2 DEF Next, Tick, RequestCapacity, ApproveRequest, RejectRequest, RevokeGrant,
                        ConsumeReplay, Summarise
    <3> QED
      BY <3>1
  <2> QED
    BY <2>1, <2>2
<1>2. AuditInv /\ [Next]_vars => [Priority]_vars
  BY <1>1
<1> HIDE DEF Priority
<1>3. Spec => [][Priority]_vars
  BY <1>2, AuditInvariant, PTL DEF Spec
<1> QED
  BY <1>3 DEF OwnerPriority, Priority

-----------------------------------------------------------------------------
(* Conservation.                                                           *)

\* At any one clock reading the members' guaranteed units add up to what the
\* pool was allotted.
LEMMA GuaranteesAddUp ==
  ASSUME LedgerInv, NEW now
  PROVE  TotalOf([m \in Members |-> Guaranteed(m, now)]) = TotalOf(Base)
<1> DEFINE live       == { g \in grants : g.type = "SOLID" /\ Usable(g, now) }
           guaranteed == [m \in Members |-> Guaranteed(m, now)]
           given      == [m \in Members |-> Total(Sent(m, "SOLID", now))]
           got        == [m \in Members |-> Total(Received(m, "SOLID", now))]
           sum        == [m \in Members |-> Guaranteed(m, now) + Total(Sent(m, "SOLID", now))]
           sentBy     == [m \in Members |-> Sent(m, "SOLID", now)]
           receivedBy == [m \in Members |-> Received(m, "SOLID", now)]
<1>1. IsFiniteSet(Members)
  BY MembersAssumption
<1>2. Summable(live)
  BY GrantsSummable DEF LedgerInv
<1>3. \A g \in live : g.source \in Members /\ g.recipient \in Members
  BY DEF LedgerInv, TypeOK, Grants
<1>4. given \in [Members -> Nat] /\ TotalOf(given) = Total(live)
  <2>1. /\ sentBy \in [Members -> SUBSET live]
        /\ \A g \in live : \E m \in Members : g \in sentBy[m]
        /\ \A x, y \in Members : x # y => sentBy[x] \cap sentBy[y] = {}
        /\ given = [m \in Members |-> Total(sentBy[m])]
    BY <1>3 DEF Sent
  <2> HIDE DEF live, given, sentBy
  <2> QED
    BY <1>1, <1>2, <2>1, TotalPartition
<1>5. got \in [Members -> Nat] /\ TotalOf(got) = Total(live)
  <2>1. /\ receivedBy \in [Members -> SUBSET live]
        /\ \A g \in live : \E m \in Members : g \in receivedBy[m]
        /\ \A x, y \in Members : x # y => receivedBy[x] \cap receivedBy[y] = {}
        /\ got = [m \in Members |-> Total(receivedBy[m])]
    BY <1>3 DEF Received
  <2> HIDE DEF live, got, receivedBy
  <2> QED
    BY <1>1, <1>2, <2>1, TotalPartition
<1>6. guaranteed \in [Members -> Nat] /\ sum \in [Members -> Nat]
  BY <1>4, GuaranteedIsNatural
<1>7. \A m \in Members : sum[m] = guaranteed[m] + given[m] /\ sum[m] = Base[m] + got[m]
  <2> SUFFICES ASSUME NEW m \in Members
               PROVE  sum[m] = guaranteed[m] + given[m] /\ sum[m] = Base[m] + got[m]
    OBVIOUS
  <2>1. Total(Sent(m, "SOLID", now)) \in Nat /\ Total(Received(m, "SOLID", now)) \in Nat /\ Base[m] \in Nat
    BY <1>4, <1>5, BaseAssumption
  <2> QED
    BY <2>1 DEF Guaranteed
<1> HIDE DEF guaranteed, given, got, sum, live
<1>8. TotalOf(sum) = TotalOf(guaranteed) + TotalOf(given)
  BY <1>1, <1>4, <1>6, <1>7, TotalOfSum
<1>9. TotalOf(sum) = TotalOf(Base) + TotalOf(got)
  BY <1>1, <1>5, <1>6, <1>7, BaseAssumption, TotalOfSum
<1>10. TotalOf(guaranteed) \in Nat /\ TotalOf(Base) \in Nat /\ Total(live) \in Nat
  BY <1>1, <1>2, <1>6, BaseAssumption, TotalOfType, TotalType
<1>11. TotalOf(guaranteed) = TotalOf(Base)
  BY <1>4, <1>5, <1>8, <1>9, <1>10
<1> QED
  BY <1>11 DEF guaranteed

\* SOLID grants move guaranteed units around the pool and create none.
THEOREM GuaranteesConserved == Spec => []GuaranteeConserved
<1>1. LedgerInv => GuaranteeConserved
  BY GuaranteesAddUp DEF GuaranteeConserved
<1> QED
  BY <1>1, LedgerInvariant, PTL

\* No member is ever guaranteed more than the whole pool was allotted.
LEMMA GuaranteeWithinPool ==
  ASSUME LedgerInv, NEW m \in Members, NEW now
  PROVE  Guaranteed(m, now) =< TotalOf(Base)
<1> DEFINE guaranteed == [s \in Members |-> Guaranteed(s, now)]
<1>1. guaranteed \in [Members -> Nat]
  BY GuaranteedIsNatural
<1>2. guaranteed[m] =< TotalOf(guaranteed)
  BY <1>1, MembersAssumption, TotalOfMember
<1> QED
  BY <1>2, GuaranteesAddUp

-----------------------------------------------------------------------------
(* The engine implements the promise made to the pool.                     *)

\* Who pays how much of an admitted report.
Split(m, own, draw) ==
  [s \in Members |-> IF s = m THEN own ELSE DrawnFrom(s, draw)]

\* Grouped by lender, the draws add up to all that was drawn.
LEMMA DrawsByLender ==
  ASSUME TypeOK, TablesFinite, GrantIdsUnique, NEW draw,
         DrawOn(DOMAIN draw, draw), draw \in [DOMAIN draw -> Nat],
         NEW perLender, perLender = [s \in Members |-> DrawnFrom(s, draw)]
  PROVE  perLender \in [Members -> Nat] /\ TotalOf(perLender) = TotalOf(draw)
<1> DEFINE held == DOMAIN draw
           rows == DrawRowsOn("report", draw, 0, held)
           part == [s \in Members |-> DrawRowsOn("report", draw, 0, DrawSource(s, draw))]
<1>1. Summable(rows) /\ Total(rows) = TotalOf(draw)
  <2>1. draw = [g \in held |-> draw[g]]
    OBVIOUS
  <2> QED
    BY <2>1, DrawRowsTotal
<1>2. \A s \in Members : Total(part[s]) = perLender[s]
  <2>1. \A s : DrawSource(s, draw) \in SUBSET held
    BY DEF DrawSource
  <2> QED
    BY <2>1, DrawRowsTotal DEF DrawnFrom
<1>3. /\ \A row : row \in rows <=> \E g \in held : draw[g] > 0 /\ row = [key |-> "report", grant |-> g.id, amount |-> draw[g], at |-> 0]
      /\ \A s \in Members : \A row :
           row \in part[s] <=> \E g \in held : g.source = s /\ draw[g] > 0
                                                /\ row = [key |-> "report", grant |-> g.id, amount |-> draw[g], at |-> 0]
  BY DEF DrawRowsOn, DrawSource
<1>4. \A g \in held : g \in grants /\ g.source \in Members
  BY DEF DrawOn, TypeOK, Grants
<1>5. perLender = [s \in Members |-> Total(part[s])]
  BY <1>2
<1>6. part \in [Members -> SUBSET rows]
  <2>1. \A s \in Members : part[s] \in SUBSET rows
    BY <1>3
  <2> QED
    BY <2>1
<1> HIDE DEF rows, part, held
<1>7. \A row \in rows : \E s \in Members : row \in part[s]
  BY <1>3, <1>4
<1>8. \A x, y \in Members : x # y => part[x] \cap part[y] = {}
  <2> SUFFICES ASSUME NEW x \in Members, NEW y \in Members, NEW row, row \in part[x], row \in part[y]
               PROVE  x = y
    OBVIOUS
  <2>1. PICK g \in held : g.source = x /\ row.grant = g.id
    BY <1>3
  <2>2. PICK h \in held : h.source = y /\ row.grant = h.id
    BY <1>3
  <2> QED
    BY <1>4, <2>1, <2>2 DEF GrantIdsUnique
<1> QED
  BY <1>1, <1>5, <1>6, <1>7, <1>8, MembersAssumption, TotalPartition

\* Nothing of the report is lost or charged twice.
LEMMA SplitAddsUp ==
  ASSUME AuditInv, NEW m \in Members, NEW amount \in Amounts, NEW k \in Keys,
         NEW now, NEW own, NEW draw, AdmittedCharge(m, amount, k, now, own, draw)
  PROVE  /\ Split(m, own, draw) \in [Members -> 0..amount]
         /\ TotalOf(Split(m, own, draw)) = amount
<1> DEFINE mine   == [s \in Members |-> IF s = m THEN own ELSE 0]
           theirs == [s \in Members |-> DrawnFrom(s, draw)]
           split  == Split(m, own, draw)
<1>1. TypeOK /\ TablesFinite /\ GrantIdsUnique /\ IsFiniteSet(Members) /\ amount \in Nat
  BY MembersAssumption, AmountsAssumption DEF AuditInv, LedgerInv
<1>2. /\ own \in Nat /\ TotalOf(draw) \in Nat /\ own + TotalOf(draw) = amount
      /\ DrawOn(DOMAIN draw, draw) /\ draw \in [DOMAIN draw -> Nat]
      /\ \A g \in DOMAIN draw : g.recipient = m
      /\ \A s \in Members : DrawnFrom(s, draw) \in Nat
  BY DEF AdmittedCharge
<1>3. theirs \in [Members -> Nat] /\ TotalOf(theirs) = TotalOf(draw)
  BY <1>1, <1>2, DrawsByLender
<1>4. DrawnFrom(m, draw) = 0
  <2>1. DrawSource(m, draw) = {}
    BY <1>2 DEF AuditInv, NobodyLendsToItself, DrawOn, DrawSource
  <2>2. [g \in DrawSource(m, draw) |-> draw[g]] \in [{} -> Nat]
    BY <2>1
  <2> QED
    BY <2>1, <2>2, FS_EmptySet, TotalOfZeros DEF DrawnFrom
<1>5. mine \in [Members -> Nat] /\ TotalOf(mine) = own
  <2> DEFINE row == [of |-> m, amount |-> own]
  <2>1. mine \in [Members -> Nat]
    BY <1>2
  <2>2. Summable(RowsOf(mine)) /\ TotalOf(mine) = Total(RowsOf(mine))
    BY <1>1, <2>1, RowsOfFunction
  <2>3. {row} \in SUBSET RowsOf(mine) /\ \A r \in RowsOf(mine) : r.amount > 0 => r \in {row}
    BY DEF RowsOf
  <2>4. row.amount = own
    OBVIOUS
  <2> HIDE DEF mine, row
  <2>5. Total({row}) = own
    BY <1>2, <2>4, TotalSingleton
  <2> QED
    BY <2>1, <2>2, <2>3, <2>5, TotalWithoutZeros
<1>6. split \in [Members -> Nat] /\ \A s \in Members : split[s] = mine[s] + theirs[s]
  BY <1>2, <1>4 DEF Split
<1> HIDE DEF mine, theirs, split
<1>7. TotalOf(split) = amount
  BY <1>1, <1>2, <1>3, <1>5, <1>6, TotalOfSum
<1>8. \A s \in Members : split[s] \in 0..amount
  BY <1>1, <1>6, <1>7, TotalOfMember
<1>9. split \in [Members -> 0..amount]
  BY <1>6, <1>8
<1> QED
  BY <1>7, <1>9 DEF split

\* The promise adds up as the engine does.
LEMMA SameSums == \A f : Promise!TotalOf(f) = TotalOf(f)
BY DEF Promise!TotalOf, Promise!Total, Promise!Units, Promise!Cardinality, TotalOf, Total, Units, Cardinality

\* An admitted report is a charge of the promise.
LEMMA ConsumeIsCharge ==
  ASSUME AuditInv, NEW m \in Members, NEW amount \in Amounts, NEW k \in Keys,
         NEW now, Consume(m, amount, k, now)
  PROVE  Promise!Charge(k, m, amount)
<1>1. LedgerInv /\ TypeOK /\ TablesFinite /\ GrantIdsUnique
  BY DEF AuditInv, LedgerInv
<1>2. PICK own, draw : AdmittedCharge(m, amount, k, now, own, draw)
  BY <1>1, ConsumeIsAdmitted
<1> DEFINE split == Split(m, own, draw)
<1>3. split \in [Members -> 0..amount] /\ TotalOf(split) = amount
  BY <1>2, SplitAddsUp
<1>4. ASSUME NEW s \in Members, split[s] > 0
      PROVE  /\ s = m \/ <<s, m>> \in { <<g.source, g.recipient>> : g \in grants }
             /\ usage[s] + split[s] =< TotalOf(Base)
  <2>1. split[s] = IF s = m THEN own ELSE DrawnFrom(s, draw)
    BY DEF Split
  <2>2. /\ own \in Nat /\ own =< Available(m, now)
        /\ DrawnFrom(s, draw) \in Nat /\ DrawnFrom(s, draw) =< Available(s, now)
        /\ DrawOn(DOMAIN draw, draw)
        /\ \A g \in DOMAIN draw : g.recipient = m
    BY <1>2 DEF AdmittedCharge
  <2>3. split[s] \in Nat /\ split[s] =< Available(s, now)
    BY <2>1, <2>2
  <2>4. usage[s] + split[s] =< Guaranteed(s, now)
    BY <1>1, <1>4, <2>3, ChargeWithinAvailable
  <2>5. usage[s] + split[s] =< TotalOf(Base)
    <3>1. Guaranteed(s, now) =< TotalOf(Base) /\ Guaranteed(s, now) \in Nat
      BY <1>1, GuaranteeWithinPool, GuaranteedIsNatural
    <3>2. TotalOf(Base) \in Nat /\ usage[s] \in Nat
      BY <1>1, MembersAssumption, BaseAssumption, TotalOfType DEF TypeOK
    <3> QED
      BY <2>3, <2>4, <3>1, <3>2
  <2>6. ASSUME s # m PROVE <<s, m>> \in { <<g.source, g.recipient>> : g \in grants }
    <3>1. DrawSource(s, draw) # {}
      <4>1. CASE DrawSource(s, draw) = {}
        <5>1. [g \in DrawSource(s, draw) |-> draw[g]] \in [{} -> Nat]
          BY <4>1
        <5>2. DrawnFrom(s, draw) = 0
          BY <4>1, <5>1, FS_EmptySet, TotalOfZeros DEF DrawnFrom
        <5> QED
          BY <1>4, <2>1, <2>6, <5>2
      <4> QED
        BY <4>1
    <3>2. PICK g \in DrawSource(s, draw) : TRUE
      BY <3>1
    <3> QED
      BY <2>2, <3>2 DEF DrawSource, DrawOn
  <2> QED
    BY <2>5, <2>6
<1>5. usage' = [s \in Members |-> usage[s] + split[s]]
  BY <1>2 DEF AdmittedCharge, Charged, Split
<1>6. \A r \in records : r.key # k
  BY <1>2 DEF AdmittedCharge, Recorded
<1>7. records' = records \cup {[key |-> k, member |-> m, amount |-> amount]}
  BY <1>2 DEF AdmittedCharge
<1>8. { <<g.source, g.recipient>> : g \in grants' } = { <<g.source, g.recipient>> : g \in grants }
  <2>1. PICK members : grants' = ExpireFor(members, now)
    BY <1>2 DEF AdmittedCharge
  <2>2. PICK f : Carries(f, grants')
    BY <1>1, <2>1, ExpiryCarries
  <2> QED
    BY <1>1, <2>2, CarriedTable
<1> HIDE DEF split
<1> QED
  BY <1>3, <1>4, <1>5, <1>6, <1>7, <1>8, SameSums DEF Promise!Charge

\* Approving is consenting.
LEMMA ApproveIsConsent ==
  ASSUME LedgerInv, NEW r \in requests, NEW actor, NEW now, ApproveRequest(r, actor, now)
  PROVE  r.target \in Members /\ r.requester \in Members /\ Promise!Consent(r.target, r.requester)
<1> DEFINE kept  == ExpireFor({r.target}, now)
           grant == [id |-> FreshId(grants), source |-> r.target, recipient |-> r.requester,
                     amount |-> r.amount, type |-> r.type, status |-> "ACTIVE",
                     created |-> now, expires |-> ResetAt[r.target]]
<1>1. grants' = kept \cup {grant} /\ UNCHANGED <<usage, records>>
  BY DEF ApproveRequest
<1>2. grant.source = r.target /\ grant.recipient = r.requester
  OBVIOUS
<1>3. PICK f : Carries(f, kept)
  BY ExpiryCarries DEF LedgerInv
<1> HIDE DEF kept, grant
<1>4. { <<h.source, h.recipient>> : h \in kept } = { <<g.source, g.recipient>> : g \in grants }
  BY <1>3, CarriedTable DEF LedgerInv
<1>5. { <<h.source, h.recipient>> : h \in grants' }
        = { <<g.source, g.recipient>> : g \in grants } \cup {<<r.target, r.requester>>}
  BY <1>1, <1>2, <1>4
<1> QED
  BY <1>1, <1>5 DEF Promise!Consent, LedgerInv, TypeOK, Requests

\* A step that only carries the grants is none of the promise's.
LEMMA CarryIsStutter ==
  ASSUME LedgerInv, UNCHANGED <<usage, records>>, NEW f, Carries(f, grants')
  PROVE  UNCHANGED Promise!vars
<1>1. { <<h.source, h.recipient>> : h \in grants' } = { <<g.source, g.recipient>> : g \in grants }
  BY CarriedTable DEF LedgerInv
<1> QED
  BY <1>1 DEF Promise!vars

\* Every step of the engine is a step of the promise or none of its business.
LEMMA StepKeepsPromise ==
  ASSUME AuditInv, [Next]_vars
  PROVE  [Promise!Next]_(Promise!vars)
<1>1. LedgerInv /\ TypeOK /\ TablesFinite /\ GrantIdsUnique
  BY DEF AuditInv, LedgerInv
<1>2. CASE UNCHANGED <<usage, grants, records>>
  BY <1>2 DEF Promise!vars
<1>3. ASSUME NEW r \in requests, NEW actor \in Members, NEW now \in CallTimes,
             ApproveRequest(r, actor, now)
      PROVE  Promise!Next
  BY <1>1, <1>3, ApproveIsConsent DEF Promise!Next
<1>4. ASSUME NEW g \in grants, NEW actor \in Members, RevokeGrant(g, actor)
      PROVE  UNCHANGED Promise!vars
  <2>1. \E f : Carries(f, grants')
    BY <1>1, <1>4, StatusCarries DEF RevokeGrant
  <2> QED
    BY <1>1, <1>4, <2>1, CarryIsStutter DEF RevokeGrant
<1>5. ASSUME NEW m \in Members, NEW a \in Amounts, NEW k \in Keys, NEW now \in CallTimes,
             Consume(m, a, k, now)
      PROVE  Promise!Next
  BY <1>5, ConsumeIsCharge DEF Promise!Next
<1>6. ASSUME NEW members, NEW now, grants' = ExpireFor(members, now), UNCHANGED <<usage, records>>
      PROVE  UNCHANGED Promise!vars
  BY <1>1, <1>6, ExpiryCarries, CarryIsStutter
<1>7. ASSUME NEW m \in Members, NEW now, Summarise(m, now)
      PROVE  UNCHANGED Promise!vars
  BY <1>6, <1>7 DEF Summarise
<1>8. ASSUME NEW m \in Members, NEW a, NEW k, NEW now, ConsumeReplay(m, a, k, now)
      PROVE  UNCHANGED Promise!vars
  BY <1>6, <1>8 DEF ConsumeReplay
<1> QED
  <2>1. CASE UNCHANGED vars \/ Tick \/ (\E m, target \in Members, a \in Amounts, type \in Types :
                                          RequestCapacity(m, target, a, type))
             \/ (\E r \in requests, actor \in Members : RejectRequest(r, actor))
    BY <1>2, <2>1 DEF vars, Tick, RequestCapacity, RejectRequest
  <2> QED
    BY <1>3, <1>4, <1>5, <1>7, <1>8, <2>1 DEF Next

\* The quota engine implements QuotaPromise, for every pool: reports are
\* charged once, in full, to their member and to consenting lenders, and no
\* balance is charged beyond the pool's allotment.
THEOREM PromiseKept == Spec => PromiseSpec
<1>1. Init => Promise!Init
  BY DEF Init, Promise!Init
<1>2. AuditInv /\ [Next]_vars => [Promise!Next]_(Promise!vars)
  BY StepKeepsPromise
<1>3. Spec => Promise!Spec
  BY <1>1, <1>2, AuditInvariant, PTL DEF Spec, Promise!Spec
<1> QED
  BY <1>3 DEF PromiseSpec

-----------------------------------------------------------------------------
(* The draw loop refuses nothing it could have paid.                       *)

\* The grants the loop has reached after n of them.
UpTo(held, rank, n) == { g \in held : rank[g] =< n }

\* What the loop may give a grant, given what the earlier ones have given.
NextDraw(draw, rank, shortfall, now, g) ==
  Clamp(Least(g.amount - LifetimeDrawn(g),
        Least(Available(g.source, now) - DrawnBefore(DrawSource(g.source, draw), draw, rank, g),
              shortfall - DrawnBefore(DOMAIN draw, draw, rank, g))))

\* The loop can take its first n grants.
Reached(held, rank, shortfall, now, n) ==
  \E draw \in [UpTo(held, rank, n) -> 0..shortfall] : GreedyDraw(draw, rank, shortfall, now)

\* It gives each of them a natural number, no more than any of the three limits
\* leaves where it gives anything, and at least the smallest of them.
LEMMA NextDrawBounds ==
  ASSUME TypeOK, TablesFinite, NEW held, NEW draw, DrawOn(held, draw), NEW rank,
         NEW shortfall \in Nat, NEW now, NEW g \in grants
  PROVE  LET v        == NextDraw(draw, rank, shortfall, now, g)
             lifetime == g.amount - LifetimeDrawn(g)
             source   == Available(g.source, now) - DrawnBefore(DrawSource(g.source, draw), draw, rank, g)
             open     == shortfall - DrawnBefore(held, draw, rank, g)
         IN  /\ lifetime \in Int /\ source \in Int /\ open \in Int /\ open =< shortfall
             /\ DrawnBefore(DrawSource(g.source, draw), draw, rank, g) \in Nat
             /\ Available(g.source, now) \in Nat
             /\ v \in 0..shortfall
             /\ v >= lifetime \/ v >= source \/ v >= open
<1> DEFINE v        == NextDraw(draw, rank, shortfall, now, g)
           lifetime == g.amount - LifetimeDrawn(g)
           source   == Available(g.source, now) - DrawnBefore(DrawSource(g.source, draw), draw, rank, g)
           open     == shortfall - DrawnBefore(held, draw, rank, g)
<1>1. ASSUME NEW among \in SUBSET held
      PROVE  DrawnBefore(among, draw, rank, g) \in Nat
  <2>1. { h \in among : rank[h] < rank[g] } \in SUBSET held
    OBVIOUS
  <2> QED
    BY <2>1, PartialDrawType DEF DrawnBefore
<1>2. DrawSource(g.source, draw) \in SUBSET held /\ held = DOMAIN draw
  BY DEF DrawSource, DrawOn
<1>3. /\ DrawnBefore(DrawSource(g.source, draw), draw, rank, g) \in Nat
      /\ DrawnBefore(held, draw, rank, g) \in Nat
  BY <1>1, <1>2
<1>4. LifetimeDrawn(g) \in Nat /\ Available(g.source, now) \in Nat /\ g.amount \in Nat
  BY LifetimeDrawnType, BalanceType, AmountsAssumption DEF TypeOK, Grants
<1>5. lifetime \in Int /\ source \in Int /\ open \in Int /\ open =< shortfall
  BY <1>3, <1>4
<1>6. v = Clamp(Least(lifetime, Least(source, open)))
  BY <1>2 DEF NextDraw
<1> HIDE DEF v, lifetime, source, open
<1>7. v \in 0..shortfall /\ (v >= lifetime \/ v >= source \/ v >= open)
  BY <1>5, <1>6 DEF Clamp, Least
<1> QED
  BY <1>3, <1>4, <1>5, <1>7 DEF v, lifetime, source, open

\* If the loop can take n grants, it can take one more.
LEMMA ReachedStep ==
  ASSUME TypeOK, TablesFinite, NEW held \in SUBSET grants, NEW rank \in DrawOrders(held),
         NEW shortfall \in Nat, NEW now, NEW n \in Nat, Reached(held, rank, shortfall, now, n)
  PROVE  Reached(held, rank, shortfall, now, n + 1)
<1>1. PICK draw \in [UpTo(held, rank, n) -> 0..shortfall] : GreedyDraw(draw, rank, shortfall, now)
  BY DEF Reached
<1>2. /\ \A g \in held : rank[g] \in Nat
      /\ \A g, h \in held : g # h => rank[g] # rank[h]
  BY DEF DrawOrders
<1>3. CASE \A g \in held : rank[g] # n + 1
  <2>1. UpTo(held, rank, n + 1) = UpTo(held, rank, n)
    BY <1>2, <1>3 DEF UpTo
  <2> QED
    BY <1>1, <2>1 DEF Reached
<1>4. ASSUME NEW g \in held, rank[g] = n + 1
      PROVE  Reached(held, rank, shortfall, now, n + 1)
  <2> DEFINE v   == NextDraw(draw, rank, shortfall, now, g)
             new == [h \in UpTo(held, rank, n + 1) |-> IF h = g THEN v ELSE draw[h]]
  <2>1. /\ \A h : h \in UpTo(held, rank, n + 1) <=> h = g \/ h \in UpTo(held, rank, n)
        /\ g \notin UpTo(held, rank, n)
        /\ \A h \in UpTo(held, rank, n) : h \in held
    BY <1>2, <1>4 DEF UpTo
  <2>2. DrawOn(UpTo(held, rank, n), draw)
    BY <1>1, <2>1 DEF DrawOn
  <2>3. v \in 0..shortfall
    BY <2>2, NextDrawBounds
  <2> HIDE DEF v
  <2>4. new \in [UpTo(held, rank, n + 1) -> 0..shortfall]
    <3>1. \A h \in UpTo(held, rank, n + 1) : h # g => draw[h] \in 0..shortfall
      BY <1>1, <2>1
    <3> QED
      BY <2>3, <3>1
  <2>5. DOMAIN new = UpTo(held, rank, n + 1) /\ DOMAIN draw = UpTo(held, rank, n)
    BY <1>1
  <2>6. new[g] = v /\ \A h \in UpTo(held, rank, n) : new[h] = draw[h]
    BY <2>1
  <2> HIDE DEF new
  <2>7. ASSUME NEW h \in UpTo(held, rank, n + 1)
        PROVE  /\ DrawnBefore(DOMAIN new, new, rank, h) = DrawnBefore(DOMAIN draw, draw, rank, h)
               /\ \A s : DrawnBefore(DrawSource(s, new), new, rank, h)
                           = DrawnBefore(DrawSource(s, draw), draw, rank, h)
    <3>1. rank[h] =< n + 1 /\ \A x \in UpTo(held, rank, n + 1) : rank[x] < rank[h] => x # g
      BY <1>2, <1>4, <2>1 DEF UpTo
    <3>2. { x \in DOMAIN new : rank[x] < rank[h] } = { x \in DOMAIN draw : rank[x] < rank[h] }
      BY <2>1, <2>5, <3>1
    <3>3. [x \in { x \in DOMAIN new : rank[x] < rank[h] } |-> new[x]]
            = [x \in { x \in DOMAIN draw : rank[x] < rank[h] } |-> draw[x]]
      BY <2>5, <2>6, <3>2
    <3>4. ASSUME NEW s
          PROVE  DrawnBefore(DrawSource(s, new), new, rank, h) = DrawnBefore(DrawSource(s, draw), draw, rank, h)
      <4>1. { x \in DrawSource(s, new) : rank[x] < rank[h] } = { x \in DrawSource(s, draw) : rank[x] < rank[h] }
        BY <2>1, <2>5, <3>1 DEF DrawSource
      <4>2. [x \in { x \in DrawSource(s, new) : rank[x] < rank[h] } |-> new[x]]
              = [x \in { x \in DrawSource(s, draw) : rank[x] < rank[h] } |-> draw[x]]
        BY <2>5, <2>6, <4>1 DEF DrawSource
      <4> QED
        BY <4>2 DEF DrawnBefore
    <3> QED
      BY <3>3, <3>4 DEF DrawnBefore
  <2>8. ASSUME NEW h \in UpTo(held, rank, n + 1)
        PROVE  new[h] = NextDraw(new, rank, shortfall, now, h)
    <3>1. NextDraw(new, rank, shortfall, now, h) = NextDraw(draw, rank, shortfall, now, h)
      BY <2>7 DEF NextDraw
    <3>2. CASE h = g
      BY <2>6, <3>1, <3>2 DEF v
    <3>3. CASE h # g
      <4>1. h \in DOMAIN draw
        BY <2>1, <2>5, <3>3
      <4>2. draw[h] = NextDraw(draw, rank, shortfall, now, h)
        BY <1>1, <4>1 DEF GreedyDraw, NextDraw
      <4> QED
        BY <2>5, <2>6, <3>1, <4>1, <4>2
    <3> QED
      BY <3>2, <3>3
  <2>9. GreedyDraw(new, rank, shortfall, now)
    BY <2>5, <2>8 DEF GreedyDraw, NextDraw
  <2> QED
    BY <2>4, <2>9 DEF Reached
<1> QED
  BY <1>3, <1>4

\* Every order has its draw.
LEMMA GreedyDrawExists ==
  ASSUME TypeOK, TablesFinite, NEW held \in SUBSET grants, NEW rank \in DrawOrders(held),
         NEW shortfall \in Nat, NEW now
  PROVE  \E draw \in [held -> 0..shortfall] : GreedyDraw(draw, rank, shortfall, now)
<1> DEFINE N       == Cardinality(held)
           reached == { n \in 0..N : Reached(held, rank, shortfall, now, n) }
<1>1. N \in Nat
  BY FS_Subset, FS_CardinalityType DEF TablesFinite
<1>2. \A g \in held : rank[g] \in 1..N
  BY DEF DrawOrders
<1> HIDE DEF N
<1>3. 0 \in reached
  <2>1. UpTo(held, rank, 0) = {}
    BY <1>1, <1>2 DEF UpTo
  <2> DEFINE none == [g \in {} |-> 0]
  <2>2. none \in [UpTo(held, rank, 0) -> 0..shortfall] /\ DOMAIN none = {}
    BY <2>1
  <2> HIDE DEF none
  <2>3. GreedyDraw(none, rank, shortfall, now)
    BY <2>2 DEF GreedyDraw
  <2>4. Reached(held, rank, shortfall, now, 0)
    BY <2>2, <2>3 DEF Reached
  <2> QED
    BY <1>1, <2>4
<1>4. PICK x \in reached : \A y \in reached : y =< x
  <2>1. reached \in SUBSET (0..N) /\ reached # {}
    BY <1>3
  <2> HIDE DEF reached
  <2> QED
    BY <1>1, <2>1, GreatestElement
<1>5. x = N
  <2>1. CASE x < N
    <3>1. Reached(held, rank, shortfall, now, x + 1)
      BY <1>1, ReachedStep
    <3>2. x + 1 \in reached
      BY <1>1, <2>1, <3>1
    <3> QED
      BY <1>1, <1>4, <3>2
  <2> QED
    BY <1>1, <2>1
<1>6. UpTo(held, rank, N) = held
  BY <1>1, <1>2 DEF UpTo
<1> QED
  BY <1>5, <1>6 DEF Reached

\* No draw takes more than the shortfall.
LEMMA DrawnWithinShortfall ==
  ASSUME TypeOK, TablesFinite, NEW held, NEW rank \in DrawOrders(held),
         NEW shortfall \in Nat, NEW now, NEW draw \in [held -> Nat], DrawOn(held, draw),
         GreedyDraw(draw, rank, shortfall, now)
  PROVE  TotalOf(draw) \in Nat /\ TotalOf(draw) =< shortfall
<1>1. draw = [g \in held |-> draw[g]]
  OBVIOUS
<1>2. /\ TotalOf(draw) \in Nat
      /\ TotalOf(draw) = 0
           \/ \E g \in held : draw[g] > 0 /\ TotalOf(draw) = DrawnBefore(held, draw, rank, g) + draw[g]
  BY <1>1, LastToGive
<1>3. ASSUME NEW g \in held, draw[g] > 0, TotalOf(draw) = DrawnBefore(held, draw, rank, g) + draw[g]
      PROVE  TotalOf(draw) =< shortfall
  <2>1. draw[g] =< shortfall - DrawnBefore(held, draw, rank, g) /\ draw[g] \in Nat
    BY <1>3, GreedyDrawBounds
  <2>2. { h \in held : rank[h] < rank[g] } \in SUBSET held
    OBVIOUS
  <2>3. DrawnBefore(held, draw, rank, g) \in Nat
    BY <2>2, PartialDrawType DEF DrawnBefore
  <2> QED
    BY <1>3, <2>1, <2>3
<1> QED
  BY <1>2, <1>3

\* What a draw that falls short takes from a source is all the source can lend:
\* its available units, or all that is left under its grants.
LEMMA ShortDrawExhausts ==
  ASSUME LedgerInv, NEW held \in SUBSET grants, NEW rank \in DrawOrders(held),
         NEW shortfall \in Nat, NEW now, NEW draw \in [held -> Nat],
         GreedyDraw(draw, rank, shortfall, now), TotalOf(draw) < shortfall,
         NEW s \in Members, NEW left, left = TotalOf([g \in DrawSource(s, draw) |-> g.amount - LifetimeDrawn(g)])
  PROVE  left \in Nat /\ Least(Available(s, now), left) \in Nat
         /\ Least(Available(s, now), left) =< DrawnFrom(s, draw)
<1> DEFINE lender == DrawSource(s, draw)
           drawn  == [g \in lender |-> draw[g]]
           room   == [g \in lender |-> g.amount - LifetimeDrawn(g)]
<1>1. TypeOK /\ TablesFinite /\ DrawOn(held, draw) /\ DOMAIN draw = held
  BY DEF LedgerInv, DrawOn
<1>2. lender \in SUBSET held /\ (\A g \in lender : g.source = s) /\ IsFiniteSet(held) /\ IsFiniteSet(lender)
  BY <1>1, FS_Subset DEF DrawSource, TablesFinite
<1>3. drawn \in [lender -> Nat] /\ DrawnFrom(s, draw) = TotalOf(drawn) /\ TotalOf(drawn) \in Nat
  BY <1>2, TotalOfType DEF DrawnFrom
<1>4. \A g \in held : LifetimeDrawn(g) \in Nat /\ g.amount \in Nat /\ LifetimeDrawn(g) =< g.amount
  BY <1>1, LifetimeDrawnType, AmountsAssumption DEF LedgerInv, LifetimeCeiling, TypeOK, Grants
<1>5. room \in [lender -> Nat]
  BY <1>2, <1>4
<1>6. left = TotalOf(room) /\ left \in Nat
  BY <1>2, <1>5, TotalOfType
<1>7. Available(s, now) \in Nat /\ TotalOf(draw) \in Nat
  BY <1>1, <1>2, BalanceType, TotalOfType
<1>8. ASSUME NEW g \in lender
      PROVE  \/ drawn[g] >= room[g]
             \/ draw[g] >= Available(s, now) - DrawnBefore(lender, draw, rank, g)
  <2> DEFINE earlier == { h \in held : rank[h] < rank[g] }
             taken   == TotalOf([h \in earlier |-> draw[h]])
  <2>1. rank[g] \in Nat /\ g \in held /\ g \in grants
    BY <1>2 DEF DrawOrders
  <2>2. earlier \in SUBSET held /\ g \notin earlier
    BY <2>1
  <2>3. taken \in Nat /\ taken + draw[g] =< TotalOf(draw)
    BY <1>2, <2>1, <2>2, TotalOfPart
  <2>4. DrawnBefore(held, draw, rank, g) = taken
    BY DEF DrawnBefore
  <2>5. draw[g] = NextDraw(draw, rank, shortfall, now, g)
    BY <1>1, <2>1 DEF GreedyDraw, NextDraw
  <2>6. \/ draw[g] >= g.amount - LifetimeDrawn(g)
        \/ draw[g] >= Available(s, now) - DrawnBefore(lender, draw, rank, g)
        \/ draw[g] >= shortfall - taken
    BY <1>1, <1>2, <2>1, <2>4, <2>5, NextDrawBounds
  <2>7. ~ draw[g] >= shortfall - taken
    <3> HIDE DEF taken
    <3>1. draw[g] \in Nat
      BY <2>1
    <3> QED
      BY <1>7, <2>3, <3>1
  <2> QED
    BY <2>6, <2>7
<1>9. CASE \A g \in lender : drawn[g] >= room[g]
  <2>1. TotalOf(room) =< TotalOf(drawn)
    BY <1>2, <1>3, <1>5, <1>9, TotalOfMonotone
  <2> QED
    BY <1>3, <1>6, <1>7, <2>1 DEF Least
<1>10. ASSUME NEW g \in lender, draw[g] >= Available(s, now) - DrawnBefore(lender, draw, rank, g)
       PROVE  Available(s, now) =< DrawnFrom(s, draw)
  <2> DEFINE earlier == { h \in lender : rank[h] < rank[g] }
             taken   == TotalOf([h \in earlier |-> drawn[h]])
  <2>1. rank[g] \in Nat
    BY <1>2 DEF DrawOrders
  <2>2. earlier \in SUBSET lender /\ g \in lender \ earlier
    BY <2>1
  <2>3. [h \in earlier |-> drawn[h]] = [h \in earlier |-> draw[h]]
    OBVIOUS
  <2>4. taken = DrawnBefore(lender, draw, rank, g)
    BY <2>3 DEF DrawnBefore
  <2> HIDE DEF drawn, earlier
  <2>5. taken \in Nat /\ taken + drawn[g] =< TotalOf(drawn)
    BY <1>2, <1>3, <2>2, TotalOfPart
  <2> HIDE DEF taken
  <2>6. drawn[g] = draw[g] /\ draw[g] \in Nat
    BY <1>2 DEF drawn
  <2> QED
    BY <1>3, <1>7, <1>10, <2>4, <2>5, <2>6
<1>11. CASE \E g \in lender : ~ drawn[g] >= room[g]
  <2>1. Available(s, now) =< DrawnFrom(s, draw)
    BY <1>8, <1>10, <1>11
  <2> QED
    BY <1>3, <1>6, <1>7, <2>1 DEF Least
<1> QED
  BY <1>9, <1>11

\* When the lenders together can give the shortfall, every draw reaches it.
LEMMA GreedyDrawReaches ==
  ASSUME LedgerInv, NEW m \in Members, NEW now, NEW held, held = Received(m, "SHARED", now),
         NEW rank \in DrawOrders(held), NEW shortfall \in Nat, shortfall =< Lendable(m, now),
         NEW draw \in [held -> Nat], GreedyDraw(draw, rank, shortfall, now)
  PROVE  TotalOf(draw) = shortfall
<1> DEFINE left(s)   == TotalOf([g \in DrawSource(s, draw) |-> g.amount - LifetimeDrawn(g)])
           lendable  == [s \in Members |-> Least(Available(s, now), left(s))]
           perLender == [s \in Members |-> DrawnFrom(s, draw)]
<1>1. TypeOK /\ TablesFinite /\ GrantIdsUnique /\ IsFiniteSet(Members)
  BY MembersAssumption DEF LedgerInv
<1>2. held \in SUBSET grants /\ DOMAIN draw = held
  BY DEF Received
<1>3. DrawOn(held, draw)
  BY <1>2 DEF DrawOn
<1>4. TotalOf(draw) \in Nat /\ TotalOf(draw) =< shortfall
  BY <1>1, <1>3, DrawnWithinShortfall
<1>5. Lendable(m, now) = TotalOf(lendable)
  <2>1. \A s : { g \in Received(m, "SHARED", now) : g.source = s } = DrawSource(s, draw)
    BY <1>2 DEF DrawSource
  <2> QED
    BY <2>1 DEF Lendable
<1>6. perLender \in [Members -> Nat] /\ TotalOf(perLender) = TotalOf(draw)
  BY <1>1, <1>2, <1>3, DrawsByLender
<1>7. ASSUME TotalOf(draw) < shortfall PROVE FALSE
  <2>1. \A s \in Members : /\ Least(Available(s, now), left(s)) \in Nat
                           /\ Least(Available(s, now), left(s)) =< DrawnFrom(s, draw)
    BY <1>2, <1>7, ShortDrawExhausts
  <2> HIDE DEF left
  <2>2. lendable \in [Members -> Nat] /\ \A s \in Members : lendable[s] =< perLender[s]
    BY <2>1
  <2> HIDE DEF lendable, perLender
  <2>3. TotalOf(lendable) =< TotalOf(perLender) /\ TotalOf(lendable) \in Nat
    BY <1>1, <1>6, <2>2, TotalOfMonotone, TotalOfType
  <2> QED
    BY <1>4, <1>5, <1>6, <1>7, <2>3
<1> QED
  BY <1>4, <1>7

\* consume() refuses a report only when the member's own units and everything
\* its lenders could give fall short of it, in whatever order it takes the
\* grants.
THEOREM RefusalsJustified == Spec => []NoNeedlessRefusal
<1>1. ASSUME LedgerInv, NEW m \in Members, NEW amount \in Amounts, NEW now,
             NEW shortfall, shortfall = amount - OwnPortion(m, amount, now),
             shortfall =< Lendable(m, now),
             NEW held, held = Held(m, shortfall, now), NEW rank \in DrawOrders(held)
      PROVE  \E draw \in [held -> 0..shortfall] :
               GreedyDraw(draw, rank, shortfall, now) /\ TotalOf(draw) = shortfall
  <2>1. TypeOK /\ TablesFinite /\ shortfall \in Nat
    BY <1>1, OwnPortionType DEF LedgerInv
  <2>2. held \in SUBSET grants
    BY <1>1 DEF Held, Received
  <2>3. PICK draw \in [held -> 0..shortfall] : GreedyDraw(draw, rank, shortfall, now)
    BY <2>1, <2>2, GreedyDrawExists
  <2>4. draw \in [held -> Nat]
    BY <2>1
  <2>5. CASE shortfall > 0
    <3>1. held = Received(m, "SHARED", now)
      BY <1>1, <2>5 DEF Held
    <3>2. TotalOf(draw) = shortfall
      BY <1>1, <2>1, <2>3, <2>4, <3>1, GreedyDrawReaches
    <3> QED
      BY <2>3, <3>2
  <2>6. CASE shortfall = 0
    <3>1. IsFiniteSet(held) /\ \A g \in held : draw[g] = 0
      BY <2>1, <2>2, <2>6, FS_Subset DEF TablesFinite
    <3>2. TotalOf(draw) = shortfall
      BY <2>4, <2>6, <3>1, TotalOfZeros
    <3> QED
      BY <2>3, <3>2
  <2> QED
    BY <2>1, <2>5, <2>6
<1>2. LedgerInv => NoNeedlessRefusal
  BY <1>1 DEF NoNeedlessRefusal
<1> QED
  BY <1>2, LedgerInvariant, PTL
===============================================================================
