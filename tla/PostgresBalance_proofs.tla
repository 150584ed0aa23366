----------------------- MODULE PostgresBalance_proofs -----------------------
(***************************************************************************)
(* What the concurrent calls on PostgreSQL keep of the accounts, for every *)
(* pool, set of calls, workload and interleaving: balanced books, offers   *)
(* within the allocation, draws within the grant, charges within the       *)
(* entitlement, and the promise of QuotaPromise.                           *)
(*                                                                         *)
(* The inductive invariant is BooksInv.  It adds to LockInv what a charge  *)
(* has computed so far, in terms of the tables that its locks keep.        *)
(***************************************************************************)
EXTENDS PostgresLocking_proofs

\* What BooksInv says of one call.
BooksOf(c) ==
  /\ Charges(c) => Accounts(c) /\ Draws(c) /\ Summarised(c)
  /\ txn[c].call.op = "approve" => Approving(c)

-----------------------------------------------------------------------------
(* Sums over grants.                                                       *)

\* The row of F with the id of q.
IsRowFor(r, F, q) == r \in F /\ r.id = q.id /\ r.amount = q.amount

\* Two versions of the same grants come to the same units.
LEMMA SameUnits ==
  ASSUME NEW F, Summable(F), NEW G,
         \A r, q \in F : r.id = q.id => r = q, \A r, q \in G : r.id = q.id => r = q,
         \A r \in F : \E q : IsRowFor(q, G, r), \A q \in G : \E r : IsRowFor(r, F, q)
  PROVE  Summable(G) /\ Total(G) = Total(F)
<1> DEFINE other == [r \in F |-> CHOOSE q : IsRowFor(q, G, r)]
<1>1. \A r \in F : IsRowFor(other[r], G, r)
  OBVIOUS
<1> HIDE DEF other
<1>2. other \in [F -> G]
  BY <1>1 DEF IsRowFor, other
<1>3. \A r, q \in F : other[r] = other[q] => r = q
  BY <1>1 DEF IsRowFor
<1>4. \A q \in G : \E r \in F : other[r] = q
  BY <1>1 DEF IsRowFor
<1>5. other \in Bijection(F, G)
  BY <1>2, <1>3, <1>4 DEF Bijection, Injection, IsInjective, Surjection
<1>6. \A r \in F : other[r].amount = r.amount
  BY <1>1 DEF IsRowFor
<1> QED
  BY <1>5, <1>6, TotalBijection

\* Any selection of the grants can be summed up.
LEMMA GrantsSummable ==
  ASSUME LockInv, NEW S \in SUBSET DOMAIN grants
  PROVE  /\ IsFiniteSet(S) /\ Summable({ grants[g] : g \in S })
         /\ Total({ grants[g] : g \in S }) \in Nat
<1> DEFINE rows == { grants[g] : g \in S }
           row  == [g \in S |-> grants[g]]
<1>1. IsFiniteSet(S)
  BY FS_Subset DEF LockInv
<1>2. row \in Surjection(S, rows)
  BY DEF Surjection
<1>3. \A r \in rows : r.amount \in Nat
  BY DEF LockInv, TypeOK, Grants
<1> HIDE DEF rows, row
<1>4. IsFiniteSet(rows)
  BY <1>1, <1>2, FS_Surjection
<1>5. Summable(rows) /\ Total(rows) \in Nat
  BY <1>3, <1>4, TotalType DEF Summable
<1> QED
  BY <1>1, <1>5 DEF rows

\* The tables of draws and reports too.
LEMMA RowsSummable ==
  ASSUME LockInv
  PROVE  /\ \A part \in SUBSET shared : Summable(part) /\ Total(part) \in Nat
         /\ \A part \in SUBSET records : Summable(part) /\ Total(part) \in Nat
<1>1. Summable(shared) /\ Summable(records)
  BY DEF Summable, LockInv, TypeOK, Shares, Records
<1> QED
  BY <1>1, TotalSubset, TotalType

\* And the draws of a call under way.
LEMMA DrawnSummable ==
  ASSUME LockInv, NEW c \in Calls, txn[c].pc \in Stages
  PROVE  \A part \in SUBSET txn[c].drawn : Summable(part) /\ Total(part) \in Nat
<1>1. txn[c].drawn \in SUBSET Shares /\ IsFiniteSet(txn[c].drawn)
  BY UnderWay DEF InStage, Transactions
<1>2. Summable(txn[c].drawn)
  BY <1>1 DEF Summable, Shares
<1> QED
  BY <1>2, TotalSubset, TotalType

\* The SOLID grants to a member, as a selection of the table.
LEMMA SolidToGrants ==
  ASSUME NEW m
  PROVE  SolidTo(m) = { grants[g] : g \in { h \in DOMAIN grants : grants[h].recipient = m /\ grants[h].type = "SOLID" } }
BY DEF SolidTo, Range

\* What others give to a member under SOLID grants, with what the member has,
\* is at most what the pool was allotted.
LEMMA SolidWithinPool ==
  ASSUME LockInv, CommittedWithinBase, NEW m \in Members, NEW S \in SUBSET DOMAIN grants,
         \A g \in S : grants[g].recipient = m /\ grants[g].type = "SOLID" /\ grants[g].status = "ACTIVE"
  PROVE  /\ Base[m] + Total({ grants[g] : g \in S }) =< TotalOf(Base)
         /\ TotalOf(Base) \in Nat /\ Base[m] \in Nat
<1> DEFINE rows    == { grants[g] : g \in S }
           part    == [s \in Members |-> { r \in rows : r.source = s }]
           given   == [s \in Members |-> Total(part[s])]
           own     == [s \in Members |-> IF s = m THEN Base[m] ELSE 0]
           both    == [s \in Members |-> given[s] + own[s]]
<1>1. Summable(rows) /\ Total(rows) \in Nat
  BY GrantsSummable
<1>2. \A r \in rows : r.source \in Members
  BY DEF LockInv, TypeOK, Grants
<1>3. given \in [Members -> Nat] /\ TotalOf(given) = Total(rows)
  <2>1. part \in [Members -> SUBSET rows]
    OBVIOUS
  <2>2. \A r \in rows : \E s \in Members : r \in part[s]
    BY <1>2
  <2>3. \A s, t \in Members : s # t => part[s] \cap part[t] = {}
    OBVIOUS
  <2> HIDE DEF part, rows
  <2> QED
    BY <1>1, <2>1, <2>2, <2>3, PoolAssumption, TotalPartition
<1>4. ASSUME NEW s \in Members PROVE given[s] + own[s] =< Base[s]
  <2>1. CASE s = m
    <3>1. part[s] = {}
      BY <2>1 DEF LockInv, TypeOK, WellFormed
    <3>2. given[s] = 0
      BY <3>1, TotalEmpty
    <3> QED
      BY <2>1, <3>2, PoolAssumption
  <2>2. CASE s # m
    <3> DEFINE offered == Offered(grants, s, "SOLID")
    <3>1. part[s] \in SUBSET offered
      BY DEF Offered, Range
    <3>2. Total(offered) =< Base[s]
      BY DEF CommittedWithinBase, Types
    <3>3. offered = { grants[g] : g \in { h \in DOMAIN grants :
             grants[h].source = s /\ grants[h].type = "SOLID" /\ grants[h].status = "ACTIVE" } }
      BY DEF Offered, Range
    <3>4. Summable(offered)
      BY <3>3, GrantsSummable
    <3> HIDE DEF part, offered
    <3>5. Total(part[s]) =< Total(offered) /\ Total(part[s]) \in Nat /\ Total(offered) \in Nat
      BY <3>1, <3>4, TotalSubset, TotalType
    <3> QED
      BY <2>2, <3>2, <3>5, PoolAssumption
  <2> QED
    BY <2>1, <2>2
<1> HIDE DEF given
<1>5. own \in [Members -> Nat] /\ own[m] = Base[m]
  BY PoolAssumption
<1> HIDE DEF own
<1>6. both \in [Members -> Nat] /\ \A s \in Members : both[s] = given[s] + own[s] /\ both[s] =< Base[s]
  BY <1>3, <1>4, <1>5
<1> HIDE DEF both
<1>7. TotalOf(both) = TotalOf(given) + TotalOf(own)
  BY <1>3, <1>5, <1>6, PoolAssumption, TotalOfSum
<1>8. Base[m] =< TotalOf(own)
  BY <1>5, PoolAssumption, TotalOfMember
<1>9. TotalOf(both) =< TotalOf(Base)
  BY <1>6, PoolAssumption, TotalOfMonotone
<1>10. TotalOf(both) \in Nat /\ TotalOf(given) \in Nat /\ TotalOf(own) \in Nat /\ TotalOf(Base) \in Nat
  BY <1>3, <1>5, <1>6, PoolAssumption, TotalOfType
<1> QED
  BY <1>1, <1>3, <1>7, <1>8, <1>9, <1>10, PoolAssumption

-----------------------------------------------------------------------------
(* Steps that only move one transaction.                                   *)

\* The other calls' accounts stay as they are.
LEMMA OtherBooksStay ==
  ASSUME NEW d, BooksOf(d), txn'[d] = txn[d], UNCHANGED tables
  PROVE  BooksOf(d)'
<1>1. /\ \A m : DrawnFrom(d, m)' = DrawnFrom(d, m)
      /\ \A m : SolidTo(m)' = SolidTo(m)
      /\ Own(d)' = Own(d) /\ (TakenOwn(d)' <=> TakenOwn(d)) /\ (Charges(d)' <=> Charges(d))
      /\ View(d)' = View(d)
  BY DEF DrawnFrom, SolidTo, Own, TakenOwn, Charges, View, tables
<1>2. Accounts(d) => Accounts(d)'
  BY <1>1 DEF Accounts, tables
<1>3. Draws(d) => Draws(d)'
  BY <1>1 DEF Draws, tables
<1>4. Summarised(d) => Summarised(d)'
  BY <1>1 DEF Summarised, tables
<1>5. Approving(d) => Approving(d)'
  BY <1>1 DEF Approving, Offered
<1> QED
  BY <1>1, <1>2, <1>3, <1>4, <1>5 DEF BooksOf

\* A step of c that keeps the tables keeps BooksInv if it keeps what BooksInv says
\* of c.
LEMMA StepOfOneKeepsBooks ==
  ASSUME BooksInv, LockInv', NEW c \in Calls, \A d \in Calls \ {c} : txn'[d] = txn[d],
         UNCHANGED tables, Active(c)' => BooksOf(c)'
  PROVE  BooksInv'
<1>1. \A d \in Calls : Active(d)' => BooksOf(d)'
  <2> SUFFICES ASSUME NEW d \in Calls, Active(d)' PROVE BooksOf(d)'
    OBVIOUS
  <2>1. CASE d = c
    BY <2>1
  <2>2. CASE d # c
    <3>1. txn'[d] = txn[d] /\ Active(d)
      BY <2>2 DEF Active
    <3>2. BooksOf(d)
      BY <3>1 DEF BooksInv, BooksOf
    <3> QED
      BY <3>1, <3>2, OtherBooksStay
  <2> QED
    BY <2>1, <2>2
<1>2. LedgerBalance' /\ CommittedWithinBase' /\ LifetimeCeiling' /\ UsageWithinEntitlement' /\ DrawsRecorded'
  BY DEF BooksInv, LedgerBalance, CommittedWithinBase, LifetimeCeiling, UsageWithinEntitlement, DrawsRecorded, tables
<1> QED
  BY <1>1, <1>2 DEF BooksInv, BooksOf

\* An aborted transaction leaves no accounts.
LEMMA RollbackKeepsBooks ==
  ASSUME BooksInv, LockInv', NEW c \in Calls, NEW outcome \in Ended, Rollback(c, outcome)
  PROVE  BooksInv'
<1>1. txn'[c] = [Idle EXCEPT !.pc = outcome] /\ \A d \in Calls \ {c} : txn'[d] = txn[d]
  BY DEF BooksInv, LockInv, TypeOK, Rollback, End
<1>2. txn'[c].pc = outcome
  BY <1>1 DEF Idle
<1>3. ~Active(c)'
  BY <1>2 DEF Active
<1> QED
  BY <1>1, <1>3, StepOfOneKeepsBooks DEF Rollback

\* A call is under way when it is active.
LEMMA ActiveIsUnderWay ==
  ASSUME LockInv, NEW c \in Calls, Active(c)
  PROVE  txn[c].pc \in Stages
<1>1. InStage(c)
  BY DEF LockInv
<1> QED
  BY <1>1, OperationStages DEF InStage

\* A statement of c that does not charge leaves its accounts.
LEMMA ChargeStays ==
  ASSUME NEW c, Accounts(c), Draws(c), UNCHANGED tables,
         txn'[c].call = txn[c].call, txn'[c].of = txn[c].of, txn'[c].seen = txn[c].seen,
         txn'[c].shortfall = txn[c].shortfall, txn'[c].queue = txn[c].queue, txn'[c].drawn = txn[c].drawn,
         txn[c].pc \notin {"refuse", "commit"}, txn'[c].pc \notin {"refuse", "commit", "window"}
  PROVE  Accounts(c)' /\ Draws(c)'
<1>1. /\ \A m : DrawnFrom(c, m)' = DrawnFrom(c, m)
      /\ \A m : SolidTo(m)' = SolidTo(m)
      /\ TakenOwn(c)' <=> TakenOwn(c)
  BY DEF DrawnFrom, SolidTo, TakenOwn, tables
<1>2. Own(c)' = Own(c)
  BY <1>1 DEF Own
<1>3. Accounts(c)'
  BY <1>1, <1>2 DEF Accounts, tables
<1>4. Draws(c)'
  BY <1>1 DEF Draws, tables
<1> QED
  BY <1>3, <1>4

\* A charge that has taken nothing yet has nothing to account for.
LEMMA NothingCharged ==
  ASSUME NEW c, txn'[c].drawn = {}, txn'[c].queue = <<>>, txn'[c].seen = <<>>,
         txn'[c].of = txn'[c].call.member, txn'[c].pc \in {"key", "window"}
  PROVE  Accounts(c)' /\ Draws(c)' /\ Summarised(c)'
<1>1. ~TakenOwn(c)' /\ Own(c)' = 0
  BY DEF TakenOwn, Own
<1>2. DOMAIN <<>> = {} /\ Range(<<>>) = {} /\ Len(<<>>) = 0
  BY NothingType
<1>3. Accounts(c)'
  BY <1>1, <1>2 DEF Accounts
<1>4. Draws(c)'
  BY <1>1, <1>2 DEF Draws
<1> QED
  BY <1>3, <1>4 DEF Summarised

-----------------------------------------------------------------------------
(* One lemma per action.                                                   *)

\* A call begins with nothing charged.
LEMMA BeginKeepsBooks ==
  ASSUME BooksInv, LockInv', NEW c \in Calls, Begin(c)
  PROVE  BooksInv'
<1>1. PICK call \in Workload :
        Continue(c, [Idle EXCEPT !.pc = EntryPoint[call.op], !.call = call, !.of = call.member, !.late = overdue])
  BY DEF Begin
<1> DEFINE t == [Idle EXCEPT !.pc = EntryPoint[call.op], !.call = call, !.of = call.member, !.late = overdue]
<1>2. /\ t.pc = EntryPoint[call.op] /\ t.call = call /\ t.of = call.member
      /\ t.seen = <<>> /\ t.queue = <<>> /\ t.drawn = {}
  BY DEF Idle
<1>3. txn'[c] = t /\ \A d \in Calls \ {c} : txn'[d] = txn[d]
  BY <1>1 DEF BooksInv, LockInv, TypeOK, Continue
<1> HIDE DEF t
<1>4. call.op = "consume" => Accounts(c)' /\ Draws(c)' /\ Summarised(c)'
  <2>1. call.op = "consume" => t.pc = "key"
    BY <1>2, OperationStages
  <2> QED
    BY <1>2, <1>3, <2>1, NothingCharged
<1>5. call.op = "approve" => Approving(c)'
  <2>1. call.op = "approve" => t.pc = "request"
    BY <1>2, OperationStages
  <2> QED
    BY <1>2, <1>3, <2>1 DEF Approving
<1>6. BooksOf(c)'
  BY <1>2, <1>3, <1>4, <1>5 DEF BooksOf, Charges
<1> QED
  BY <1>3, <1>6, StepOfOneKeepsBooks DEF Begin

\* Looking up the key charges nothing.
LEMMA FindKeyKeepsBooks ==
  ASSUME BooksInv, LockInv', NEW c \in Calls, FindKey(c)
  PROVE  BooksInv'
<1> DEFINE prior == { r \in records : r.key = txn[c].call.key }
           t     == [txn[c] EXCEPT !.pc = "window", !.replay = prior # {}]
<1>1. CASE Continue(c, t) /\ UNCHANGED <<overdue, tables>>
  <2>1. txn[c].pc = "key" /\ txn[c].pc \in Stages
    BY DEF FindKey, Stages
  <2>2. /\ txn[c] \in Transactions(DOMAIN txn[c].seen, DOMAIN txn[c].wrote)
        /\ Active(c) /\ InStage(c) /\ txn'[c] = t
    BY <1>1, <2>1, UnderWay DEF BooksInv
  <2>3. txn[c].call.op = "consume"
    BY <2>1, <2>2, OperationStages DEF InStage, StagesOf
  <2>4. /\ t.pc = "window" /\ t.call = txn[c].call /\ t.of = txn[c].of /\ t.seen = txn[c].seen
        /\ t.queue = txn[c].queue /\ t.drawn = txn[c].drawn
    BY <2>2 DEF Transactions
  <2> HIDE DEF t
  <2>5. txn[c].of = txn[c].call.member /\ txn[c].seen = <<>> /\ Charges(c)
    BY <2>1, <2>2, <2>3 DEF InStage, Charges
  <2>6. txn[c].drawn = {} /\ txn[c].queue = <<>>
    BY <2>1, <2>2, <2>5 DEF BooksInv, Accounts, TakenOwn
  <2>7. Accounts(c)' /\ Draws(c)' /\ Summarised(c)'
    BY <2>2, <2>4, <2>5, <2>6, NothingCharged
  <2>8. BooksOf(c)'
    BY <2>2, <2>3, <2>4, <2>7 DEF BooksOf
  <2>9. \A d \in Calls \ {c} : txn'[d] = txn[d]
    BY <1>1 DEF Continue, BooksInv, LockInv, TypeOK
  <2> QED
    BY <1>1, <2>8, <2>9, StepOfOneKeepsBooks
<1>2. CASE Rollback(c, "conflict")
  BY <1>2, RollbackKeepsBooks DEF Ended
<1> QED
  BY <1>1, <1>2 DEF FindKey

\* Nor does reading a request.
LEMMA GetRequestKeepsBooks ==
  ASSUME BooksInv, LockInv', NEW c \in Calls, GetRequest(c)
  PROVE  BooksInv'
<1>1. txn[c].pc = "request" /\ txn[c].pc \in Stages
  BY DEF GetRequest, Stages
<1>2. ASSUME NEW t, UNCHANGED <<overdue, tables>>, Continue(c, t),
             \/ txn[c].call.op = "approve" /\ t = [txn[c] EXCEPT !.pc = "window"]
             \/ txn[c].call.op = "reject" /\ t = [txn[c] EXCEPT !.pc = "commit", !.verdict = "REJECTED"]
      PROVE  BooksInv'
  <2>1. txn[c] \in Transactions(DOMAIN txn[c].seen, DOMAIN txn[c].wrote) /\ txn'[c] = t
    BY <1>1, <1>2, UnderWay DEF BooksInv
  <2>2. t.call = txn[c].call /\ (txn[c].call.op = "approve" => t.pc = "window")
    BY <1>2, <2>1 DEF Transactions
  <2>3. BooksOf(c)'
    BY <1>2, <2>1, <2>2 DEF BooksOf, Charges, Approving
  <2>4. \A d \in Calls \ {c} : txn'[d] = txn[d]
    BY <1>2 DEF Continue, BooksInv, LockInv, TypeOK
  <2> QED
    BY <1>2, <2>3, <2>4, StepOfOneKeepsBooks
<1>3. CASE Rollback(c, "refused")
  BY <1>3, RollbackKeepsBooks DEF Ended
<1> QED
  BY <1>2, <1>3 DEF GetRequest

\* What neither charges nor approves has no accounts to keep.
LEMMA NoAccounts ==
  ASSUME BooksInv, LockInv', NEW c \in Calls, txn[c].pc \in Stages, NEW t, Continue(c, t), UNCHANGED tables,
         t.call = txn[c].call, t.replay = txn[c].replay,
         ~Charges(c), txn[c].call.op # "approve"
  PROVE  BooksInv'
<1>1. txn'[c] = t /\ \A d \in Calls \ {c} : txn'[d] = txn[d]
  BY DEF Continue, BooksInv, LockInv, TypeOK
<1>2. BooksOf(c)'
  BY <1>1 DEF BooksOf, Charges
<1> QED
  BY <1>1, <1>2, StepOfOneKeepsBooks

\* Revoking a grant, in its two statements, charges nothing.
LEMMA RevocationKeepsBooks ==
  ASSUME BooksInv, LockInv', NEW c \in Calls, GetGrant(c) \/ Revoke(c)
  PROVE  BooksInv'
<1>1. txn[c].pc \in {"grant", "revoke"} /\ txn[c].pc \in Stages
  BY DEF GetGrant, Revoke, Stages
<1>2. /\ txn[c] \in Transactions(DOMAIN txn[c].seen, DOMAIN txn[c].wrote) /\ InStage(c)
  BY <1>1, UnderWay DEF BooksInv
<1>3. txn[c].call.op = "revoke"
  BY <1>1, <1>2, OperationStages DEF InStage, StagesOf
<1>4. CASE Rollback(c, "refused")
  BY <1>4, RollbackKeepsBooks DEF Ended
<1>5. ASSUME NEW t, UNCHANGED tables, Continue(c, t), t.call = txn[c].call, t.replay = txn[c].replay
      PROVE  BooksInv'
  BY <1>1, <1>3, <1>5, NoAccounts DEF Charges
<1>6. CASE GetGrant(c) /\ ~Rollback(c, "refused")
  <2> DEFINE t == [txn[c] EXCEPT !.pc = "revoke"]
  <2>1. Continue(c, t) /\ UNCHANGED tables
    BY <1>6 DEF GetGrant
  <2>2. t.call = txn[c].call /\ t.replay = txn[c].replay
    BY <1>2 DEF Transactions
  <2> QED
    BY <1>5, <2>1, <2>2
<1>7. CASE Revoke(c)
  <2> DEFINE wrote == Overwritten(c, txn[c].call.ref, "REVOKED", TRUE)
             t     == [txn[c] EXCEPT !.pc = "commit", !.wrote = wrote]
  <2>1. Continue(c, t) /\ UNCHANGED tables
    BY <1>7 DEF Revoke
  <2> HIDE DEF wrote
  <2>2. t.call = txn[c].call /\ t.replay = txn[c].replay
    BY <1>2 DEF Transactions
  <2> QED
    BY <1>5, <2>1, <2>2
<1> QED
  BY <1>4, <1>6, <1>7

\* A read, or a replay, that is over has nothing to account for.
LEMMA FinishReadKeepsBooks ==
  ASSUME BooksInv, LockInv', NEW c \in Calls, FinishRead(c)
  PROVE  BooksInv'
<1> DEFINE t == [txn[c] EXCEPT !.pc = "commit"]
<1>1. /\ txn[c].pc \in Stages /\ ~Charges(c) /\ txn[c].call.op # "approve"
      /\ Continue(c, t) /\ UNCHANGED tables
  BY DEF FinishRead, Decided, Stages, Charges
<1>2. txn[c] \in Transactions(DOMAIN txn[c].seen, DOMAIN txn[c].wrote)
  BY <1>1, UnderWay DEF BooksInv
<1>3. t.call = txn[c].call /\ t.replay = txn[c].replay
  BY <1>2 DEF Transactions
<1> QED
  BY <1>1, <1>3, NoAccounts

\* A window that is read, under its lock, holds what is committed.
LEMMA GetWindowKeepsBooks ==
  ASSUME BooksInv, LockInv', NEW c \in Calls, GetWindow(c)
  PROVE  BooksInv'
<1> DEFINE of   == txn[c].of
           seen == With(txn[c].of, usage[txn[c].of], txn[c].seen)
           t    == [txn[c] EXCEPT !.pc = "sent", !.seen = seen]
<1>1. txn[c].pc = "window" /\ txn[c].pc \in Stages /\ Continue(c, t) /\ UNCHANGED tables
  BY DEF GetWindow, Stages
<1>2. /\ txn[c] \in Transactions(DOMAIN txn[c].seen, DOMAIN txn[c].wrote)
      /\ DOMAIN txn[c].seen \subseteq Members
      /\ Active(c) /\ InStage(c) /\ txn'[c] = t
  BY <1>1, UnderWay DEF BooksInv
<1>3. /\ DOMAIN seen = DOMAIN txn[c].seen \cup {of} /\ seen[of] = usage[of]
      /\ \A m \in DOMAIN txn[c].seen \ {of} : seen[m] = txn[c].seen[m]
  BY DEF With, Over
<1> HIDE DEF seen
<1>4. /\ t.pc = "sent" /\ t.seen = seen /\ t.call = txn[c].call /\ t.replay = txn[c].replay
      /\ t.of = txn[c].of /\ t.drawn = txn[c].drawn /\ t.queue = txn[c].queue
      /\ t.shortfall = txn[c].shortfall
  BY <1>2 DEF Transactions
<1> HIDE DEF t
<1>5. \A d \in Calls \ {c} : txn'[d] = txn[d]
  BY <1>1 DEF Continue, BooksInv, LockInv, TypeOK
<1>6. ASSUME Charges(c) PROVE Accounts(c)' /\ Draws(c)'
  <2>1. Accounts(c) /\ Draws(c) /\ of \in Members
    BY <1>2, <1>6 DEF BooksInv, InStage
  <2>2. /\ \A m : DrawnFrom(c, m)' = DrawnFrom(c, m)
        /\ \A m : SolidTo(m)' = SolidTo(m)
        /\ TakenOwn(c)' <=> TakenOwn(c)
    BY <1>1, <1>2, <1>4 DEF DrawnFrom, SolidTo, TakenOwn, tables
  <2>3. Own(c)' = Own(c)
    BY <1>2, <1>4, <2>2 DEF Own
  <2>4. DrawnFrom(c, of) = {} /\ of \notin DOMAIN txn[c].seen
    BY <1>1, <2>1 DEF Accounts, Draws, DrawnFrom
  <2>5. of = txn[c].call.member => Own(c) = 0
    <3>1. TakenOwn(c) => txn[c].call.member \in DOMAIN txn[c].seen
      BY <2>1 DEF Accounts
    <3> QED
      BY <2>4, <3>1 DEF Own
  <2>6. usage[of] =< Base[of] + Total(SolidTo(of)) /\ usage[of] \in Nat
    BY <2>1 DEF BooksInv, UsageWithinEntitlement, SolidTo, LockInv, TypeOK
  <2>7. Accounts(c)'
    <3>1. ASSUME NEW m \in DOMAIN seen
          PROVE  /\ seen[m] = usage[m] + Total(DrawnFrom(c, m)) + (IF m = txn[c].call.member THEN Own(c) ELSE 0)
                 /\ seen[m] =< Base[m] + Total(SolidTo(m))
                 /\ seen[m] > usage[m] => seen[m] =< TotalOf(Base)
      <4>1. CASE m = of
        BY <1>3, <2>4, <2>5, <2>6, <4>1, TotalEmpty
      <4>2. CASE m # of
        BY <1>3, <2>1, <3>1, <4>2 DEF Accounts
      <4> QED
        BY <4>1, <4>2
    <3>2. ~TakenOwn(c) => of = txn[c].call.member
      BY DEF TakenOwn
    <3> QED
      BY <1>1, <1>2, <1>3, <1>4, <2>1, <2>2, <2>3, <3>1, <3>2 DEF Accounts, tables
  <2>8. Draws(c)'
    <3>1. \A g : Total({ r \in shared : r.grant = g })' = Total({ r \in shared : r.grant = g })
      BY <1>1 DEF tables
    <3>2. DOMAIN txn[c].seen \subseteq DOMAIN seen /\ UNCHANGED grants
      BY <1>1, <1>3 DEF tables
    <3>3. TakenOwn(c)' /\ txn'[c].pc \notin {"refuse", "commit"} => txn'[c].of = grants[Head(txn[c].queue)].source
      BY <1>1, <1>2, <1>4, <2>1, <2>2 DEF Draws
    <3> QED
      BY <1>2, <1>4, <2>1, <3>1, <3>2, <3>3, ZenonT(40) DEF Draws
  <2> QED
    BY <2>7, <2>8
<1>7. Summarised(c)' /\ Approving(c)'
  BY <1>2, <1>4 DEF Summarised, Approving
<1>8. BooksOf(c)'
  BY <1>2, <1>4, <1>6, <1>7 DEF BooksOf, Charges
<1> QED
  BY <1>1, <1>5, <1>8, StepOfOneKeepsBooks

\* Listing grants, and ending those that are stale, charges nothing.
LEMMA ListingKeepsBooks ==
  ASSUME BooksInv, LockInv', NEW c \in Calls, txn[c].pc \in {"sent", "received", "decide"},
         NEW t, Continue(c, t), UNCHANGED tables,
         t.call = txn[c].call, t.replay = txn[c].replay, t.of = txn[c].of, t.seen = txn[c].seen,
         t.shortfall = txn[c].shortfall, t.queue = txn[c].queue, t.drawn = txn[c].drawn,
         t.pc \in {"received", "decide"},
         Charges(c) /\ Summarised(c) => Summarised(c)',
         txn[c].call.op = "approve" /\ Approving(c) => Approving(c)'
  PROVE  BooksInv'
<1>1. txn'[c] = t /\ \A d \in Calls \ {c} : txn'[d] = txn[d]
  BY DEF Continue, BooksInv, LockInv, TypeOK
<1>2. Active(c) /\ (Charges(c)' <=> Charges(c))
  BY <1>1 DEF Active, Ended, Charges
<1>3. Charges(c) => Accounts(c)' /\ Draws(c)'
  BY <1>1, <1>2, ChargeStays DEF BooksInv
<1>4. BooksOf(c)'
  BY <1>1, <1>2, <1>3 DEF BooksOf, BooksInv
<1> QED
  BY <1>1, <1>4, StepOfOneKeepsBooks

\* After the first listing an approval knows what its target offers.
LEMMA ListSentKeepsBooks ==
  ASSUME BooksInv, LockInv', NEW c \in Calls, ListSent(c)
  PROVE  BooksInv'
<1> DEFINE stale == Stale(c, SentBy(c))
           kept  == SentBy(c) \ stale
           After(order) == [txn[c] EXCEPT !.pc = "received", !.sent = kept, !.todo = order]
<1>1. /\ txn[c].pc = "sent" /\ txn[c].pc \in Stages \ {"commit"} /\ UNCHANGED tables
  BY DEF ListSent, Stages
<1>2. PICK order \in SetToSeqs(stale) : Continue(c, After(order))
  BY DEF ListSent
<1> DEFINE t == After(order)
<1>3. /\ txn[c] \in Transactions(DOMAIN txn[c].seen, DOMAIN txn[c].wrote) /\ txn'[c] = t
  BY <1>1, <1>2, UnderWay DEF BooksInv
<1>4. Range(order) = stale
  <2>1. stale \in SUBSET DOMAIN grants
    BY <1>1, ViewOfGrants DEF SentBy, Stale, BooksInv
  <2>2. IsFiniteSet(stale)
    BY <2>1, FS_Subset DEF LockInv, BooksInv
  <2> HIDE DEF stale
  <2> QED
    BY <2>2, OrderedSet
<1> HIDE DEF stale, kept
<1>5. /\ t.pc = "received" /\ t.wrote = txn[c].wrote /\ t.todo = order /\ t.sent = kept
      /\ t.call = txn[c].call /\ t.replay = txn[c].replay /\ t.of = txn[c].of /\ t.seen = txn[c].seen
      /\ t.shortfall = txn[c].shortfall /\ t.queue = txn[c].queue /\ t.drawn = txn[c].drawn
  BY <1>3 DEF Transactions
<1> HIDE DEF After
<1>6. Summarised(c)'
  BY <1>3, <1>5 DEF Summarised
<1>7. Approving(c)'
  <2>1. View(c)' = View(c)
    BY <1>1, <1>3, <1>5 DEF View, tables
  <2>2. \A g \in DOMAIN View(c) : View(c)[g].source = txn[c].of /\ View(c)[g].status = "ACTIVE" =>
          g \in kept \/ g \in stale
    BY DEF SentBy, kept
  <2> QED
    BY <1>3, <1>4, <1>5, <2>1, <2>2 DEF Approving
<1> HIDE DEF t
<1> QED
  BY <1>1, <1>2, <1>5, <1>6, <1>7, ListingKeepsBooks DEF t

\* After the second a charge knows what its member may take.
LEMMA ListReceivedKeepsBooks ==
  ASSUME BooksInv, LockInv', NEW c \in Calls, ListReceived(c)
  PROVE  BooksInv'
<1> DEFINE stale == Stale(c, ReceivedBy(c))
           kept  == ReceivedBy(c) \ stale
           After(order) == [txn[c] EXCEPT !.pc = "decide", !.received = kept, !.todo = order]
<1>1. /\ txn[c].pc = "received" /\ txn[c].pc \in Stages \ {"commit"} /\ UNCHANGED tables
      /\ txn[c].todo = <<>>
  BY DEF ListReceived, Stages
<1>2. PICK order \in SetToSeqs(stale) : Continue(c, After(order))
  BY DEF ListReceived
<1> DEFINE t == After(order)
<1>3. /\ txn[c] \in Transactions(DOMAIN txn[c].seen, DOMAIN txn[c].wrote) /\ txn'[c] = t
      /\ InStage(c)
  BY <1>1, <1>2, UnderWay DEF BooksInv
<1>4. /\ kept \in SUBSET DOMAIN grants
      /\ \A g \in kept : grants[g].recipient = txn[c].of /\ grants[g].status = "ACTIVE"
  BY <1>1, ViewOfGrants DEF ReceivedBy, BooksInv
<1> HIDE DEF stale, kept
<1>5. /\ t.pc = "decide" /\ t.wrote = txn[c].wrote /\ t.todo = order /\ t.sent = txn[c].sent
      /\ t.received = kept
      /\ t.call = txn[c].call /\ t.replay = txn[c].replay /\ t.of = txn[c].of /\ t.seen = txn[c].seen
      /\ t.shortfall = txn[c].shortfall /\ t.queue = txn[c].queue /\ t.drawn = txn[c].drawn
  BY <1>3 DEF Transactions
<1> HIDE DEF After
<1>6. Summarised(c)'
  <2> DEFINE solid == { g \in kept : grants[g].type = "SOLID" }
  <2>1. Base[txn[c].of] + Total({ grants[g] : g \in solid }) =< TotalOf(Base)
    <3>1. txn[c].of \in Members /\ solid \in SUBSET DOMAIN grants
      BY <1>3, <1>4 DEF InStage
    <3>2. \A g \in solid : grants[g].recipient = txn[c].of /\ grants[g].type = "SOLID" /\ grants[g].status = "ACTIVE"
      BY <1>4
    <3> HIDE DEF solid
    <3> QED
      BY <3>1, <3>2, SolidWithinPool DEF BooksInv
  <2> QED
    BY <1>1, <1>3, <1>4, <1>5, <2>1 DEF Summarised, tables
<1>7. Approving(c) => Approving(c)'
  <2>1. View(c)' = View(c) /\ Range(<<>>) = {}
    BY <1>1, <1>3, <1>5, NothingType DEF View, tables
  <2> QED
    BY <1>1, <1>3, <1>5, <2>1 DEF Approving
<1> HIDE DEF t
<1> QED
  BY <1>1, <1>2, <1>5, <1>6, <1>7, ListingKeepsBooks DEF t

\* A stale grant that is ended is offered no longer.
LEMMA ExpireNextKeepsBooks ==
  ASSUME BooksInv, LockInv', NEW c \in Calls, ExpireNext(c)
  PROVE  BooksInv'
<1> DEFINE g     == Head(txn[c].todo)
           wrote == Overwritten(c, g, "EXPIRED", FALSE)
           t     == [txn[c] EXCEPT !.todo = Tail(@), !.wrote = wrote]
<1>1. txn[c].todo # <<>> /\ Continue(c, t) /\ UNCHANGED tables
  BY DEF ExpireNext
<1>2. Wanted(c) # {} /\ LockInv
  BY <1>1 DEF Wanted, BooksInv
<1>3. txn[c].pc \in Stages
  BY <1>2, WaitingIsUnderWay
<1>4. /\ txn[c] \in Transactions(DOMAIN txn[c].seen, DOMAIN txn[c].wrote)
      /\ InStage(c) /\ ReadsStand(c) /\ txn'[c] = t
  BY <1>1, <1>2, <1>3, UnderWay
<1>5. txn[c].pc \in {"received", "decide"}
  BY <1>1, <1>4 DEF InStage
<1>6. txn[c].todo \in Seq(Ids) /\ Range(txn[c].todo) \subseteq DOMAIN grants
  BY <1>4 DEF Transactions, ReadsStand
<1>7. g \in DOMAIN grants /\ Range(txn[c].todo) = Range(Tail(txn[c].todo)) \cup {g}
  BY <1>1, <1>6, HeadAndTail
<1>8. /\ DOMAIN wrote = DOMAIN txn[c].wrote \cup {g} /\ wrote[g].status # "ACTIVE"
      /\ \A h \in DOMAIN txn[c].wrote \ {g} : wrote[h] = txn[c].wrote[h]
  <2> DEFINE row == [grants[g] EXCEPT !.status = "EXPIRED", !.revoked = FALSE]
  <2>1. grants[g] \in Grants
    BY <1>2, <1>7 DEF LockInv, TypeOK
  <2>2. row.status = "EXPIRED"
    BY <2>1 DEF Grants
  <2>3. wrote = With(g, row, txn[c].wrote)
    BY DEF Overwritten
  <2> HIDE DEF row, wrote
  <2> QED
    BY <2>2, <2>3 DEF With, Over
<1> HIDE DEF wrote
<1>9. /\ t.pc = txn[c].pc /\ t.wrote = wrote /\ t.todo = Tail(txn[c].todo) /\ t.sent = txn[c].sent
      /\ t.received = txn[c].received
      /\ t.call = txn[c].call /\ t.replay = txn[c].replay /\ t.of = txn[c].of /\ t.seen = txn[c].seen
      /\ t.shortfall = txn[c].shortfall /\ t.queue = txn[c].queue /\ t.drawn = txn[c].drawn
  BY <1>4 DEF Transactions
<1> HIDE DEF t, g
<1>10. Summarised(c) => Summarised(c)'
  BY <1>1, <1>4, <1>9 DEF Summarised, tables
<1>11. Approving(c) => Approving(c)'
  <2>1. /\ DOMAIN View(c)' = DOMAIN View(c)
        /\ View(c)'[g].status # "ACTIVE"
        /\ \A h \in DOMAIN View(c) \ {g} : View(c)'[h] = View(c)[h]
    BY <1>1, <1>4, <1>7, <1>8, <1>9 DEF View, Over, tables
  <2> QED
    BY <1>4, <1>5, <1>7, <1>9, <2>1 DEF Approving
<1> QED
  BY <1>1, <1>5, <1>9, <1>10, <1>11, ListingKeepsBooks

\* What a member offers is a selection of the grants.
LEMMA OfferedGrants ==
  ASSUME NEW m, NEW type
  PROVE  Offered(grants, m, type) = { grants[g] : g \in { h \in DOMAIN grants :
           grants[h].source = m /\ grants[h].type = type /\ grants[h].status = "ACTIVE" } }
BY DEF Offered, Range

\* An approval adds to what its target offers no more than is left.
LEMMA ApproveKeepsBooks ==
  ASSUME BooksInv, LockInv', NEW c \in Calls, Approve(c)
  PROVE  BooksInv'
<1> DEFINE terms == Terms[txn[c].call.ref]
           of    == txn[c].of
           t     == [txn[c] EXCEPT !.pc = "commit", !.verdict = "APPROVED", !.wrote = With(c, NewGrant(c), @)]
<1>1. /\ txn[c].pc = "decide" /\ txn[c].pc \in Stages \ {"commit"} /\ txn[c].todo = <<>>
      /\ txn[c].call.op = "approve"
  BY DEF Approve, Decided, Stages
<1>2. CASE /\ Base[terms.target] - Total(OfType(c, txn[c].sent, terms.type)) >= terms.amount
           /\ Continue(c, t) /\ UNCHANGED <<overdue, tables>>
  <2>1. /\ txn[c] \in Transactions(DOMAIN txn[c].seen, DOMAIN txn[c].wrote)
        /\ InStage(c) /\ WritesEnds(c) /\ ReadsStand(c) /\ c \notin DOMAIN grants
        /\ Active(c) /\ LockInv /\ txn'[c] = t
    BY <1>1, <1>2, UnderWay DEF BooksInv
  <2>2. /\ txn[c].call.ref \in DOMAIN Terms /\ terms.target = of /\ of \in Members
        /\ txn[c].sent \in SUBSET DOMAIN grants
    BY <1>1, <2>1, WorkloadAssumption DEF InStage, ReadsStand
  <2>3. terms.amount \in Nat /\ terms.type \in Types /\ Base[of] \in Nat
    BY <2>2, TermsAssumption, PoolAssumption
  <2> DEFINE wrote == With(c, NewGrant(c), txn[c].wrote)
             new   == NewGrant(c)
  <2>4. t = [txn[c] EXCEPT !.pc = "commit", !.verdict = "APPROVED", !.wrote = wrote]
    OBVIOUS
  <2>5. /\ DOMAIN wrote = DOMAIN txn[c].wrote \cup {c} /\ wrote[c] = new
        /\ \A h \in DOMAIN txn[c].wrote \ {c} : wrote[h] = txn[c].wrote[h]
    BY DEF With, Over
  <2> HIDE DEF wrote, t
  <2>6. t.pc = "commit" /\ t.call = txn[c].call /\ t.of = of /\ t.wrote = wrote
    BY <2>1, <2>4 DEF Transactions
  <2> DEFINE view  == View(c)
             after == Over(wrote, grants)
  <2>7. View(c)' = after
    BY <1>2, <2>1, <2>6 DEF View, tables
  <2>8. DOMAIN view = DOMAIN grants /\ c \notin DOMAIN view
    BY <1>1, <2>1, ViewOfGrants
  <2>9. /\ DOMAIN after = DOMAIN view \cup {c} /\ after[c] = new
        /\ \A g \in DOMAIN view : after[g] = view[g]
    BY <2>5, <2>8 DEF View, Over
  <2>10. \A g \in DOMAIN view : view[g].status = "ACTIVE" => view[g] = grants[g] /\ view[g].id = g
    BY <1>1, <2>1, <2>8, ViewOfGrants DEF LockInv, TypeOK, WellFormed
  <2>11. new.id = c /\ new.source = of /\ new.amount = terms.amount /\ new.type = terms.type
    BY <2>2 DEF NewGrant
  <2> HIDE DEF after, new, view
  <2>12. ASSUME NEW type \in Types PROVE Total(Offered(after, of, type)) =< Base[of]
    <3> DEFINE before == Offered(view, of, type)
    <3>1. CASE type = terms.type
      <4>1. before \in SUBSET OfType(c, txn[c].sent, type)
        <5>1. \A g \in DOMAIN view : view[g].source = of /\ view[g].status = "ACTIVE" => g \in txn[c].sent
          BY <1>1, <2>1 DEF BooksInv, Approving, view
        <5> QED
          BY <5>1 DEF Offered, Range, OfType, view
      <4>2. Summable(OfType(c, txn[c].sent, type)) /\ Total(OfType(c, txn[c].sent, type)) \in Nat
        BY <1>1, <2>1, <2>2, OfTypeSummable
      <4>3. Summable(before) /\ Total(before) =< Total(OfType(c, txn[c].sent, type)) /\ Total(before) \in Nat
        BY <4>1, <4>2, TotalSubset, TotalType
      <4>4. new \notin before
        BY <2>8, <2>10, <2>11 DEF Offered, Range
      <4>5. Offered(after, of, type) \in SUBSET (before \cup {new})
        BY <2>9 DEF Offered, Range
      <4> HIDE DEF before
      <4>6. Summable(before \cup {new}) /\ Total(before \cup {new}) = Total(before) + terms.amount
        BY <2>3, <2>11, <4>3, <4>4, TotalAdd
      <4>7. Total(before \cup {new}) =< Base[of]
        BY <1>2, <2>2, <2>3, <3>1, <4>2, <4>3, <4>6
      <4>8. Summable(Offered(after, of, type)) /\ Total(Offered(after, of, type)) =< Total(before \cup {new})
        BY <4>5, <4>6, TotalSubset
      <4> QED
        BY <2>3, <4>3, <4>6, <4>7, <4>8, TotalType
    <3>2. CASE type # terms.type
      <4> DEFINE committed == Offered(grants, of, type)
      <4>1. Offered(after, of, type) \in SUBSET committed
        BY <2>8, <2>9, <2>10, <2>11, <3>2 DEF Offered, Range
      <4>2. Summable(committed) /\ Total(committed) \in Nat
        BY <2>1, OfferedGrants, GrantsSummable
      <4>3. Total(committed) =< Base[of]
        BY <2>2 DEF BooksInv, CommittedWithinBase
      <4> HIDE DEF committed
      <4>4. Total(Offered(after, of, type)) =< Total(committed) /\ Total(Offered(after, of, type)) \in Nat
        BY <4>1, <4>2, TotalSubset, TotalType
      <4> QED
        BY <2>3, <4>2, <4>3, <4>4
    <3> QED
      BY <3>1, <3>2
  <2>13. Approving(c)'
    BY <2>1, <2>6, <2>7, <2>12 DEF Approving
  <2>14. BooksOf(c)'
    BY <1>1, <2>1, <2>6, <2>13 DEF BooksOf, Charges
  <2>15. \A d \in Calls \ {c} : txn'[d] = txn[d]
    BY <1>2 DEF Continue, BooksInv, LockInv, TypeOK
  <2> QED
    BY <1>2, <2>14, <2>15, StepOfOneKeepsBooks
<1>3. CASE Rollback(c, "refused")
  BY <1>3, RollbackKeepsBooks DEF Ended
<1> QED
  BY <1>2, <1>3 DEF Approve

\* What is taken from a window is within what the code found to be available, so
\* within the member's entitlement and the pool's allotment.
LEMMA TakenFromWindow ==
  ASSUME BooksInv, NEW c \in Calls, Charges(c), txn[c].pc = "decide", txn[c].of \in DOMAIN txn[c].seen,
         NEW n \in Nat, n > 0, n =< Available(c)
  PROVE  /\ txn[c].seen[txn[c].of] + n =< Base[txn[c].of] + Total(SolidTo(txn[c].of))
         /\ txn[c].seen[txn[c].of] + n =< TotalOf(Base)
<1> DEFINE of    == txn[c].of
           solid == { g \in txn[c].received : grants[g].type = "SOLID" }
           rows  == { grants[g] : g \in solid }
           sent  == Total(OfType(c, txn[c].sent, "SOLID"))
           got   == Total(OfType(c, txn[c].received, "SOLID"))
<1>1. txn[c].pc \in Stages \ {"commit"} /\ LockInv
  BY DEF Stages, BooksInv
<1>2. Active(c) /\ ReadsStand(c) /\ txn[c].seen \in [DOMAIN txn[c].seen -> Nat] /\ DOMAIN txn[c].seen \subseteq Members
  BY <1>1, UnderWay DEF Transactions
<1>3. txn[c].received \in SUBSET DOMAIN grants
  BY <1>2 DEF ReadsStand
<1>4. /\ n =< Base[of] - sent + got - txn[c].seen[of]
      /\ sent \in Nat /\ got \in Nat /\ Base[of] \in Nat /\ txn[c].seen[of] \in Nat
  BY <1>1, AvailableType
<1>5. got = Total(rows) /\ Summable(rows)
  <2>1. \A g \in txn[c].received : SameGrant(grants[g], View(c)[g])
    BY <1>1, <1>3, ViewOfGrants
  <2>2. OfType(c, txn[c].received, "SOLID") = { View(c)[g] : g \in solid }
    BY <2>1 DEF OfType, SameGrant
  <2>3. \A g \in solid : /\ grants[g].id = g /\ View(c)[g].id = g /\ grants[g].amount \in Nat
                         /\ View(c)[g].amount = grants[g].amount
    BY <1>1, <1>3, <2>1 DEF SameGrant, LockInv, TypeOK, WellFormed, Grants
  <2> DEFINE got_rows == OfType(c, txn[c].received, "SOLID")
  <2>4. Summable(rows)
    BY <1>1, <1>3, GrantsSummable
  <2>5. \A r \in rows : \E q : IsRowFor(q, got_rows, r)
    BY <2>2, <2>3 DEF IsRowFor
  <2>6. \A q \in got_rows : \E r : IsRowFor(r, rows, q)
    BY <2>2, <2>3 DEF IsRowFor
  <2>7. /\ \A r, q \in rows : r.id = q.id => r = q
        /\ \A r, q \in got_rows : r.id = q.id => r = q
    BY <2>2, <2>3
  <2> HIDE DEF rows, got_rows
  <2>8. Total(got_rows) = Total(rows)
    BY <2>4, <2>5, <2>6, <2>7, SameUnits
  <2> QED
    BY <2>4, <2>8 DEF got_rows
<1>6. /\ \A g \in solid : grants[g].recipient = of
      /\ Base[of] + Total(rows) =< TotalOf(Base)
  BY <1>2 DEF BooksInv, Summarised
<1>7. Total(rows) =< Total(SolidTo(of)) /\ Total(SolidTo(of)) \in Nat /\ Total(rows) \in Nat
  <2>1. rows \in SUBSET SolidTo(of)
    BY <1>3, <1>6 DEF SolidTo, Range
  <2>2. Summable(SolidTo(of))
    BY <1>1, SolidToGrants, GrantsSummable
  <2> HIDE DEF rows
  <2> QED
    BY <1>5, <2>1, <2>2, TotalSubset, TotalType
<1>8. TotalOf(Base) \in Nat
  BY PoolAssumption, TotalOfType
<1> HIDE DEF sent, got, rows
<1> QED
  BY <1>4, <1>5, <1>6, <1>7, <1>8

\* What transaction t has taken of its own units.
OwnOf(t) == t.call.amount - t.shortfall - Total(t.drawn)

DrawnBy(t, m) == { s \in t.drawn : grants[s.grant].source = m }

\* Accounts and Draws, said of a charge that has just taken some units and is
\* about to go on.
SoundCharge(t) ==
  /\ OwnOf(t) >= 0 /\ t.call.member \in DOMAIN t.seen
  /\ \A m \in DOMAIN t.seen :
       /\ t.seen[m] = usage[m] + Total(DrawnBy(t, m)) + (IF m = t.call.member THEN OwnOf(t) ELSE 0)
       /\ t.seen[m] =< Base[m] + Total(SolidTo(m))
       /\ t.seen[m] > usage[m] => t.seen[m] =< TotalOf(Base)
  /\ \A s \in t.drawn :
       /\ s.key = t.call.key /\ s.grant \in DOMAIN grants \ Range(t.queue)
       /\ grants[s.grant].source \in DOMAIN t.seen /\ grants[s.grant].recipient = t.call.member
       /\ s.amount + Total({ r \in shared : r.grant = s.grant }) =< grants[s.grant].amount
  /\ \A r, s \in t.drawn : r.grant = s.grant => r = s
  /\ \A i, j \in 1..Len(t.queue) : t.queue[i] = t.queue[j] => i = j
  /\ \A g \in Range(t.queue) : g \in DOMAIN grants /\ grants[g].recipient = t.call.member

\* A sound charge goes on to the next lender, or to its end, as a sound one.
LEMMA ChargeGoesOnSoundly ==
  ASSUME BooksInv, LockInv', NEW c \in Calls, Decided(c, "consume"), ~txn[c].replay,
         NEW v \in Transactions(DOMAIN txn[c].seen, DOMAIN txn[c].wrote),
         v.call = txn[c].call, v.replay = txn[c].replay, SoundCharge(v),
         NEW u, u = Onward(c, v), Continue(c, u), UNCHANGED tables
  PROVE  BooksInv'
<1>1. /\ txn[c].pc = "decide" /\ txn[c].pc \in Stages \ {"commit"} /\ LockInv
      /\ txn[c].call.op = "consume"
  BY DEF Decided, Stages, BooksInv
<1>2. txn'[c] = u /\ \A d \in Calls \ {c} : txn'[d] = txn[d]
  BY <1>1 DEF Continue, LockInv, TypeOK
<1>3. v.queue # <<>> =>
        /\ View(c)[Head(v.queue)].source = grants[Head(v.queue)].source
        /\ grants[Head(v.queue)].source \in Members
        /\ grants[Head(v.queue)].source # v.call.member
  <2> SUFFICES ASSUME v.queue # <<>>
      PROVE  /\ View(c)[Head(v.queue)].source = grants[Head(v.queue)].source
             /\ grants[Head(v.queue)].source \in Members
             /\ grants[Head(v.queue)].source # v.call.member
    OBVIOUS
  <2>1. v.queue \in Seq(Ids)
    BY DEF Transactions
  <2>2. Head(v.queue) \in Range(v.queue)
    BY <2>1, HeadAndTail
  <2>3. Head(v.queue) \in DOMAIN grants /\ grants[Head(v.queue)].recipient = v.call.member
    BY <2>2 DEF SoundCharge
  <2>4. SameGrant(grants[Head(v.queue)], View(c)[Head(v.queue)])
    BY <1>1, <2>3, ViewOfGrants
  <2>5. /\ grants[Head(v.queue)].source \in Members
        /\ grants[Head(v.queue)].source # grants[Head(v.queue)].recipient
    BY <1>1, <2>3 DEF LockInv, TypeOK, WellFormed, Grants
  <2> QED
    BY <2>3, <2>4, <2>5 DEF SameGrant
<1>4. /\ u.call = v.call /\ u.replay = v.replay /\ u.seen = v.seen
      /\ u.shortfall = v.shortfall /\ u.queue = v.queue /\ u.drawn = v.drawn
      /\ \/ v.shortfall = 0 /\ u.pc = "commit"
         \/ u.pc = "refuse"
         \/ /\ v.queue # <<>> /\ u.of = View(c)[Head(v.queue)].source
            /\ u.pc = IF u.of \in DOMAIN v.seen THEN "sent" ELSE "window"
  BY <1>3, OnwardProperties
<1>5. TakenOwn(c)'
  BY <1>2, <1>3, <1>4 DEF TakenOwn
<1>6. /\ Own(c)' = OwnOf(v) /\ \A m : DrawnFrom(c, m)' = DrawnBy(v, m)
      /\ \A m : SolidTo(m)' = SolidTo(m)
      /\ \A g : Total({ r \in shared : r.grant = g })' = Total({ r \in shared : r.grant = g })
  <2>1. Own(c)' = OwnOf(v)
    BY <1>2, <1>4, <1>5 DEF Own, OwnOf
  <2> QED
    BY <1>2, <1>4, <2>1 DEF DrawnFrom, DrawnBy, SolidTo, tables
<1>7. Accounts(c)'
  BY <1>2, <1>4, <1>5, <1>6 DEF Accounts, SoundCharge, tables
<1>8. Draws(c)'
  <2>1. txn'[c].pc \notin {"refuse", "commit"} => txn'[c].of = grants[Head(txn'[c].queue)].source
    BY <1>2, <1>3, <1>4
  <2>2. grants' = grants /\ shared' = shared
    BY DEF tables
  <2>3. ASSUME NEW s \in v.drawn
        PROVE  /\ s.key = v.call.key /\ s.grant \in DOMAIN grants \ Range(v.queue)
               /\ grants[s.grant].source \in DOMAIN v.seen /\ grants[s.grant].recipient = v.call.member
    BY <2>3 DEF SoundCharge
  <2>4. ASSUME NEW s \in v.drawn
        PROVE  s.amount + Total({ r \in shared' : r.grant = s.grant }) =< grants[s.grant].amount
    BY <2>2, <2>4 DEF SoundCharge
  <2>5. /\ \A r, s \in v.drawn : r.grant = s.grant => r = s
        /\ \A i, j \in 1..Len(v.queue) : v.queue[i] = v.queue[j] => i = j
        /\ \A g \in Range(v.queue) : grants[g].recipient = v.call.member
    BY DEF SoundCharge
  <2> QED
    BY <1>2, <1>4, <2>1, <2>2, <2>3, <2>4, <2>5 DEF Draws
<1>9. Summarised(c)'
  BY <1>2, <1>4 DEF Summarised
<1>10. BooksOf(c)'
  BY <1>1, <1>2, <1>4, <1>7, <1>8, <1>9 DEF BooksOf
<1> QED
  BY <1>2, <1>10, StepOfOneKeepsBooks

\* A charge takes its own units first, and is sound.
LEMMA TakeOwnKeepsBooks ==
  ASSUME BooksInv, LockInv', NEW c \in Calls, TakeOwn(c)
  PROVE  BooksInv'
<1> DEFINE member == txn[c].call.member
<1>1. /\ Decided(c, "consume") /\ ~txn[c].replay /\ txn[c].of = member
      /\ txn[c].pc = "decide" /\ txn[c].pc \in Stages /\ LockInv
      /\ txn[c].call.op = "consume" /\ Charges(c)
  BY DEF TakeOwn, Decided, Stages, BooksInv, Charges
<1>2. /\ UNCHANGED tables
      /\ \E own \in 0..txn[c].call.amount : \E v : Took(c, own, v) /\ Continue(c, Onward(c, v))
  BY <1>1, TakeOwnStep
<1>3. PICK own \in 0..txn[c].call.amount : \E v : Took(c, own, v) /\ Continue(c, Onward(c, v))
  BY <1>2
<1>4. PICK v : Took(c, own, v) /\ Continue(c, Onward(c, v))
  BY <1>3
<1>5. /\ Active(c) /\ InStage(c) /\ HoldsLocks(c) /\ ReadsStand(c) /\ member \in Members
      /\ txn[c].seen \in [DOMAIN txn[c].seen -> Nat]
  BY <1>1, UnderWay DEF Transactions
<1>6. Accounts(c) /\ Summarised(c) /\ ~TakenOwn(c)
  BY <1>1, <1>5 DEF BooksInv, TakenOwn
<1>7. member \in DOMAIN txn[c].seen /\ DOMAIN txn[c].seen = {member} /\ txn[c].drawn = {}
  BY <1>1, <1>5, <1>6 DEF HoldsLocks, Accounts
<1>8. txn[c].call.amount \in Nat /\ own \in Nat /\ usage[member] \in Nat
  BY <1>1, <1>5, WorkloadAssumption DEF InStage, LockInv, TypeOK
<1>9. /\ v \in Transactions(DOMAIN txn[c].seen, DOMAIN txn[c].wrote)
      /\ v.call = txn[c].call /\ v.replay = txn[c].replay /\ v.drawn = {}
      /\ v.shortfall = txn[c].call.amount - own
      /\ v.seen[member] = txn[c].seen[member] + own
      /\ Range(v.queue) \subseteq txn[c].received
      /\ \A i, j \in 1..Len(v.queue) : v.queue[i] = v.queue[j] => i = j
      /\ own =< Available(c)
  BY <1>1, <1>4, <1>7 DEF Took
<1>10. DOMAIN v.seen = {member}
  BY <1>7, <1>9 DEF Transactions
<1>11. OwnOf(v) = own
  BY <1>8, <1>9, TotalEmpty DEF OwnOf
<1>12. txn[c].seen[member] = usage[member] /\ txn[c].seen[member] =< Base[member] + Total(SolidTo(member))
  <2>1. DrawnFrom(c, member) = {} /\ Own(c) = 0
    BY <1>6, <1>7 DEF DrawnFrom, Own
  <2>2. /\ txn[c].seen[member] = usage[member] + Total(DrawnFrom(c, member)) + Own(c)
        /\ txn[c].seen[member] =< Base[member] + Total(SolidTo(member))
    BY <1>6, <1>7 DEF Accounts
  <2>3. Total(DrawnFrom(c, member)) = 0
    BY <2>1, TotalEmpty
  <2> QED
    BY <1>8, <2>1, <2>2, <2>3
<1>13. /\ v.seen[member] = usage[member] + own
       /\ v.seen[member] =< Base[member] + Total(SolidTo(member))
       /\ v.seen[member] > usage[member] => v.seen[member] =< TotalOf(Base)
  <2>1. CASE own = 0
    BY <1>8, <1>9, <1>12, <2>1
  <2>2. CASE own > 0
    BY <1>1, <1>7, <1>8, <1>9, <1>12, <2>2, TakenFromWindow
  <2> QED
    BY <1>8, <2>1, <2>2
<1>14. Total(DrawnBy(v, member)) = 0
  BY <1>9, TotalEmpty DEF DrawnBy
<1>15. \A g \in Range(v.queue) : g \in DOMAIN grants /\ grants[g].recipient = member
  BY <1>1, <1>5, <1>6, <1>9 DEF ReadsStand, Summarised
<1>16. SoundCharge(v)
  BY <1>8, <1>9, <1>10, <1>11, <1>13, <1>14, <1>15 DEF SoundCharge
<1> QED
  BY <1>1, <1>2, <1>4, <1>9, <1>16, ChargeGoesOnSoundly

\* A charge draws on the first grant of its queue, and is sound.
LEMMA DrawKeepsBooks ==
  ASSUME BooksInv, LockInv', NEW c \in Calls, Draw(c)
  PROVE  BooksInv'
<1> DEFINE t      == txn[c]
           member == txn[c].call.member
           of     == txn[c].of
           g      == Head(txn[c].queue)
<1>1. /\ Decided(c, "consume") /\ ~txn[c].replay /\ of # member
      /\ txn[c].pc = "decide" /\ txn[c].pc \in Stages /\ LockInv
      /\ txn[c].call.op = "consume" /\ Charges(c)
  BY DEF Draw, Decided, Stages, BooksInv, Charges
<1>2. /\ UNCHANGED tables /\ txn[c].queue # <<>>
      /\ \E draw \in 0..txn[c].shortfall : \E v : Drew(c, draw, v) /\ Continue(c, Onward(c, v))
  BY <1>1, DrawStep
<1>3. PICK draw \in 0..txn[c].shortfall : \E v : Drew(c, draw, v) /\ Continue(c, Onward(c, v))
  BY <1>2
<1>4. PICK v : Drew(c, draw, v) /\ Continue(c, Onward(c, v))
  BY <1>3
<1>5. /\ Active(c) /\ InStage(c) /\ HoldsLocks(c) /\ ReadsStand(c) /\ member \in Members
      /\ txn[c].seen \in [DOMAIN txn[c].seen -> Nat] /\ DOMAIN txn[c].seen \subseteq Members
      /\ txn[c].shortfall \in Nat /\ txn[c].queue \in Seq(Ids)
  BY <1>1, UnderWay DEF Transactions
<1>6. Accounts(c) /\ Draws(c) /\ Summarised(c) /\ TakenOwn(c)
  BY <1>1, <1>5 DEF BooksInv, TakenOwn
<1>7. of \in DOMAIN txn[c].seen /\ member \in DOMAIN txn[c].seen
  BY <1>1, <1>5, <1>6 DEF HoldsLocks, Accounts
<1>8. draw \in Nat /\ txn[c].call.amount \in Nat /\ \A m \in DOMAIN txn[c].seen : usage[m] \in Nat
  BY <1>1, <1>5, WorkloadAssumption DEF InStage, LockInv, TypeOK
<1>9. /\ g \in DOMAIN grants /\ g \in Range(txn[c].queue)
      /\ grants[g].recipient = member /\ grants[g].source = of
  <2>1. g \in Range(txn[c].queue)
    BY <1>2, <1>5, HeadAndTail
  <2> QED
    BY <1>1, <1>5, <1>6, <2>1 DEF ReadsStand, Draws
<1> DEFINE row == [key |-> txn[c].call.key, grant |-> g, amount |-> draw]
<1>10. /\ v \in Transactions(DOMAIN txn[c].seen, DOMAIN txn[c].wrote)
       /\ v.call = txn[c].call /\ v.replay = txn[c].replay
       /\ v.shortfall = txn[c].shortfall - draw
       /\ v.seen[of] = txn[c].seen[of] + draw
       /\ \A m \in DOMAIN txn[c].seen \ {of} : v.seen[m] = txn[c].seen[m]
       /\ v.queue = Tail(txn[c].queue)
       /\ v.drawn = IF draw = 0 THEN txn[c].drawn ELSE txn[c].drawn \cup {row}
       /\ draw > 0 => /\ draw =< Available(c)
                      /\ draw + Total({ s \in shared : s.grant = g }) =< grants[g].amount
  BY <1>4 DEF Drew
<1>11. DOMAIN v.seen = DOMAIN txn[c].seen
  BY <1>10 DEF Transactions
<1>12. \A part \in SUBSET txn[c].drawn : Summable(part) /\ Total(part) \in Nat
  BY <1>1, DrawnSummable
<1>13. \A s \in txn[c].drawn : s.grant # g
  BY <1>6, <1>9 DEF Draws
<1>14. OwnOf(v) = Own(c)
  <2>1. Own(c) = txn[c].call.amount - txn[c].shortfall - Total(txn[c].drawn)
    BY <1>6 DEF Own
  <2>2. Total(v.drawn) = Total(txn[c].drawn) + draw
    <3>1. CASE draw = 0
      BY <1>10, <1>12, <3>1
    <3>2. CASE draw # 0
      <4>1. row \notin txn[c].drawn /\ row.amount = draw
        BY <1>13
      <4>2. Summable(txn[c].drawn)
        BY <1>12
      <4> HIDE DEF row
      <4>3. Total(txn[c].drawn \cup {row}) = Total(txn[c].drawn) + draw
        BY <1>8, <4>1, <4>2, TotalAdd
      <4> QED
        BY <1>10, <3>2, <4>3
    <3> QED
      BY <3>1, <3>2
  <2>3. Total(txn[c].drawn) \in Nat
    BY <1>12
  <2>4. OwnOf(v) = txn[c].call.amount - (txn[c].shortfall - draw) - (Total(txn[c].drawn) + draw)
    BY <1>10, <2>2 DEF OwnOf
  <2> QED
    BY <1>5, <1>8, <2>1, <2>3, <2>4
<1>15. ASSUME NEW m
       PROVE  Total(DrawnBy(v, m)) = Total(DrawnFrom(c, m)) + (IF m = of THEN draw ELSE 0)
  <2>1. DrawnFrom(c, m) \in SUBSET txn[c].drawn
    BY DEF DrawnFrom
  <2>2. Summable(DrawnFrom(c, m)) /\ Total(DrawnFrom(c, m)) \in Nat
    BY <1>12, <2>1
  <2>3. CASE m = of /\ draw # 0
    <3>1. DrawnBy(v, m) = DrawnFrom(c, m) \cup {row} /\ row \notin DrawnFrom(c, m) /\ row.amount = draw
      BY <1>9, <1>10, <1>13, <2>3 DEF DrawnBy, DrawnFrom
    <3> HIDE DEF row
    <3> QED
      BY <1>8, <2>2, <2>3, <3>1, TotalAdd
  <2>4. CASE m # of \/ draw = 0
    <3>1. DrawnBy(v, m) = DrawnFrom(c, m)
      BY <1>9, <1>10, <2>4 DEF DrawnBy, DrawnFrom
    <3> QED
      BY <1>8, <2>2, <2>4, <3>1
  <2> QED
    BY <2>3, <2>4
<1>16. \A m : Total(DrawnFrom(c, m)) \in Nat
  BY <1>12 DEF DrawnFrom
<1>17. ASSUME NEW m \in DOMAIN txn[c].seen
       PROVE  /\ v.seen[m] = usage[m] + Total(DrawnBy(v, m)) + (IF m = member THEN OwnOf(v) ELSE 0)
              /\ v.seen[m] =< Base[m] + Total(SolidTo(m))
              /\ v.seen[m] > usage[m] => v.seen[m] =< TotalOf(Base)
  <2>1. /\ txn[c].seen[m] = usage[m] + Total(DrawnFrom(c, m)) + (IF m = member THEN Own(c) ELSE 0)
        /\ txn[c].seen[m] =< Base[m] + Total(SolidTo(m))
        /\ txn[c].seen[m] > usage[m] => txn[c].seen[m] =< TotalOf(Base)
    BY <1>6, <1>17 DEF Accounts
  <2>2. txn[c].seen[m] \in Nat /\ usage[m] \in Nat /\ Total(DrawnFrom(c, m)) \in Nat
    BY <1>5, <1>8, <1>16, <1>17
  <2>3. CASE m # of \/ draw = 0
    <3>1. v.seen[m] = txn[c].seen[m] /\ Total(DrawnBy(v, m)) = Total(DrawnFrom(c, m))
      BY <1>10, <1>15, <1>16, <1>17, <2>2, <2>3
    <3> QED
      BY <1>14, <2>1, <3>1
  <2>4. CASE m = of /\ draw # 0
    <3>1. v.seen[m] = txn[c].seen[m] + draw /\ Total(DrawnBy(v, m)) = Total(DrawnFrom(c, m)) + draw
      BY <1>10, <1>15, <2>4
    <3>2. v.seen[m] = usage[m] + Total(DrawnBy(v, m))
      BY <1>1, <1>8, <2>1, <2>2, <2>4, <3>1
    <3>3. v.seen[m] =< Base[m] + Total(SolidTo(m)) /\ v.seen[m] =< TotalOf(Base)
      BY <1>1, <1>7, <1>8, <1>10, <2>4, <3>1, TakenFromWindow
    <3>4. m # member /\ usage[m] \in Nat /\ Total(DrawnBy(v, m)) \in Int
      BY <1>1, <1>8, <2>2, <2>4, <3>1
    <3> QED
      BY <3>2, <3>3, <3>4
  <2> QED
    BY <2>3, <2>4
<1>18. /\ Range(Tail(txn[c].queue)) \subseteq Range(txn[c].queue) /\ g \notin Range(Tail(txn[c].queue))
       /\ \A i, j \in 1..Len(v.queue) : v.queue[i] = v.queue[j] => i = j
  <2>1. /\ Range(Tail(txn[c].queue)) \subseteq Range(txn[c].queue)
        /\ Tail(txn[c].queue) \in Seq(Ids)
    BY <1>2, <1>5, HeadAndTail
  <2>2. /\ Len(txn[c].queue) \in Nat \ {0} /\ g = txn[c].queue[1]
        /\ Len(Tail(txn[c].queue)) = Len(txn[c].queue) - 1
        /\ \A i \in 1..Len(Tail(txn[c].queue)) : Tail(txn[c].queue)[i] = txn[c].queue[i + 1]
    BY <1>2, <1>5
  <2>3. \A i, j \in 1..Len(txn[c].queue) : txn[c].queue[i] = txn[c].queue[j] => i = j
    BY <1>6 DEF Draws
  <2>4. \A i \in 1..Len(Tail(txn[c].queue)) : i + 1 \in 1..Len(txn[c].queue) /\ i + 1 # 1
    BY <2>2
  <2>5. ASSUME NEW i \in 1..Len(Tail(txn[c].queue)), NEW j \in 1..Len(Tail(txn[c].queue)),
               Tail(txn[c].queue)[i] = Tail(txn[c].queue)[j]
        PROVE  i = j
    <3>1. txn[c].queue[i + 1] = txn[c].queue[j + 1]
      BY <2>2, <2>5
    <3>2. i + 1 = j + 1
      BY <2>3, <2>4, <3>1
    <3> QED
      BY <3>2
  <2>6. \A i \in 1..Len(Tail(txn[c].queue)) : Tail(txn[c].queue)[i] # g
    BY <2>2, <2>3, <2>4
  <2>7. \A x : x \in Range(Tail(txn[c].queue)) <=> \E i \in 1..Len(Tail(txn[c].queue)) : Tail(txn[c].queue)[i] = x
    BY <2>1, RangeOfSequence
  <2> QED
    BY <1>10, <2>1, <2>5, <2>6, <2>7
<1>19. ASSUME NEW s \in v.drawn
       PROVE  /\ s.key = v.call.key /\ s.grant \in DOMAIN grants \ Range(v.queue)
              /\ grants[s.grant].source \in DOMAIN v.seen /\ grants[s.grant].recipient = v.call.member
              /\ s.amount + Total({ r \in shared : r.grant = s.grant }) =< grants[s.grant].amount
  <2>1. CASE s \in txn[c].drawn
    BY <1>6, <1>10, <1>11, <1>18, <2>1 DEF Draws
  <2>2. CASE s \notin txn[c].drawn
    <3>1. s = row /\ draw > 0
      BY <1>8, <1>10, <1>19, <2>2
    <3>2. s.grant = g /\ s.key = v.call.key /\ s.amount = draw
      BY <1>10, <3>1
    <3> QED
      BY <1>7, <1>9, <1>10, <1>11, <1>18, <3>1, <3>2
  <2> QED
    BY <2>1, <2>2
<1>20. \A r, s \in v.drawn : r.grant = s.grant => r = s
  BY <1>6, <1>10, <1>13 DEF Draws
<1>21. \A h \in Range(v.queue) : h \in DOMAIN grants /\ grants[h].recipient = v.call.member
  BY <1>5, <1>6, <1>10, <1>18 DEF ReadsStand, Draws
<1>22. OwnOf(v) >= 0 /\ v.call.member \in DOMAIN v.seen
  BY <1>6, <1>7, <1>10, <1>11, <1>14 DEF Accounts
<1>23. SoundCharge(v)
  BY <1>10, <1>11, <1>17, <1>18, <1>19, <1>20, <1>21, <1>22 DEF SoundCharge
<1> QED
  BY <1>1, <1>2, <1>4, <1>10, <1>23, ChargeGoesOnSoundly

-----------------------------------------------------------------------------
(* Committing.                                                             *)

\* Any selection from a grants table can be summed up.
LEMMA TableSummable ==
  ASSUME NEW table, table \in [DOMAIN table -> Grants], NEW S \in SUBSET DOMAIN table, IsFiniteSet(S)
  PROVE  /\ Summable({ table[g] : g \in S }) /\ Total({ table[g] : g \in S }) \in Nat
<1> DEFINE rows == { table[g] : g \in S }
           row  == [g \in S |-> table[g]]
<1>1. row \in Surjection(S, rows)
  BY DEF Surjection
<1>2. \A r \in rows : r.amount \in Nat
  BY DEF Grants
<1> HIDE DEF rows, row
<1>3. IsFiniteSet(rows)
  BY <1>1, FS_Surjection
<1>4. Summable(rows) /\ Total(rows) \in Nat
  BY <1>2, <1>3, TotalType DEF Summable
<1> QED
  BY <1>4 DEF rows

\* The same grants in two tables come to the same units.
LEMMA SameGrantsSameUnits ==
  ASSUME NEW table, table \in [DOMAIN table -> Grants],
         NEW S \in SUBSET DOMAIN table, IsFiniteSet(S), NEW later,
         \A g \in S : table[g].id = g /\ SameGrant(table[g], later[g])
  PROVE  /\ Total({ later[g] : g \in S }) = Total({ table[g] : g \in S })
         /\ Summable({ later[g] : g \in S })
<1> DEFINE F == { table[g] : g \in S }
           G == { later[g] : g \in S }
<1>1. Summable(F)
  BY TableSummable
<1>2. \A g \in S : table[g].id = g /\ later[g].id = g /\ later[g].amount = table[g].amount
  BY DEF SameGrant
<1>3. \A r \in F : \E q : IsRowFor(q, G, r)
  BY <1>2 DEF IsRowFor
<1>4. \A q \in G : \E r : IsRowFor(r, F, q)
  BY <1>2 DEF IsRowFor
<1>5. (\A r, q \in F : r.id = q.id => r = q) /\ (\A r, q \in G : r.id = q.id => r = q)
  BY <1>2
<1> HIDE DEF F, G
<1>6. Summable(G) /\ Total(G) = Total(F)
  BY <1>1, <1>3, <1>4, <1>5, SameUnits
<1> QED
  BY <1>6 DEF F, G

\* A commit keeps all of a grant but its status, revives none, and adds one grant
\* if it approves.
LEMMA CommitKeepsGrants ==
  ASSUME LockInv, NEW c \in Calls, Commit(c)
  PROVE  /\ DOMAIN grants \subseteq DOMAIN grants'
         /\ \A g \in DOMAIN grants :
              /\ grants[g].id = g /\ SameGrant(grants[g], grants'[g])
              /\ grants'[g].status = "ACTIVE" => grants'[g] = grants[g]
         /\ \A g \in DOMAIN grants' \ DOMAIN grants :
              /\ g = c /\ txn[c].call.op = "approve" /\ grants'[g] = NewGrant(c)
              /\ grants'[g].source = txn[c].of /\ txn[c].of \in DOMAIN txn[c].seen
         /\ c \notin DOMAIN grants
         /\ grants' \in [DOMAIN grants' -> Grants] /\ IsFiniteSet(DOMAIN grants')
<1>1. txn[c].pc = "commit" /\ txn[c].pc \in Stages /\ grants' = View(c)
  BY CommitEffects DEF Stages
<1>2. /\ InStage(c) /\ HoldsLocks(c) /\ WritesEnds(c) /\ ReadsStand(c) /\ c \notin DOMAIN grants
  BY <1>1, UnderWay
<1>3. txn[c].verdict = "APPROVED" => txn[c].call.op = "approve"
  BY <1>1, <1>2 DEF WritesEnds
<1>4. txn[c].call.op = "approve" => NewGrant(c).source = txn[c].of /\ txn[c].of \in DOMAIN txn[c].seen
  BY <1>1, <1>2 DEF NewGrant, InStage, ReadsStand, HoldsLocks
<1>5. \A g \in DOMAIN grants : grants[g].id = g
  BY DEF LockInv, TypeOK, WellFormed
<1>6. /\ DOMAIN View(c) = DOMAIN grants \cup (IF txn[c].verdict = "APPROVED" THEN {c} ELSE {})
      /\ \A g \in DOMAIN grants :
           /\ SameGrant(grants[g], View(c)[g])
           /\ View(c)[g].status = "ACTIVE" => View(c)[g] = grants[g]
      /\ txn[c].verdict = "APPROVED" => View(c)[c] = NewGrant(c)
      /\ View(c) \in [DOMAIN View(c) -> Grants] /\ IsFiniteSet(DOMAIN View(c))
  BY <1>1, CommittedView
<1> QED
  BY <1>1, <1>2, <1>3, <1>4, <1>5, <1>6

\* What members were ever granted for good only grows.
LEMMA SolidGrows ==
  ASSUME LockInv, NEW c \in Calls, Commit(c), NEW m
  PROVE  /\ Total(SolidTo(m)) =< Total(SolidTo(m)') /\ Total(SolidTo(m)) \in Nat /\ Total(SolidTo(m)') \in Nat
<1> DEFINE ids   == { h \in DOMAIN grants : grants[h].recipient = m /\ grants[h].type = "SOLID" }
           later == grants'
           after == { later[g] : g \in ids }
           solid == { r \in Range(later) : r.recipient = m /\ r.type = "SOLID" }
<1>1. IsFiniteSet(ids) /\ grants \in [DOMAIN grants -> Grants]
  BY FS_Subset DEF LockInv, TypeOK
<1>2. \A g \in ids : g \in DOMAIN later /\ grants[g].id = g /\ SameGrant(grants[g], later[g])
  BY CommitKeepsGrants
<1>3. later \in [DOMAIN later -> Grants] /\ IsFiniteSet(DOMAIN later)
  BY CommitKeepsGrants
<1>4. SolidTo(m)' = solid
  BY DEF SolidTo
<1> HIDE DEF later
<1>5. SolidTo(m) = { grants[g] : g \in ids }
  BY SolidToGrants
<1>6. Total(after) = Total(SolidTo(m))
  <2> HIDE DEF ids
  <2>1. ids \in SUBSET DOMAIN grants
    BY DEF ids
  <2>2. Total({ later[g] : g \in ids }) = Total({ grants[g] : g \in ids })
    BY <1>1, <1>2, <2>1, SameGrantsSameUnits
  <2> QED
    BY <1>5, <2>2
<1>7. Summable(solid)
  <2> DEFINE all == { h \in DOMAIN later : later[h].recipient = m /\ later[h].type = "SOLID" }
  <2>1. solid = { later[h] : h \in all }
    BY DEF Range
  <2>2. IsFiniteSet(all)
    BY <1>3, FS_Subset
  <2>3. all \in SUBSET DOMAIN later
    OBVIOUS
  <2> HIDE DEF all
  <2>4. Summable({ later[h] : h \in all })
    BY <1>3, <2>2, <2>3, TableSummable
  <2> QED
    BY <2>1, <2>4
<1>8. after \in SUBSET solid
  BY <1>2 DEF SameGrant, Range
<1>9. Total(SolidTo(m)) \in Nat
  BY <1>5, GrantsSummable
<1> HIDE DEF after, solid
<1> QED
  BY <1>4, <1>6, <1>7, <1>8, <1>9, TotalSubset, TotalType

\* The report that a charging call c files.
Report(c) == [key |-> txn[c].call.key, member |-> txn[c].call.member, amount |-> txn[c].call.amount]

\* A commit charges what its call computed, or no one.
LEMMA CommitCharges ==
  ASSUME LockInv, NEW c \in Calls, Commit(c)
  PROVE  /\ ~Charges(c) => UNCHANGED <<usage, records, shared>>
         /\ Charges(c) => /\ usage' = Over(txn[c].seen, usage)
                          /\ records' = records \cup {Report(c)}
                          /\ shared' = shared \cup txn[c].drawn
                          /\ \A r \in records : r.key # txn[c].call.key
<1>1. txn[c].pc = "commit"
  BY DEF Commit
<1>2. Charges(c) => \A r \in records : r.key # txn[c].call.key
  BY <1>1, ReportIsNew
<1> QED
  BY <1>2 DEF Commit, Report

\* Calls under way hold different windows.
LEMMA WindowsApart ==
  ASSUME LockInv, NEW c \in Calls, NEW d \in Calls, c # d, Active(c), Active(d)
  PROVE  DOMAIN txn[c].seen \cap DOMAIN txn[d].seen = {}
<1>1. HoldsLocks(c) /\ HoldsLocks(d) /\ held[c] \cap held[d] = {}
  BY DEF LockInv, MutualExclusion
<1>2. /\ \A m \in DOMAIN txn[c].seen : <<"window", m>> \in held[c]
      /\ \A m \in DOMAIN txn[d].seen : <<"window", m>> \in held[d]
  BY <1>1 DEF HoldsLocks
<1> QED
  BY <1>1, <1>2

\* A commit leaves the other charges' windows, and their grants, as they found them.
LEMMA CommitSparesCharges ==
  ASSUME BooksInv, NEW c \in Calls, Commit(c), NEW d \in Calls, d # c, Active(c), Active(d), Charges(d),
         txn'[d] = txn[d]
  PROVE  Accounts(d)' /\ Draws(d)' /\ Summarised(d)'
<1>1. /\ LockInv /\ Accounts(d) /\ Draws(d) /\ Summarised(d) /\ ReadsStand(d)
      /\ txn[d].queue \in Seq(Ids)
      /\ txn[d].pc \in Stages
  BY ActiveIsUnderWay, UnderWay DEF BooksInv, Transactions
<1>2. /\ DOMAIN grants \subseteq DOMAIN grants'
      /\ \A g \in DOMAIN grants : grants[g].id = g /\ SameGrant(grants[g], grants'[g])
  BY <1>1, CommitKeepsGrants
<1>3. DOMAIN txn[c].seen \cap DOMAIN txn[d].seen = {}
  BY <1>1, WindowsApart
<1>4. \A m \in DOMAIN txn[d].seen : usage'[m] = usage[m]
  <2>1. CASE Charges(c)
    <3>1. usage' = Over(txn[c].seen, usage) /\ DOMAIN txn[d].seen \subseteq DOMAIN usage
      BY <1>1, <2>1, CommitCharges, UnderWay DEF LockInv, TypeOK
    <3> QED
      BY <1>3, <3>1 DEF Over
  <2>2. CASE ~Charges(c)
    BY <1>1, <2>2, CommitCharges
  <2> QED
    BY <2>1, <2>2
<1>5. /\ TakenOwn(d)' <=> TakenOwn(d)
      /\ Own(d)' = Own(d)
  BY DEF TakenOwn, Own
<1>6. \A s \in txn[d].drawn : s.grant \in DOMAIN grants /\ grants[s.grant].source \in DOMAIN txn[d].seen
  BY <1>1 DEF Draws
<1>7. \A m : DrawnFrom(d, m)' = DrawnFrom(d, m)
  BY <1>2, <1>6 DEF DrawnFrom, SameGrant
<1>8. \A s \in txn[d].drawn : { r \in shared' : r.grant = s.grant } = { r \in shared : r.grant = s.grant }
  <2>1. CASE Charges(c)
    <3>1. shared' = shared \cup txn[c].drawn
      BY <1>1, <2>1, CommitCharges
    <3>2. \A r \in txn[c].drawn : grants[r.grant].source \in DOMAIN txn[c].seen
      BY <2>1 DEF BooksInv, Draws
    <3> QED
      BY <1>3, <1>6, <3>1, <3>2
  <2>2. CASE ~Charges(c)
    BY <1>1, <2>2, CommitCharges
  <2> QED
    BY <2>1, <2>2
<1>9. Accounts(d)'
  <2>1. ASSUME NEW m \in DOMAIN txn[d].seen
        PROVE  txn[d].seen[m] =< Base[m] + Total(SolidTo(m)')
    <3>1. txn[d].seen[m] =< Base[m] + Total(SolidTo(m)) /\ txn[d].seen[m] \in Nat /\ Base[m] \in Nat
      BY <1>1, <2>1, UnderWay, PoolAssumption DEF Accounts, Transactions
    <3>2. Total(SolidTo(m)) =< Total(SolidTo(m)') /\ Total(SolidTo(m)) \in Nat /\ Total(SolidTo(m)') \in Nat
      BY <1>1, SolidGrows
    <3> QED
      BY <3>1, <3>2
  <2> QED
    BY <1>1, <1>4, <1>5, <1>7, <2>1 DEF Accounts
<1>10. Draws(d)'
  <2>1. ASSUME NEW s \in txn[d].drawn
        PROVE  /\ s.key = txn[d].call.key /\ s.grant \in DOMAIN grants' \ Range(txn[d].queue)
               /\ grants'[s.grant].source \in DOMAIN txn[d].seen /\ grants'[s.grant].recipient = txn[d].call.member
               /\ s.amount + Total({ r \in shared' : r.grant = s.grant }) =< grants'[s.grant].amount
    <3>1. SameGrant(grants[s.grant], grants'[s.grant])
      BY <1>2, <1>6, <2>1
    <3>2. /\ s.key = txn[d].call.key /\ s.grant \in DOMAIN grants \ Range(txn[d].queue)
          /\ grants[s.grant].source \in DOMAIN txn[d].seen /\ grants[s.grant].recipient = txn[d].call.member
          /\ s.amount + Total({ r \in shared : r.grant = s.grant }) =< grants[s.grant].amount
      BY <1>1, <2>1 DEF Draws
    <3>3. Total({ r \in shared' : r.grant = s.grant }) = Total({ r \in shared : r.grant = s.grant })
      BY <1>8, <2>1
    <3> QED
      BY <1>2, <3>1, <3>2, <3>3 DEF SameGrant
  <2>2. \A g \in Range(txn[d].queue) : g \in DOMAIN grants /\ SameGrant(grants[g], grants'[g])
    BY <1>1, <1>2 DEF ReadsStand
  <2>3. \A g \in Range(txn[d].queue) : grants'[g].recipient = txn[d].call.member
    BY <1>1, <2>2 DEF Draws, SameGrant
  <2>4. TakenOwn(d) /\ txn[d].pc \notin {"refuse", "commit"} => txn[d].of = grants'[Head(txn[d].queue)].source
    <3> SUFFICES ASSUME TakenOwn(d), txn[d].pc \notin {"refuse", "commit"}
                 PROVE  txn[d].of = grants'[Head(txn[d].queue)].source
      OBVIOUS
    <3>1. txn[d].queue # <<>>
      BY <1>1 DEF TakenOwn, ReadsStand, Charges
    <3>2. Head(txn[d].queue) \in Range(txn[d].queue)
      BY <1>1, <3>1, HeadAndTail
    <3> QED
      BY <1>1, <2>2, <3>2 DEF Draws, SameGrant
  <2>5. /\ \A r, s \in txn[d].drawn : r.grant = s.grant => r = s
        /\ \A i, j \in 1..Len(txn[d].queue) : txn[d].queue[i] = txn[d].queue[j] => i = j
    BY <1>1 DEF Draws
  <2> QED
    BY <1>5, <2>1, <2>3, <2>4, <2>5 DEF Draws
<1>11. Summarised(d)'
  <2> SUFFICES ASSUME txn[d].pc = "decide" PROVE Summarised(d)'
    BY DEF Summarised
  <2> DEFINE solid == { g \in txn[d].received : grants[g].type = "SOLID" }
             later == grants'
  <2>1. txn[d].received \subseteq DOMAIN grants /\ \A g \in txn[d].received : SameGrant(grants[g], later[g])
    BY <1>1, <1>2 DEF ReadsStand
  <2>2. /\ \A g \in txn[d].received : grants[g].recipient = txn[d].of
        /\ Base[txn[d].of] + Total({ grants[g] : g \in solid }) =< TotalOf(Base)
    BY <1>1 DEF Summarised
  <2>3. solid \in SUBSET DOMAIN grants /\ IsFiniteSet(solid) /\ grants \in [DOMAIN grants -> Grants]
    BY <1>1, <2>1, FS_Subset DEF LockInv, TypeOK
  <2>4. \A g \in solid : grants[g].id = g /\ SameGrant(grants[g], later[g])
    BY <1>2, <2>1
  <2>5. { g \in txn[d].received : grants'[g].type = "SOLID" } = solid
    BY <2>1 DEF SameGrant
  <2>6. \A g \in txn[d].received : grants'[g].recipient = txn[d].of
    BY <2>1, <2>2 DEF SameGrant
  <2> HIDE DEF solid, later
  <2>7. Total({ later[g] : g \in solid }) = Total({ grants[g] : g \in solid })
    BY <2>3, <2>4, SameGrantsSameUnits
  <2>8. Base[txn[d].of] + Total({ grants'[g] : g \in solid }) =< TotalOf(Base)
    BY <2>2, <2>7 DEF later
  <2> QED
    BY <2>5, <2>6, <2>8 DEF Summarised
<1> QED
  BY <1>9, <1>10, <1>11

\* Nor does a commit add to what another approval's target offers.
LEMMA CommitSparesApprovals ==
  ASSUME BooksInv, NEW c \in Calls, Commit(c), NEW d \in Calls, d # c, Active(c), Active(d),
         txn[d].call.op = "approve", txn'[d] = txn[d]
  PROVE  Approving(d)'
<1> SUFFICES ASSUME txn[d].pc \in {"received", "decide", "commit"} PROVE Approving(d)'
  BY DEF Approving
<1> DEFINE of == txn[d].of
<1>1. /\ LockInv /\ Approving(d) /\ HoldsLocks(d) /\ WritesEnds(d) /\ txn[d].pc \in Stages
      /\ d \notin DOMAIN grants
  BY UnderWay DEF BooksInv, Stages
<1>2. of \in DOMAIN txn[d].seen
  BY <1>1 DEF HoldsLocks
<1>3. DOMAIN txn[c].seen \cap DOMAIN txn[d].seen = {}
  BY <1>1, WindowsApart
<1>4. /\ DOMAIN grants \subseteq DOMAIN grants'
      /\ \A g \in DOMAIN grants : grants'[g].status = "ACTIVE" => grants'[g] = grants[g]
      /\ \A g \in DOMAIN grants' \ DOMAIN grants : grants'[g].source # of
  BY <1>1, <1>2, <1>3, CommitKeepsGrants
<1> DEFINE after == Over(txn[d].wrote, grants')
<1>5. View(d)' = after
  BY DEF View
<1>6. ASSUME NEW g \in DOMAIN after, after[g].source = of, after[g].status = "ACTIVE"
      PROVE  g \in DOMAIN View(d) /\ View(d)[g] = after[g]
  <2>1. CASE g \in DOMAIN txn[d].wrote
    BY <2>1 DEF View, Over
  <2>2. CASE g \notin DOMAIN txn[d].wrote
    <3>1. g \in DOMAIN grants' /\ after[g] = grants'[g]
      BY <1>6, <2>2 DEF Over
    <3>2. g \in DOMAIN grants /\ grants'[g] = grants[g]
      BY <1>4, <1>6, <3>1
    <3> QED
      BY <2>2, <3>1, <3>2 DEF View, Over
  <2> QED
    BY <2>1, <2>2
<1> HIDE DEF after
<1>7. CASE txn[d].pc \in {"received", "decide"}
  BY <1>1, <1>5, <1>6, <1>7 DEF Approving
<1>8. CASE txn[d].pc = "commit"
  <2>1. ASSUME NEW type \in Types PROVE Total(Offered(after, of, type)) =< Base[of]
    <3> DEFINE view  == View(d)
               ids   == { h \in DOMAIN view : view[h].source = of /\ view[h].type = type /\ view[h].status = "ACTIVE" }
               before == Offered(view, of, type)
    <3>1. view \in [DOMAIN view -> Grants] /\ IsFiniteSet(DOMAIN view)
      BY <1>1, <1>8, CommittedView
    <3>2. before = { view[h] : h \in ids }
      BY DEF Offered, Range
    <3>3. Offered(after, of, type) \in SUBSET before
      BY <1>6 DEF Offered, Range
    <3>4. Total(before) =< Base[of]
      BY <1>1, <1>8, <2>1 DEF Approving
    <3> HIDE DEF view, before
    <3>5. IsFiniteSet(ids) /\ ids \in SUBSET DOMAIN view
      BY <3>1, FS_Subset
    <3> HIDE DEF ids
    <3>6. Summable(before) /\ Total(before) \in Nat
      BY <3>1, <3>2, <3>5, TableSummable
    <3>7. Total(Offered(after, of, type)) =< Total(before) /\ Total(Offered(after, of, type)) \in Nat
      BY <3>3, <3>6, TotalSubset, TotalType
    <3>8. Base[of] \in Nat
      BY <1>1, <1>2, UnderWay, PoolAssumption
    <3> QED
      BY <3>4, <3>6, <3>7, <3>8
  <2> QED
    BY <1>5, <1>8, <2>1 DEF Approving
<1> QED
  BY <1>7, <1>8

\* What is offered stays within the allocation.
LEMMA CommitKeepsOffers ==
  ASSUME BooksInv, NEW c \in Calls, Commit(c)
  PROVE  CommittedWithinBase'
<1> SUFFICES ASSUME NEW m \in Members, NEW type \in Types
             PROVE  Total(Offered(grants', m, type)) =< Base[m]
  BY DEF CommittedWithinBase
<1>1. /\ txn[c].pc = "commit" /\ txn[c].pc \in Stages /\ grants' = View(c) /\ LockInv
  BY CommitEffects DEF Stages, BooksInv
<1>2. CASE txn[c].call.op = "approve" /\ m = txn[c].of
  <2>1. Approving(c)
    BY <1>1, <1>2, UnderWay DEF BooksInv
  <2> QED
    BY <1>1, <1>2, <2>1 DEF Approving
<1>3. CASE ~(txn[c].call.op = "approve" /\ m = txn[c].of)
  <2> DEFINE before == Offered(grants, m, type)
  <2>1. /\ \A g \in DOMAIN grants : grants'[g].status = "ACTIVE" => grants'[g] = grants[g]
        /\ \A g \in DOMAIN grants' \ DOMAIN grants : grants'[g].source # m
    BY <1>1, <1>3, CommitKeepsGrants
  <2>2. Offered(grants', m, type) \in SUBSET before
    BY <2>1 DEF Offered, Range
  <2>3. Summable(before) /\ Total(before) \in Nat
    BY <1>1, OfferedGrants, GrantsSummable
  <2>4. Total(before) =< Base[m]
    BY DEF BooksInv, CommittedWithinBase
  <2> HIDE DEF before
  <2>5. Total(Offered(grants', m, type)) =< Total(before) /\ Total(Offered(grants', m, type)) \in Nat
    BY <2>2, <2>3, TotalSubset, TotalType
  <2> QED
    BY <2>3, <2>4, <2>5, PoolAssumption
<1> QED
  BY <1>2, <1>3

\* Every draw has its grant and its report.
LEMMA CommitRecordsDraws ==
  ASSUME BooksInv, NEW c \in Calls, Commit(c), Active(c)
  PROVE  DrawsRecorded'
<1>1. LockInv /\ DOMAIN grants \subseteq DOMAIN grants'
  BY CommitKeepsGrants DEF BooksInv
<1>2. CASE ~Charges(c)
  <2>1. shared' = shared /\ records' = records
    BY <1>1, <1>2, CommitCharges
  <2> QED
    BY <1>1, <2>1 DEF BooksInv, DrawsRecorded
<1>3. CASE Charges(c)
  <2>1. shared' = shared \cup txn[c].drawn /\ records' = records \cup {Report(c)}
    BY <1>1, <1>3, CommitCharges
  <2>2. \A s \in txn[c].drawn : s.grant \in DOMAIN grants /\ s.key = txn[c].call.key
    BY <1>3 DEF BooksInv, Draws
  <2>3. Report(c).key = txn[c].call.key
    BY DEF Report
  <2> QED
    BY <1>1, <2>1, <2>2, <2>3 DEF BooksInv, DrawsRecorded
<1> QED
  BY <1>2, <1>3

\* Draws stay within their grant.
LEMMA CommitKeepsCeiling ==
  ASSUME BooksInv, NEW c \in Calls, Commit(c), Active(c)
  PROVE  LifetimeCeiling'
<1> SUFFICES ASSUME NEW g \in DOMAIN grants'
             PROVE  Total({ s \in shared' : s.grant = g }) =< grants'[g].amount
  BY DEF LifetimeCeiling
<1>1. /\ LockInv
      /\ \A h \in DOMAIN grants : SameGrant(grants[h], grants'[h])
      /\ grants' \in [DOMAIN grants' -> Grants]
      /\ txn[c].pc \in Stages
  BY CommitKeepsGrants DEF BooksInv, Commit, Stages
<1> DEFINE old == { s \in shared : s.grant = g }
           new == { s \in txn[c].drawn : s.grant = g }
<1>2. { s \in shared' : s.grant = g } = old \cup (IF Charges(c) THEN new ELSE {})
  BY <1>1, CommitCharges
<1>3. CASE g \notin DOMAIN grants
  <2>1. old = {} /\ (Charges(c) => new = {})
    BY <1>3 DEF BooksInv, DrawsRecorded, Draws
  <2>2. grants'[g].amount \in Nat
    BY <1>1 DEF Grants
  <2> QED
    BY <1>2, <2>1, <2>2, TotalEmpty
<1>4. CASE g \in DOMAIN grants
  <2>1. grants'[g].amount = grants[g].amount
    BY <1>1, <1>4 DEF SameGrant
  <2>2. Total(old) =< grants[g].amount
    BY <1>4 DEF BooksInv, LifetimeCeiling
  <2>3. CASE Charges(c) => new = {}
    BY <1>2, <2>1, <2>2, <2>3
  <2>4. CASE Charges(c) /\ new # {}
    <3>1. Draws(c) /\ \A r \in records : r.key # txn[c].call.key
      BY <1>1, <2>4, CommitCharges DEF BooksInv
    <3>2. PICK s \in new : TRUE
      BY <2>4
    <3>3. new = {s} /\ s \notin old
      <4>1. \A r \in txn[c].drawn : r.key = txn[c].call.key
        BY <3>1 DEF Draws
      <4>2. \A r \in txn[c].drawn : r.grant = s.grant => r = s
        BY <3>1, <3>2 DEF Draws
      <4>3. \A r \in shared : r.key # txn[c].call.key
        BY <3>1 DEF BooksInv, DrawsRecorded
      <4> QED
        BY <3>2, <4>1, <4>2, <4>3
    <3>4. Summable(old) /\ Total(old) \in Nat
      BY <1>1, RowsSummable
    <3>5. s.amount \in Nat
      BY <1>1, <3>2, UnderWay DEF Transactions, Shares
    <3>6. s.amount + Total(old) =< grants[g].amount
      BY <3>1, <3>2 DEF Draws
    <3> HIDE DEF old, new
    <3>7. Total(old \cup {s}) = Total(old) + s.amount
      BY <3>3, <3>4, <3>5, TotalAdd
    <3>8. { r \in shared' : r.grant = g } = old \cup {s}
      BY <1>2, <2>4, <3>3
    <3>9. Total({ r \in shared' : r.grant = g }) = Total(old) + s.amount
      BY <3>7, <3>8
    <3> QED
      BY <2>1, <3>4, <3>5, <3>6, <3>9
  <2> QED
    BY <2>3, <2>4
<1> QED
  BY <1>3, <1>4

\* Usage stays within the entitlement.
LEMMA CommitKeepsEntitlement ==
  ASSUME BooksInv, LockInv', NEW c \in Calls, Commit(c), Active(c)
  PROVE  UsageWithinEntitlement'
<1> SUFFICES ASSUME NEW m \in Members PROVE usage'[m] =< Base[m] + Total(SolidTo(m)')
  BY DEF UsageWithinEntitlement, SolidTo
<1>1. /\ LockInv /\ Base[m] \in Nat /\ usage[m] \in Nat /\ usage'[m] \in Nat
      /\ Total(SolidTo(m)) =< Total(SolidTo(m)') /\ Total(SolidTo(m)) \in Nat /\ Total(SolidTo(m)') \in Nat
  BY SolidGrows, PoolAssumption DEF BooksInv, LockInv, TypeOK
<1>2. usage[m] =< Base[m] + Total(SolidTo(m))
  BY DEF BooksInv, UsageWithinEntitlement, SolidTo
<1>3. usage'[m] =< Base[m] + Total(SolidTo(m))
  <2>1. CASE Charges(c) /\ m \in DOMAIN txn[c].seen
    <3>1. usage'[m] = txn[c].seen[m]
      BY <1>1, <2>1, CommitCharges DEF Over
    <3>2. Accounts(c)
      BY <2>1 DEF BooksInv
    <3> QED
      BY <2>1, <3>1, <3>2 DEF Accounts
  <2>2. CASE ~(Charges(c) /\ m \in DOMAIN txn[c].seen)
    <3>1. m \in DOMAIN usage
      BY <1>1 DEF LockInv, TypeOK
    <3>2. usage'[m] = usage[m]
      BY <1>1, <2>2, <3>1, CommitCharges DEF Over
    <3> QED
      BY <1>2, <3>2
  <2> QED
    BY <2>1, <2>2
<1> QED
  BY <1>1, <1>3

\* What a charge that commits has taken: all it reports, from its own units and
\* from its lenders'.
LEMMA CommittedCharge ==
  ASSUME BooksInv, NEW c \in Calls, Commit(c), Active(c), Charges(c), NEW m \in Members
  PROVE  /\ usage[m] \in Nat /\ usage'[m] \in Nat
         /\ Total(txn[c].drawn) \in Nat /\ Total(DrawnFrom(c, m)) \in Nat /\ txn[c].call.amount \in Nat
         /\ Total(txn[c].drawn) =< txn[c].call.amount
         /\ usage'[m] = usage[m] + Total(DrawnFrom(c, m))
                          + (IF m = txn[c].call.member THEN txn[c].call.amount - Total(txn[c].drawn) ELSE 0)
<1>1. /\ txn[c].pc = "commit" /\ txn[c].pc \in Stages /\ LockInv /\ Accounts(c) /\ Draws(c)
      /\ txn[c].call.op = "consume"
  BY DEF Commit, Stages, BooksInv, Charges
<1>2. /\ txn[c].call.amount \in Nat /\ usage[m] \in Nat /\ usage \in [Members -> Nat]
      /\ txn[c].seen \in [DOMAIN txn[c].seen -> Nat]
  BY <1>1, UnderWay, WorkloadAssumption DEF InStage, LockInv, TypeOK, Transactions
<1>3. Total(txn[c].drawn) \in Nat
  BY <1>1, DrawnSummable
<1>4. Total(DrawnFrom(c, m)) \in Nat
  BY <1>1, DrawnSummable DEF DrawnFrom
<1>5. TakenOwn(c) /\ txn[c].shortfall = 0 /\ Own(c) = txn[c].call.amount - Total(txn[c].drawn) /\ Own(c) >= 0
  <2>1. TakenOwn(c) /\ txn[c].shortfall = 0
    BY <1>1 DEF TakenOwn, Accounts
  <2>2. Own(c) = txn[c].call.amount - 0 - Total(txn[c].drawn) /\ Own(c) >= 0
    BY <1>1, <2>1 DEF Own, Accounts
  <2> QED
    BY <1>2, <1>3, <2>1, <2>2
<1>6. usage' = Over(txn[c].seen, usage)
  BY <1>1, CommitCharges
<1>7. CASE m \in DOMAIN txn[c].seen
  <2>1. usage'[m] = txn[c].seen[m]
    BY <1>6, <1>7 DEF Over
  <2>2. txn[c].seen[m] = usage[m] + Total(DrawnFrom(c, m)) + (IF m = txn[c].call.member THEN Own(c) ELSE 0)
    BY <1>1, <1>7 DEF Accounts
  <2>3. txn[c].seen[m] \in Nat
    BY <1>2, <1>7
  <2> QED
    BY <1>2, <1>3, <1>4, <1>5, <2>1, <2>2, <2>3
<1>8. CASE m \notin DOMAIN txn[c].seen
  <2>1. usage'[m] = usage[m]
    BY <1>2, <1>6, <1>8 DEF Over
  <2>2. m # txn[c].call.member
    BY <1>1, <1>5, <1>8 DEF Accounts
  <2>3. DrawnFrom(c, m) = {}
    BY <1>1, <1>8 DEF Draws, DrawnFrom
  <2>4. Total(DrawnFrom(c, m)) = 0
    BY <2>3, TotalEmpty
  <2> QED
    BY <1>2, <1>3, <1>5, <2>1, <2>2, <2>4
<1> QED
  BY <1>7, <1>8

\* The audit trail accounts for every window.
LEMMA CommitKeepsBalance ==
  ASSUME BooksInv, NEW c \in Calls, Commit(c), Active(c)
  PROVE  LedgerBalance'
<1> SUFFICES ASSUME NEW m \in Members PROVE
      LET mine     == { r \in records' : r.member = m }
          borrowed == { s \in shared' : \E r \in mine : r.key = s.key }
          lent     == { s \in shared' : grants'[s.grant].source = m }
      IN  usage'[m] = Total(mine) - Total(borrowed) + Total(lent)
  BY DEF LedgerBalance
<1> DEFINE mine     == { r \in records : r.member = m }
           borrowed == { s \in shared : \E r \in mine : r.key = s.key }
           lent     == { s \in shared : grants[s.grant].source = m }
           mine2     == { r \in records' : r.member = m }
           borrowed2 == { s \in shared' : \E r \in mine2 : r.key = s.key }
           lent2     == { s \in shared' : grants'[s.grant].source = m }
<1>1. /\ LockInv /\ DrawsRecorded
      /\ \A g \in DOMAIN grants : grants'[g].source = grants[g].source
  BY CommitKeepsGrants DEF BooksInv, SameGrant
<1>2. usage[m] = Total(mine) - Total(borrowed) + Total(lent)
  BY DEF BooksInv, LedgerBalance
<1>3. \A s \in shared : s.grant \in DOMAIN grants
  BY <1>1 DEF DrawsRecorded
<1>4. CASE ~Charges(c)
  <2>1. usage' = usage /\ records' = records /\ shared' = shared
    BY <1>1, <1>4, CommitCharges
  <2>2. lent2 = lent /\ mine2 = mine /\ borrowed2 = borrowed
    BY <1>1, <1>3, <2>1
  <2> QED
    BY <1>2, <2>1, <2>2
<1>5. CASE Charges(c)
  <2> DEFINE key    == txn[c].call.key
             member == txn[c].call.member
             amount == txn[c].call.amount
             drawn  == txn[c].drawn
             from   == DrawnFrom(c, m)
  <2>1. /\ records' = records \cup {Report(c)} /\ shared' = shared \cup drawn
        /\ \A r \in records : r.key # key
    BY <1>1, <1>5, CommitCharges
  <2>2. \A s \in drawn : s.key = key /\ s.grant \in DOMAIN grants
    BY <1>5 DEF BooksInv, Draws
  <2>3. \A s \in shared : s.key # key
    BY <1>1, <2>1 DEF DrawsRecorded
  <2>4. Report(c).key = key /\ Report(c).member = member /\ Report(c).amount = amount
    BY DEF Report
  <2>5. mine2 = mine \cup (IF m = member THEN {Report(c)} ELSE {}) /\ Report(c) \notin mine
    BY <2>1, <2>4
  <2>6. borrowed2 = borrowed \cup (IF m = member THEN drawn ELSE {}) /\ borrowed \cap drawn = {}
    BY <2>1, <2>2, <2>3, <2>4, <2>5
  <2>7. lent2 = lent \cup from /\ lent \cap from = {}
    BY <1>1, <1>3, <2>1, <2>2, <2>3 DEF DrawnFrom
  <2>8. /\ usage[m] \in Nat /\ usage'[m] \in Nat /\ amount \in Nat
        /\ usage'[m] = usage[m] + Total(from) + (IF m = member THEN amount - Total(drawn) ELSE 0)
    BY <1>5, CommittedCharge
  <2>9. /\ Summable(mine) /\ Summable(borrowed) /\ Summable(lent)
        /\ Total(mine) \in Nat /\ Total(borrowed) \in Nat /\ Total(lent) \in Nat
    BY <1>1, RowsSummable
  <2>10. /\ Summable(drawn) /\ Summable(from) /\ Total(drawn) \in Nat /\ Total(from) \in Nat
    BY <1>1, DrawnSummable DEF DrawnFrom, Commit, Stages
  <2> HIDE DEF mine, borrowed, lent, mine2, borrowed2, lent2, from, drawn, key, member, amount
  <2>11. Total(lent2) = Total(lent) + Total(from)
    BY <2>7, <2>9, <2>10, TotalDisjointUnion
  <2>12. CASE m = member
    <3>1. Total(mine2) = Total(mine) + amount
      BY <2>4, <2>5, <2>8, <2>9, <2>12, TotalAdd
    <3>2. Total(borrowed2) = Total(borrowed) + Total(drawn)
      BY <2>6, <2>9, <2>10, <2>12, TotalDisjointUnion
    <3> QED
      BY <1>2, <2>8, <2>9, <2>10, <2>11, <2>12, <3>1, <3>2 DEF mine2, borrowed2, lent2
  <2>13. CASE m # member
    <3>1. mine2 = mine /\ borrowed2 = borrowed
      BY <2>5, <2>6, <2>13
    <3>2. usage'[m] = Total(mine2) - Total(borrowed2) + Total(lent2)
      BY <1>2, <2>8, <2>9, <2>10, <2>11, <2>13, <3>1
    <3> QED
      BY <3>2 DEF mine2, borrowed2, lent2
  <2> QED
    BY <2>12, <2>13
<1> QED
  BY <1>4, <1>5

\* A commit keeps the books.
LEMMA CommitKeepsBooks ==
  ASSUME BooksInv, LockInv', NEW c \in Calls, Commit(c)
  PROVE  BooksInv'
<1>1. LockInv /\ txn[c].pc = "commit" /\ End(c, "done")
  BY CommitEffects DEF BooksInv
<1>2. Active(c)
  BY <1>1 DEF Active, Ended
<1>3. txn'[c] = [Idle EXCEPT !.pc = "done"] /\ \A d \in Calls \ {c} : txn'[d] = txn[d]
  BY <1>1 DEF LockInv, TypeOK, End
<1>4. txn'[c].pc = "done"
  BY <1>3 DEF Idle
<1>5. ASSUME NEW d \in Calls, Active(d)' PROVE BooksOf(d)'
  <2>1. d # c
    BY <1>4, <1>5 DEF Active, Ended
  <2>2. txn'[d] = txn[d] /\ Active(d)
    BY <1>3, <1>5, <2>1 DEF Active
  <2>3. Charges(d)' <=> Charges(d)
    BY <2>2 DEF Charges
  <2>4. Charges(d) => Accounts(d)' /\ Draws(d)' /\ Summarised(d)'
    BY <1>2, <2>1, <2>2, CommitSparesCharges
  <2>5. txn[d].call.op = "approve" => Approving(d)'
    BY <1>2, <2>1, <2>2, CommitSparesApprovals
  <2> QED
    BY <2>2, <2>3, <2>4, <2>5 DEF BooksOf
<1> QED
  BY <1>2, <1>5, CommitKeepsBalance, CommitKeepsOffers, CommitKeepsCeiling, CommitKeepsEntitlement,
     CommitRecordsDraws DEF BooksInv, BooksOf

-----------------------------------------------------------------------------
(* Every step, and what follows.                                           *)

\* No call breaks BooksInv.
LEMMA CallKeepsBooks ==
  ASSUME BooksInv, LockInv', NEW c \in Calls, Begin(c) \/ Step(c) \/ DeadlockDetected(c) \/ LoseConnection(c)
  PROVE  BooksInv'
<1>1. CASE Begin(c)
  BY <1>1, BeginKeepsBooks
<1>2. CASE FindKey(c) \/ GetRequest(c) \/ GetGrant(c) \/ Revoke(c) \/ GetWindow(c)
  BY <1>2, FindKeyKeepsBooks, GetRequestKeepsBooks, RevocationKeepsBooks, GetWindowKeepsBooks
<1>3. CASE ListSent(c) \/ ListReceived(c) \/ ExpireNext(c)
  BY <1>3, ListSentKeepsBooks, ListReceivedKeepsBooks, ExpireNextKeepsBooks
<1>4. CASE FinishRead(c) \/ Approve(c) \/ TakeOwn(c) \/ Draw(c)
  BY <1>4, FinishReadKeepsBooks, ApproveKeepsBooks, TakeOwnKeepsBooks, DrawKeepsBooks
<1>5. CASE Refuse(c) \/ DeadlockDetected(c) \/ LoseConnection(c)
  BY <1>5, RollbackKeepsBooks DEF Refuse, DeadlockDetected, LoseConnection, Ended
<1>6. CASE Commit(c)
  BY <1>6, CommitKeepsBooks
<1> QED
  BY <1>1, <1>2, <1>3, <1>4, <1>5, <1>6 DEF Step

\* No step does.
LEMMA StepKeepsBooks ==
  ASSUME BooksInv, [Next]_vars
  PROVE  BooksInv'
<1>1. LockInv'
  BY StepKeepsLocks DEF BooksInv
<1>2. CASE \E c \in Calls : Begin(c) \/ Step(c) \/ DeadlockDetected(c) \/ LoseConnection(c)
  BY <1>1, <1>2, CallKeepsBooks
<1>3. CASE Reset \/ UNCHANGED vars
  <2>1. UNCHANGED <<tables, txn>>
    BY <1>3 DEF Reset, vars
  <2>2. ASSUME NEW d \in Calls, Active(d)' PROVE BooksOf(d)'
    <3>1. txn'[d] = txn[d] /\ UNCHANGED tables /\ Active(d)
      BY <2>1, <2>2 DEF Active
    <3>2. BooksOf(d)
      BY <3>1 DEF BooksInv, BooksOf
    <3> QED
      BY <3>1, <3>2, OtherBooksStay
  <2>3. LedgerBalance' /\ CommittedWithinBase' /\ LifetimeCeiling' /\ UsageWithinEntitlement' /\ DrawsRecorded'
    BY <2>1 DEF BooksInv, LedgerBalance, CommittedWithinBase, LifetimeCeiling, UsageWithinEntitlement, DrawsRecorded, tables
  <2> QED
    BY <1>1, <2>2, <2>3 DEF BooksInv, BooksOf
<1> QED
  BY <1>2, <1>3 DEF Next

\* A behaviour starts with nothing charged and no more offered than allotted.
LEMMA InitHasBooks ==
  ASSUME Init
  PROVE  BooksInv
<1>1. LockInv
  BY InitHasLocks
<1>2. records = {} /\ shared = {} /\ usage = [m \in Members |-> 0] /\ grants \in OpeningGrants
  BY DEF Init
<1>3. LedgerBalance
  <2> SUFFICES ASSUME NEW m \in Members PROVE
        LET mine     == { r \in records : r.member = m }
            borrowed == { s \in shared : \E r \in mine : r.key = s.key }
            lent     == { s \in shared : grants[s.grant].source = m }
        IN  usage[m] = Total(mine) - Total(borrowed) + Total(lent)
    BY DEF LedgerBalance
  <2>1. /\ { r \in records : r.member = m } = {}
        /\ \A P : { s \in shared : \E r \in P : r.key = s.key } = {}
        /\ { s \in shared : grants[s.grant].source = m } = {}
    BY <1>2
  <2> QED
    BY <1>2, <2>1, TotalEmpty
<1>4. CommittedWithinBase
  BY <1>2, OpeningAssumption DEF CommittedWithinBase
<1>5. LifetimeCeiling
  <2> SUFFICES ASSUME NEW g \in DOMAIN grants PROVE Total({ s \in shared : s.grant = g }) =< grants[g].amount
    BY DEF LifetimeCeiling
  <2>1. { s \in shared : s.grant = g } = {} /\ grants[g].amount \in Nat
    BY <1>1, <1>2 DEF LockInv, TypeOK, Grants
  <2> QED
    BY <2>1, TotalEmpty
<1>6. UsageWithinEntitlement
  <2> SUFFICES ASSUME NEW m \in Members PROVE usage[m] =< Base[m] + Total(SolidTo(m))
    BY DEF UsageWithinEntitlement, SolidTo
  <2>1. Total(SolidTo(m)) \in Nat
    BY <1>1, SolidToGrants, GrantsSummable
  <2> QED
    BY <1>2, <2>1, PoolAssumption
<1>7. \A c \in Calls : ~Active(c)
  BY DEF Init, Active, Idle
<1> QED
  BY <1>1, <1>2, <1>3, <1>4, <1>5, <1>6, <1>7 DEF BooksInv, DrawsRecorded

\* At every moment the tables balance and stay within what was allotted and
\* granted, and every call under way has computed, from what its locks keep, a
\* charge or an approval that leaves them so: what the read-compute-write of
\* consume() and approve_request() relies on.
THEOREM BooksHold == Spec => []BooksInv
<1>1. Init => BooksInv
  BY InitHasBooks
<1>2. BooksInv /\ [Next]_vars => BooksInv'
  BY StepKeepsBooks
<1> QED
  BY <1>1, <1>2, PTL DEF Spec

\* No window update is lost or applied twice, however the calls interleave.
THEOREM BooksBalance == Spec => []LedgerBalance
<1>1. BooksInv => LedgerBalance
  BY DEF BooksInv
<1> QED
  BY <1>1, BooksHold, PTL

\* Concurrent approve_request() calls never promise away more than their common
\* target was allotted.
THEOREM OffersWithinBase == Spec => []CommittedWithinBase
<1>1. BooksInv => CommittedWithinBase
  BY DEF BooksInv
<1> QED
  BY <1>1, BooksHold, PTL

\* Concurrent consume() calls never draw more on a SHARED grant than its amount.
THEOREM DrawsWithinGrant == Spec => []LifetimeCeiling
<1>1. BooksInv => LifetimeCeiling
  BY DEF BooksInv
<1> QED
  BY <1>1, BooksHold, PTL

\* Concurrent consume() calls never take a member beyond its allocation and the
\* SOLID units it was ever granted.
THEOREM ChargesWithinEntitlement == Spec => []UsageWithinEntitlement
<1>1. BooksInv => UsageWithinEntitlement
  BY DEF BooksInv
<1> QED
  BY <1>1, BooksHold, PTL

-----------------------------------------------------------------------------
(* The promise.                                                            *)

\* The pairs who agreed by the grants of a table.
Agreed(table) == { <<g.source, g.recipient>> : g \in Range(table) }

\* The promise adds up as the engine does.
LEMMA SameSums == \A f : Promise!TotalOf(f) = TotalOf(f)
BY DEF Promise!TotalOf, Promise!Total, Promise!Units, Promise!Cardinality, TotalOf, Total, Units, Cardinality

\* Nobody takes back an agreement, and only an approval adds one.
LEMMA CommitAgrees ==
  ASSUME LockInv, NEW c \in Calls, Commit(c)
  PROVE  Agreed(grants') = Agreed(grants) \cup
           { <<grants'[g].source, grants'[g].recipient>> : g \in DOMAIN grants' \ DOMAIN grants }
<1>1. /\ DOMAIN grants \subseteq DOMAIN grants'
      /\ \A g \in DOMAIN grants : /\ grants'[g].source = grants[g].source
                                  /\ grants'[g].recipient = grants[g].recipient
  BY CommitKeepsGrants DEF SameGrant
<1>2. /\ Agreed(grants) = { <<grants[g].source, grants[g].recipient>> : g \in DOMAIN grants }
      /\ Agreed(grants') = { <<grants'[g].source, grants'[g].recipient>> : g \in DOMAIN grants' }
  BY DEF Agreed, Range
<1> QED
  BY <1>1, <1>2

\* A commit that charges no one is a consent, given now or before, or changes
\* nothing the promise speaks of.
LEMMA QuietCommitConsents ==
  ASSUME LockInv, LockInv', NEW c \in Calls, Commit(c), ~Charges(c)
  PROVE  UNCHANGED <<usage, records, grants>> \/ Promise!Next
<1>1. /\ DOMAIN grants \subseteq DOMAIN grants'
      /\ \A g \in DOMAIN grants' \ DOMAIN grants : g = c
      /\ grants' \in [DOMAIN grants' -> Grants] /\ grants \in [DOMAIN grants -> Grants]
  BY CommitKeepsGrants DEF LockInv, TypeOK
<1>2. usage' = usage /\ records' = records
  BY CommitCharges
<1>3. ASSUME NEW lender \in Members, NEW borrower \in Members,
             Agreed(grants') = Agreed(grants) \cup {<<lender, borrower>>}
      PROVE  Promise!Next
  <2>1. Promise!Consent(lender, borrower)
    BY <1>2, <1>3 DEF Promise!Consent, Agreed
  <2> QED
    BY <2>1 DEF Promise!Next
<1>4. CASE c \in DOMAIN grants' \ DOMAIN grants
  <2>1. grants'[c].source \in Members /\ grants'[c].recipient \in Members
    BY <1>1, <1>4 DEF Grants
  <2>2. Agreed(grants') = Agreed(grants) \cup {<<grants'[c].source, grants'[c].recipient>>}
    BY <1>1, <1>4, CommitAgrees
  <2> QED
    BY <1>3, <2>1, <2>2
<1>5. CASE c \notin DOMAIN grants' \ DOMAIN grants
  <2>1. DOMAIN grants' = DOMAIN grants /\ Agreed(grants') = Agreed(grants)
    BY <1>1, <1>5, CommitAgrees
  <2>2. CASE DOMAIN grants = {}
    BY <1>1, <1>2, <2>1, <2>2
  <2>3. ASSUME NEW g \in DOMAIN grants PROVE Promise!Next
    <3>1. grants[g].source \in Members /\ grants[g].recipient \in Members
      BY <1>1, <2>3 DEF Grants
    <3>2. <<grants[g].source, grants[g].recipient>> \in Agreed(grants)
      BY <2>3 DEF Agreed, Range
    <3> QED
      BY <1>3, <2>1, <3>1, <3>2
  <2> QED
    BY <2>2, <2>3
<1> QED
  BY <1>4, <1>5

\* What a charging call took from member m.
TakenFrom(c, m) ==
  Total(DrawnFrom(c, m)) + (IF m = txn[c].call.member THEN txn[c].call.amount - Total(txn[c].drawn) ELSE 0)

\* The split of a charge adds up to what is reported.
LEMMA SplitOfCharge ==
  ASSUME BooksInv, NEW c \in Calls, Commit(c), Active(c), Charges(c),
         NEW split, split = [m \in Members |-> TakenFrom(c, m)]
  PROVE  split \in [Members -> 0..txn[c].call.amount] /\ TotalOf(split) = txn[c].call.amount
<1> DEFINE member == txn[c].call.member
           amount == txn[c].call.amount
           drawn  == txn[c].drawn
           part   == [m \in Members |-> DrawnFrom(c, m)]
           lent   == [m \in Members |-> Total(part[m])]
           own    == [m \in Members |-> IF m = member THEN amount - Total(drawn) ELSE 0]
           others == [m \in Members \ {member} |-> own[m]]
<1>1. /\ LockInv /\ Draws(c) /\ txn[c].pc \in Stages /\ member \in Members
      /\ DOMAIN txn[c].seen \subseteq Members
  BY UnderWay DEF BooksInv, Commit, Stages
<1>2. /\ amount \in Nat /\ Total(drawn) \in Nat /\ Total(drawn) =< amount
  BY <1>1, CommittedCharge
<1>3. Summable(drawn)
  BY <1>1, DrawnSummable
<1>4. lent \in [Members -> Nat] /\ TotalOf(lent) = Total(drawn)
  <2>1. part \in [Members -> SUBSET drawn]
    BY DEF DrawnFrom
  <2>2. \A s \in drawn : \E m \in Members : s \in part[m]
    BY <1>1 DEF DrawnFrom, Draws
  <2>3. \A m, n \in Members : m # n => part[m] \cap part[n] = {}
    BY DEF DrawnFrom
  <2> HIDE DEF part, drawn
  <2> QED
    BY <1>3, <2>1, <2>2, <2>3, PoolAssumption, TotalPartition
<1>5. \A m \in Members : split[m] = lent[m] + own[m]
  BY DEF TakenFrom
<1>6. own \in [Members -> Nat] /\ own[member] = amount - Total(drawn) /\ \A m \in Members \ {member} : own[m] = 0
  BY <1>1, <1>2
<1> HIDE DEF own, lent, member, amount
<1>7. split \in [Members -> Nat]
  BY <1>4, <1>5, <1>6
<1>8. TotalOf(own) = amount - Total(drawn)
  <2>1. others \in [Members \ {member} -> Nat] /\ \A m \in Members \ {member} : others[m] = 0
    BY <1>6
  <2>2. IsFiniteSet(Members \ {member})
    BY PoolAssumption, FS_Subset
  <2>3. TotalOf(others) = 0
    <3> HIDE DEF others
    <3> QED
      BY <2>1, <2>2, TotalOfZeros
  <2>4. /\ Members \ {member} \in SUBSET Members /\ member \in Members \ (Members \ {member})
        /\ Members = (Members \ {member}) \cup {member}
    BY <1>1 DEF member
  <2>5. TotalOf([m \in Members \ {member} |-> own[m]]) + own[member] = TotalOf(own)
    BY <1>6, <2>4, PoolAssumption, TotalOfPart
  <2> QED
    BY <1>2, <1>6, <2>3, <2>5 DEF amount
<1>9. TotalOf(split) = TotalOf(lent) + TotalOf(own)
  <2>1. lent \in [Members -> Nat] /\ own \in [Members -> Nat] /\ IsFiniteSet(Members)
    BY <1>4, <1>6, PoolAssumption
  <2>2. ASSUME NEW sum \in [Members -> Nat], \A m \in Members : sum[m] = lent[m] + own[m]
        PROVE  TotalOf(sum) = TotalOf(lent) + TotalOf(own)
    BY <2>1, <2>2, TotalOfSum
  <2> QED
    BY <1>5, <1>7, <2>2
<1>10. TotalOf(split) = amount
  BY <1>2, <1>4, <1>8, <1>9 DEF amount
<1>11. \A m \in Members : split[m] =< amount
  BY <1>7, <1>10, PoolAssumption, TotalOfMember
<1> QED
  BY <1>2, <1>7, <1>10, <1>11 DEF amount

\* A commit that charges is a charge of the promise.
LEMMA ChargingCommitCharges ==
  ASSUME BooksInv, LockInv', NEW c \in Calls, Commit(c), Active(c), Charges(c)
  PROVE  Promise!Next
<1> DEFINE member == txn[c].call.member
           amount == txn[c].call.amount
           key    == txn[c].call.key
           split  == [m \in Members |-> TakenFrom(c, m)]
<1>1. /\ LockInv /\ Accounts(c) /\ Draws(c) /\ txn[c].pc \in Stages /\ member \in Members
      /\ txn[c].call \in Workload /\ txn[c].call.op = "consume" /\ TakenOwn(c)
  BY UnderWay DEF BooksInv, Commit, Stages, InStage, Charges, TakenOwn
<1>2. split \in [Members -> 0..amount] /\ TotalOf(split) = amount
  BY SplitOfCharge
<1>3. ASSUME NEW m \in Members
      PROVE  usage'[m] = usage[m] + split[m] /\ usage[m] \in Nat /\ usage'[m] \in Nat
  <2>1. /\ usage[m] \in Nat /\ usage'[m] \in Nat
        /\ Total(txn[c].drawn) \in Nat /\ Total(DrawnFrom(c, m)) \in Nat /\ amount \in Nat
        /\ usage'[m] = usage[m] + Total(DrawnFrom(c, m))
                         + (IF m = member THEN amount - Total(txn[c].drawn) ELSE 0)
    BY CommittedCharge
  <2>2. split[m] = Total(DrawnFrom(c, m)) + (IF m = member THEN amount - Total(txn[c].drawn) ELSE 0)
    BY DEF TakenFrom
  <2> QED
    BY <2>1, <2>2
<1>4. usage' = [m \in Members |-> usage[m] + split[m]]
  <2>1. usage' \in [Members -> Nat]
    BY DEF LockInv, TypeOK
  <2> QED
    BY <1>3, <2>1
<1>5. /\ records' = records \cup {[key |-> key, member |-> member, amount |-> amount]}
      /\ \A r \in records : r.key # key
      /\ usage' = Over(txn[c].seen, usage)
  BY <1>1, CommitCharges DEF Report
<1>6. Agreed(grants') = Agreed(grants)
  <2>1. DOMAIN grants' \ DOMAIN grants = {}
    BY <1>1, CommitKeepsGrants
  <2> QED
    BY <1>1, <2>1, CommitAgrees
<1>7. ASSUME NEW s \in Members, split[s] > 0
      PROVE  (s = member \/ <<s, member>> \in Agreed(grants)) /\ usage[s] + split[s] =< TotalOf(Base)
  <2>1. CASE s = member
    <3>1. s \in DOMAIN txn[c].seen
      BY <1>1, <2>1 DEF Accounts
    <3>2. usage'[s] = txn[c].seen[s]
      BY <1>5, <3>1 DEF Over
    <3>3. txn[c].seen[s] > usage[s]
      BY <1>2, <1>3, <1>7, <3>2
    <3>4. txn[c].seen[s] =< TotalOf(Base)
      BY <1>1, <3>1, <3>3 DEF Accounts
    <3> QED
      BY <1>3, <2>1, <3>2, <3>4
  <2>2. CASE s # member
    <3>1. DrawnFrom(c, s) # {}
      <4>1. CASE DrawnFrom(c, s) = {}
        <5>1. Total(DrawnFrom(c, s)) = 0
          BY <4>1, TotalEmpty
        <5>2. split[s] = 0
          BY <2>2, <5>1 DEF TakenFrom
        <5> QED
          BY <1>7, <5>2
      <4> QED
        BY <4>1
    <3>2. PICK row \in DrawnFrom(c, s) : TRUE
      BY <3>1
    <3>3. /\ row.grant \in DOMAIN grants /\ grants[row.grant].source = s
          /\ grants[row.grant].recipient = member /\ s \in DOMAIN txn[c].seen
      BY <1>1, <3>2 DEF DrawnFrom, Draws
    <3>4. usage'[s] = txn[c].seen[s]
      BY <1>5, <3>3 DEF Over
    <3>5. txn[c].seen[s] > usage[s]
      BY <1>2, <1>3, <1>7, <3>4
    <3>6. txn[c].seen[s] =< TotalOf(Base)
      BY <1>1, <3>3, <3>5 DEF Accounts
    <3>7. <<s, member>> \in Agreed(grants)
      BY <3>3 DEF Agreed, Range
    <3> QED
      BY <1>3, <3>4, <3>6, <3>7
  <2> QED
    BY <2>1, <2>2
<1>8. key \in Keys /\ amount \in { call.amount : call \in { w \in Workload : w.op = "consume" } }
  BY <1>1 DEF Keys
<1> HIDE DEF split, member, amount, key
<1>9. Promise!Charge(key, member, amount)
  BY <1>2, <1>4, <1>5, <1>6, <1>7, SameSums DEF Promise!Charge, Agreed
<1> QED
  BY <1>1, <1>8, <1>9 DEF Promise!Next, member

\* Nothing but a commit changes the tables.
LEMMA OnlyCommitsWrite ==
  ASSUME NEW c \in Calls, Begin(c) \/ Step(c) \/ DeadlockDetected(c) \/ LoseConnection(c), ~Commit(c)
  PROVE  UNCHANGED <<usage, records, grants>>
<1>1. CASE Begin(c) \/ FindKey(c) \/ GetRequest(c) \/ GetGrant(c) \/ Revoke(c) \/ GetWindow(c)
  BY <1>1 DEF Begin, FindKey, GetRequest, GetGrant, Revoke, GetWindow, Rollback, tables
<1>2. CASE ListSent(c) \/ ListReceived(c) \/ ExpireNext(c) \/ FinishRead(c)
  BY <1>2 DEF ListSent, ListReceived, ExpireNext, FinishRead, tables
<1>3. CASE Approve(c) \/ TakeOwn(c) \/ Draw(c)
  BY <1>3 DEF Approve, TakeOwn, Draw, Rollback, tables
<1>4. CASE Refuse(c) \/ DeadlockDetected(c) \/ LoseConnection(c)
  BY <1>4 DEF Refuse, DeadlockDetected, LoseConnection, Rollback, tables
<1> QED
  BY <1>1, <1>2, <1>3, <1>4 DEF Step

\* Every step that changes what the promise speaks of is a step of the promise:
\* however consume(), approve_request() and the other calls interleave, reports
\* are charged once, in full, to who agreed, and never beyond the pool.
THEOREM PromiseKeptByCommits == Spec => PromiseSteps
<1>1. BooksInv /\ [Next]_vars => [Promise!Next]_<<usage, records, grants>>
  <2> SUFFICES ASSUME BooksInv, [Next]_vars, ~UNCHANGED <<usage, records, grants>>
               PROVE  Promise!Next
    OBVIOUS
  <2>1. LockInv /\ LockInv'
    BY StepKeepsLocks DEF BooksInv
  <2>2. PICK c \in Calls : Begin(c) \/ Step(c) \/ DeadlockDetected(c) \/ LoseConnection(c)
    BY DEF Next, Reset, vars, tables
  <2>3. Commit(c)
    BY <2>2, OnlyCommitsWrite
  <2>4. Active(c)
    BY <2>3 DEF Commit, Active, Ended
  <2>5. CASE Charges(c)
    BY <2>1, <2>3, <2>4, <2>5, ChargingCommitCharges
  <2>6. CASE ~Charges(c)
    BY <2>1, <2>3, <2>6, QuietCommitConsents
  <2> QED
    BY <2>5, <2>6
<1> QED
  BY <1>1, BooksHold, PTL DEF Spec, PromiseSteps
=============================================================================
