-------------------------- MODULE PostgresLocking --------------------------
(***************************************************************************)
(* The quota engine on PostgreSQL: the service calls of QuotaLedger as     *)
(* transactions that interleave statement by statement.                    *)
(*                                                                         *)
(* Isolation is READ COMMITTED: a statement sees what is committed when it *)
(* runs, and the transaction's own writes.  What keeps the calls apart is  *)
(* the advisory locks that the repositories take before they read a        *)
(* window, a request, one grant or an idempotency key, and the row locks   *)
(* that UPDATE capacity_grants takes by itself.  Both kinds are held until *)
(* COMMIT or ROLLBACK.  The two list queries over grants take no lock.     *)
(*                                                                         *)
(* All windows of a pool and type have one reset_at, which is also every   *)
(* grant's expires_at.  So one flag, `overdue`, stands for the clock, and  *)
(* a call's captured `now` is the value it had when the call began.        *)
(* A lock and the read it protects are one step: nobody can change the row *)
(* in between, or the read sees the change and the lock might as well have *)
(* been taken later.                                                       *)
(***************************************************************************)
EXTENDS Totals, SequencesExt

CONSTANTS
  Members,        \* the members of the pool
  Base,           \* Base[m]: allocation_units
  Calls,          \* the service calls of a behaviour, each made at most once
  Workload,       \* the requests a call may carry out
  Terms,          \* Terms[r]: requester, target, amount and type of request r
  OpeningGrants   \* the grants tables a behaviour may start from

VARIABLES
  overdue,   \* reset_at has passed
  usage,     \* committed: quota_windows.usage_units
  requests,  \* committed: status of each capacity request
  grants,    \* committed: capacity_grants, by id
  records,   \* committed: usage_records
  shared,    \* committed: shared_consumption_records
  held,      \* held[c]: the locks of call c's transaction
  txn        \* txn[c]: where call c is and what it has read and written

tables == <<usage, requests, grants, records, shared>>
vars == <<overdue, tables, held, txn>>

Ended == {"done", "refused", "conflict", "integrity", "deadlock", "lost"}

NoCall == [op |-> "none"]

Idle == [pc |-> "idle", call |-> NoCall, late |-> FALSE, replay |-> FALSE,
         of |-> "none", todo |-> <<>>, sent |-> {}, received |-> {},
         seen |-> <<>>, shortfall |-> 0, queue |-> <<>>, drawn |-> {},
         wrote |-> <<>>, verdict |-> "none"]

Stages == {"key", "request", "window", "grant", "revoke", "sent", "received", "decide", "refuse", "commit"}

Types == {"SOLID", "SHARED"}

\* The calls name the grants they make.
Ids == Calls \cup UNION { DOMAIN table : table \in OpeningGrants }

Keys == { call.key : call \in { w \in Workload : w.op = "consume" } }

Grants == [id : Ids, source : Members, recipient : Members, amount : Nat, type : Types,
           status : {"ACTIVE", "REVOKED", "EXPIRED"}, revoked : BOOLEAN]

Records == [key : Keys, member : Members, amount : Nat]

Shares == [key : Keys, grant : Ids, amount : Nat]

\* The transactions that have read the windows of `read` and written the grants
\* of `written`.
Transactions(read, written) ==
  [pc : Stages \cup Ended \cup {"idle"}, call : Workload \cup {NoCall}, late : BOOLEAN, replay : BOOLEAN,
   of : Members \cup {"none"}, todo : Seq(Ids), sent : SUBSET Ids, received : SUBSET Ids,
   seen : [read -> Nat], shortfall : Nat, queue : Seq(Ids), drawn : SUBSET Shares,
   wrote : [written -> Grants], verdict : {"none", "APPROVED", "REJECTED"}]

\* What a member offers to others of one type.
Offered(table, m, type) ==
  { g \in Range(table) : g.source = m /\ g.type = type /\ g.status = "ACTIVE" }

\* A grant has its id, is to somebody else, and is not revoked while it is ACTIVE.
WellFormed(table) ==
  \A g \in DOMAIN table :
    /\ table[g].id = g
    /\ table[g].source # table[g].recipient
    /\ table[g].status = "ACTIVE" => ~table[g].revoked

ASSUME PoolAssumption ==
  /\ IsFiniteSet(Members) /\ IsFiniteSet(Calls)
  /\ Base \in [Members -> Nat]

\* request_capacity() refuses a request to oneself.
ASSUME TermsAssumption ==
  /\ IsFiniteSet(DOMAIN Terms)
  /\ \A r \in DOMAIN Terms :
       /\ Terms[r] \in [requester : Members, target : Members, amount : Nat, type : Types]
       /\ Terms[r].requester # Terms[r].target

ASSUME WorkloadAssumption ==
  \A call \in Workload :
    /\ call.op \in {"consume", "approve", "reject", "revoke", "effective", "list"}
    /\ call.member \in Members
    /\ call.op = "consume" => call.amount \in Nat
    /\ call.op \in {"approve", "reject"} => call.ref \in DOMAIN Terms

\* A grant made by a call gets an id of its own.
ASSUME OpeningAssumption ==
  \A table \in OpeningGrants :
    /\ table \in [DOMAIN table -> Grants] /\ WellFormed(table)
    /\ IsFiniteSet(DOMAIN table) /\ DOMAIN table \cap Calls = {}
    /\ \A m \in Members, type \in Types : Total(Offered(table, m, type)) =< Base[m]

TypeOK ==
  /\ overdue \in BOOLEAN
  /\ usage \in [Members -> Nat]
  /\ requests \in [DOMAIN Terms -> {"PENDING", "APPROVED", "REJECTED"}]
  /\ grants \in [DOMAIN grants -> Grants] /\ DOMAIN grants \subseteq Ids /\ WellFormed(grants)
  /\ records \in SUBSET Records
  /\ shared \in SUBSET Shares
  /\ DOMAIN held = Calls
  /\ \A c \in Calls : \A lock \in held[c] : lock[1] \in {"key", "request", "window", "grant", "row"}
  /\ DOMAIN txn = Calls
  /\ \A c \in Calls : LET t == txn[c] IN
       /\ t \in Transactions(DOMAIN t.seen, DOMAIN t.wrote)
       /\ DOMAIN t.seen \subseteq Members /\ DOMAIN t.wrote \subseteq Ids

-----------------------------------------------------------------------------
(* Locks.                                                                  *)

\* Slip: windows are read without a lock.
WantedNoWindow(c) ==
  LET t == txn[c] IN
  IF t.todo # <<>> THEN {<<"row", Head(t.todo)>>}
  ELSE CASE t.pc = "key"     -> {<<"key", t.call.key>>}
         [] t.pc = "request" -> {<<"request", t.call.ref>>}
         [] t.pc = "grant"   -> {<<"grant", t.call.ref>>}
         [] t.pc = "revoke"  -> {<<"row", t.call.ref>>}
         [] OTHER            -> {}

\* Slip: the idempotency key is looked up without a lock.
WantedNoKey(c) ==
  LET t == txn[c] IN
  IF t.todo # <<>> THEN {<<"row", Head(t.todo)>>}
  ELSE CASE t.pc = "request" -> {<<"request", t.call.ref>>}
         [] t.pc = "window"  -> {<<"window", t.of>>}
         [] t.pc = "grant"   -> {<<"grant", t.call.ref>>}
         [] t.pc = "revoke"  -> {<<"row", t.call.ref>>}
         [] OTHER            -> {}

\* Slip: requests are read without a lock.
WantedNoRequest(c) ==
  LET t == txn[c] IN
  IF t.todo # <<>> THEN {<<"row", Head(t.todo)>>}
  ELSE CASE t.pc = "key"     -> {<<"key", t.call.key>>}
         [] t.pc = "window"  -> {<<"window", t.of>>}
         [] t.pc = "grant"   -> {<<"grant", t.call.ref>>}
         [] t.pc = "revoke"  -> {<<"row", t.call.ref>>}
         [] OTHER            -> {}

\* The lock call c needs for its next statement, as a set of at most one.
Wanted(c) ==
  LET t == txn[c] IN
  IF t.todo # <<>> THEN {<<"row", Head(t.todo)>>}
  ELSE CASE t.pc = "key"     -> {<<"key", t.call.key>>}
         [] t.pc = "request" -> {<<"request", t.call.ref>>}
         [] t.pc = "window"  -> {<<"window", t.of>>}
         [] t.pc = "grant"   -> {<<"grant", t.call.ref>>}
         [] t.pc = "revoke"  -> {<<"row", t.call.ref>>}
         [] OTHER            -> {}

BlockedBy(c) == { d \in Calls \ {c} : Wanted(c) \cap held[d] # {} }

\* The statement runs once no other transaction holds its lock.
Granted(c) ==
  /\ BlockedBy(c) = {}
  /\ held' = [held EXCEPT ![c] = @ \cup Wanted(c)]

\* The calls of S wait for one another in a cycle, or in several.
Cycle(S) ==
  /\ S # {}
  /\ \A d \in S : BlockedBy(d) \cap S # {} /\ \E e \in S : d \in BlockedBy(e)

-----------------------------------------------------------------------------
(* What a call sees and does.                                              *)

Active(c) == txn[c].pc \notin Ended \cup {"idle"}

\* The rows of `table`, those that `wrote` has in its own version.
Over(wrote, table) ==
  [x \in DOMAIN wrote \cup DOMAIN table |-> IF x \in DOMAIN wrote THEN wrote[x] ELSE table[x]]

\* One row in the place of, or beside, those of `table`.
With(x, row, table) == Over([y \in {x} |-> row], table)

\* The grants table as the transaction of c sees it.
View(c) == Over(txn[c].wrote, grants)

Continue(c, t) == txn' = [txn EXCEPT ![c] = t]

\* Slip: locks of the session's scope outlive the transaction.
EndOfTransactionOnly(c, outcome) ==
  /\ txn' = [txn EXCEPT ![c] = [Idle EXCEPT !.pc = outcome]]
  /\ UNCHANGED held

\* The transaction is over and its locks are released.
End(c, outcome) ==
  /\ txn' = [txn EXCEPT ![c] = [Idle EXCEPT !.pc = outcome]]
  /\ held' = [held EXCEPT ![c] = {}]

Rollback(c, outcome) == End(c, outcome) /\ UNCHANGED <<overdue, tables>>

EntryPoint == [consume |-> "key", approve |-> "request", reject |-> "request",
               revoke |-> "grant", effective |-> "window", list |-> "sent"]

\* The clock is read before the connection is opened.
Begin(c) ==
  /\ txn[c].pc = "idle"
  /\ \E call \in Workload :
       Continue(c, [Idle EXCEPT !.pc = EntryPoint[call.op], !.call = call,
                                !.of = call.member, !.late = overdue])
  /\ UNCHANGED <<overdue, tables, held>>

\* find_by_idempotency_key().
FindKey(c) ==
  LET call  == txn[c].call
      prior == { r \in records : r.key = call.key }
      same  == [key |-> call.key, member |-> call.member, amount |-> call.amount]
  IN  /\ txn[c].pc = "key"
      /\ \/ /\ prior \subseteq {same}
            /\ Granted(c)
            /\ Continue(c, [txn[c] EXCEPT !.pc = "window", !.replay = prior # {}])
            /\ UNCHANGED <<overdue, tables>>
         \/ /\ ~(prior \subseteq {same})
            /\ BlockedBy(c) = {}
            /\ Rollback(c, "conflict")

\* requests.get() and the two checks that follow it.
GetRequest(c) ==
  LET call == txn[c].call
      open == requests[call.ref] = "PENDING" /\ Terms[call.ref].target = call.member
  IN  /\ txn[c].pc = "request"
      /\ \/ /\ open
            /\ Granted(c)
            /\ \/ /\ call.op = "approve"
                  /\ Continue(c, [txn[c] EXCEPT !.pc = "window"])
               \/ /\ call.op = "reject"
                  /\ Continue(c, [txn[c] EXCEPT !.pc = "commit", !.verdict = "REJECTED"])
            /\ UNCHANGED <<overdue, tables>>
         \/ /\ ~open
            /\ BlockedBy(c) = {}
            /\ Rollback(c, "refused")

\* grants.get() and the two checks that follow it.
GetGrant(c) ==
  LET call == txn[c].call
      open == /\ call.ref \in DOMAIN grants
              /\ grants[call.ref].status = "ACTIVE"
              /\ grants[call.ref].source = call.member
  IN  /\ txn[c].pc = "grant"
      /\ \/ /\ open
            /\ Granted(c)
            /\ Continue(c, [txn[c] EXCEPT !.pc = "revoke"])
            /\ UNCHANGED <<overdue, tables>>
         \/ /\ ~open
            /\ BlockedBy(c) = {}
            /\ Rollback(c, "refused")

\* UPDATE capacity_grants SET status, revoked_at WHERE id: it waits for the row
\* and then overwrites both columns of whatever version it finds.
Overwritten(c, g, status, revoked) ==
  With(g, [grants[g] EXCEPT !.status = status, !.revoked = revoked], txn[c].wrote)

Revoke(c) ==
  /\ txn[c].pc = "revoke"
  /\ Granted(c)
  /\ Continue(c, [txn[c] EXCEPT !.pc = "commit",
                                !.wrote = Overwritten(c, txn[c].call.ref, "REVOKED", TRUE)])
  /\ UNCHANGED <<overdue, tables>>

\* windows.get() for the member whose balance is read next.
GetWindow(c) ==
  LET t == txn[c] IN
  /\ t.pc = "window"
  /\ Granted(c)
  /\ Continue(c, [t EXCEPT !.pc = "sent", !.seen = With(t.of, usage[t.of], @)])
  /\ UNCHANGED <<overdue, tables>>

\* The ACTIVE grants that list_by_source() and list_by_recipient() return.
SentBy(c) ==
  { g \in DOMAIN View(c) : View(c)[g].source = txn[c].of /\ View(c)[g].status = "ACTIVE" }

ReceivedBy(c) ==
  { g \in DOMAIN View(c) : View(c)[g].recipient = txn[c].of /\ View(c)[g].status = "ACTIVE" }

\* Slip: the clock is read again when the grants are listed.
StaleNow(c, listed) == IF overdue THEN listed ELSE {}

\* active_grants_as_of(): a call that began after reset_at finds every listed
\* grant stale and stores them one UPDATE after the other, in no fixed order.
Stale(c, listed) == IF txn[c].late THEN listed ELSE {}

ListSent(c) ==
  LET stale == Stale(c, SentBy(c)) IN
  /\ txn[c].pc = "sent" /\ txn[c].todo = <<>>
  /\ \E order \in SetToSeqs(stale) :
       Continue(c, [txn[c] EXCEPT !.pc = "received", !.sent = SentBy(c) \ stale, !.todo = order])
  /\ UNCHANGED <<overdue, tables, held>>

ListReceived(c) ==
  LET stale == Stale(c, ReceivedBy(c)) IN
  /\ txn[c].pc = "received" /\ txn[c].todo = <<>>
  /\ \E order \in SetToSeqs(stale) :
       Continue(c, [txn[c] EXCEPT !.pc = "decide", !.received = ReceivedBy(c) \ stale, !.todo = order])
  /\ UNCHANGED <<overdue, tables, held>>

\* revoked_at is written as it was read, and an ACTIVE row has none.
ExpireNext(c) ==
  /\ txn[c].todo # <<>>
  /\ Granted(c)
  /\ Continue(c, [txn[c] EXCEPT !.todo = Tail(@),
                                !.wrote = Overwritten(c, Head(txn[c].todo), "EXPIRED", FALSE)])
  /\ UNCHANGED <<overdue, tables>>

OfType(c, ids, type) == { View(c)[g] : g \in { h \in ids : View(c)[h].type = type } }

\* Guaranteed units of the member just summarised, less what its window holds.
Available(c) ==
  LET t == txn[c] IN
  Clamp(Base[t.of] - Total(OfType(c, t.sent, "SOLID")) + Total(OfType(c, t.received, "SOLID"))
        - t.seen[t.of])

Decided(c, op) == txn[c].pc = "decide" /\ txn[c].todo = <<>> /\ txn[c].call.op = op

\* Reads, and the replay of a recorded report, only store the expiries.
FinishRead(c) ==
  /\ \/ Decided(c, "effective")
     \/ Decided(c, "list")
     \/ Decided(c, "consume") /\ txn[c].replay
  /\ Continue(c, [txn[c] EXCEPT !.pc = "commit"])
  /\ UNCHANGED <<overdue, tables, held>>

\* What c approves as a grant, its id c.
NewGrant(c) ==
  LET terms == Terms[txn[c].call.ref]
  IN  [id |-> c, source |-> terms.target, recipient |-> terms.requester,
       amount |-> terms.amount, type |-> terms.type, status |-> "ACTIVE", revoked |-> FALSE]

\* approve_request() once the source is summarised.
Approve(c) ==
  LET terms == Terms[txn[c].call.ref]
      enough == Base[terms.target] - Total(OfType(c, txn[c].sent, terms.type)) >= terms.amount
  IN  /\ Decided(c, "approve")
      /\ \/ /\ enough
            /\ Continue(c, [txn[c] EXCEPT !.pc = "commit", !.verdict = "APPROVED",
                                          !.wrote = With(c, NewGrant(c), @)])
            /\ UNCHANGED <<overdue, tables, held>>
         \/ /\ ~enough
            /\ Rollback(c, "refused")

\* Slip: a source's window is read again for every grant drawn on.
OnwardRereads(c, t) ==
  IF t.shortfall = 0 THEN [t EXCEPT !.pc = "commit"]
  ELSE IF t.queue = <<>> THEN [t EXCEPT !.pc = "refuse"]
  ELSE [t EXCEPT !.of = View(c)[Head(t.queue)].source, !.pc = "window"]

\* Where consume() goes from t, its shortfall and queue known: a source's window
\* is read once, its grants for every grant drawn on.
Onward(c, t) ==
  IF t.shortfall = 0 THEN [t EXCEPT !.pc = "commit"]
  ELSE IF t.queue = <<>> THEN [t EXCEPT !.pc = "refuse"]
  ELSE LET source == View(c)[Head(t.queue)].source
       IN  [t EXCEPT !.of = source, !.pc = IF source \in DOMAIN t.seen THEN "sent" ELSE "window"]

\* `charged` units more on the window just summarised.
Charged(t, charged) ==
  [t EXCEPT !.seen = With(t.of, @[t.of] + charged, @), !.shortfall = @ - charged]

\* The member's own units first.
TakeOwn(c) ==
  LET t == [txn[c] EXCEPT !.shortfall = txn[c].call.amount]
      held_as_recipient == { g \in t.received : View(c)[g].type = "SHARED" }
  IN  /\ Decided(c, "consume") /\ ~t.replay /\ t.of = t.call.member
      /\ \E queue \in SetToSeqs(held_as_recipient) :
           Continue(c, Onward(c, [Charged(t, Least(t.call.amount, Available(c))) EXCEPT !.queue = queue]))
      /\ UNCHANGED <<overdue, tables, held>>

\* Slip: a draw is not limited by what the source has left.
DrawLimitUnowned(c, g) ==
  Least(View(c)[g].amount - Total({ s \in shared : s.grant = g }), txn[c].shortfall)

\* Slip: earlier draws on the grant are forgotten.
DrawLimitPerCall(c, g) ==
  Least(View(c)[g].amount, Least(Available(c), txn[c].shortfall))

DrawLimit(c, g) ==
  Least(View(c)[g].amount - Total({ s \in shared : s.grant = g }),
        Least(Available(c), txn[c].shortfall))

\* Then one SHARED grant after the other, as the call listed them.
Draw(c) ==
  LET t    == txn[c]
      g    == Head(t.queue)
      draw == Clamp(DrawLimit(c, g))
      row  == [key |-> t.call.key, grant |-> g, amount |-> draw]
  IN  /\ Decided(c, "consume") /\ ~t.replay /\ t.of # t.call.member
      /\ Continue(c, Onward(c, [Charged(t, draw) EXCEPT
                                  !.queue = Tail(@),
                                  !.drawn = IF draw = 0 THEN @ ELSE @ \cup {row}]))
      /\ UNCHANGED <<overdue, tables, held>>

Refuse(c) == txn[c].pc = "refuse" /\ Rollback(c, "refused")

Charges(c) == txn[c].call.op = "consume" /\ ~txn[c].replay

Commit(c) ==
  LET t == txn[c] IN
  /\ t.pc = "commit"
  /\ \/ \* usage_records.idempotency_key is UNIQUE
        /\ Charges(c) /\ \E r \in records : r.key = t.call.key
        /\ Rollback(c, "integrity")
     \/ /\ Charges(c) /\ \A r \in records : r.key # t.call.key
        /\ usage' = Over(t.seen, usage)
        /\ records' = records \cup
             {[key |-> t.call.key, member |-> t.call.member, amount |-> t.call.amount]}
        /\ shared' = shared \cup t.drawn
        /\ grants' = View(c)
        /\ End(c, "done")
        /\ UNCHANGED <<overdue, requests>>
     \/ /\ ~Charges(c)
        /\ grants' = View(c)
        /\ requests' = IF t.verdict = "none" THEN requests
                       ELSE [requests EXCEPT ![t.call.ref] = t.verdict]
        /\ End(c, "done")
        /\ UNCHANGED <<overdue, usage, records, shared>>

Step(c) ==
  \/ FindKey(c) \/ GetRequest(c) \/ GetGrant(c) \/ Revoke(c) \/ GetWindow(c)
  \/ ListSent(c) \/ ListReceived(c) \/ ExpireNext(c)
  \/ FinishRead(c) \/ Approve(c) \/ TakeOwn(c) \/ Draw(c) \/ Refuse(c) \/ Commit(c)

\* The deadlock detector of one waiting backend finds itself in a cycle.
DeadlockDetected(c) ==
  /\ \E S \in SUBSET Calls : c \in S /\ Cycle(S)
  /\ Rollback(c, "deadlock")

\* The connection breaks, or the server process dies, before COMMIT.
LoseConnection(c) == Active(c) /\ Rollback(c, "lost")

Reset == ~overdue /\ overdue' = TRUE /\ UNCHANGED <<tables, held, txn>>

Init ==
  /\ overdue = FALSE
  /\ usage = [m \in Members |-> 0]
  /\ requests = [r \in DOMAIN Terms |-> "PENDING"]
  /\ grants \in OpeningGrants
  /\ records = {}
  /\ shared = {}
  /\ held = [c \in Calls |-> {}]
  /\ txn = [c \in Calls |-> Idle]

Next ==
  \/ Reset
  \/ \E c \in Calls : Begin(c) \/ Step(c) \/ DeadlockDetected(c) \/ LoseConnection(c)

\* The database does not stop while some transaction can run or some cycle is
\* there to break.  Nothing is assumed about which one it serves.
Serve == \E c \in Calls : Step(c) \/ DeadlockDetected(c)

Spec == Init /\ [][Next]_vars /\ WF_vars(Serve)
-----------------------------------------------------------------------------
(* Correctness.                                                            *)

\* No window update is lost or applied twice: every member's usage is what the
\* audit trail says, although each call writes the absolute value it computed
\* from what it read.
LedgerBalance ==
  \A m \in Members :
    LET mine     == { r \in records : r.member = m }
        borrowed == { s \in shared : \E r \in mine : r.key = s.key }
        lent     == { s \in shared : grants[s.grant].source = m }
    IN  usage[m] = Total(mine) - Total(borrowed) + Total(lent)

\* Concurrent approvals never promise away more than the allocation of their
\* common target: each sees the other's grant, or waits for it.
CommittedWithinBase ==
  \A m \in Members, type \in Types : Total(Offered(grants, m, type)) =< Base[m]

\* Concurrent calls never draw more on a SHARED grant than its amount.
LifetimeCeiling ==
  \A g \in DOMAIN grants : Total({ s \in shared : s.grant = g }) =< grants[g].amount

\* Concurrent charges never take a member beyond its allocation and the SOLID
\* units it was ever granted.
UsageWithinEntitlement ==
  \A m \in Members :
    usage[m] =< Base[m] + Total({ g \in Range(grants) : g.recipient = m /\ g.type = "SOLID" })

\* A retried report never ends in a UNIQUE violation on its idempotency key,
\* which no caller handles: the second call waits and then replays.
NoIntegrityError == \A c \in Calls : txn[c].pc # "integrity"

\* Two calls never decide one request: every approval has exactly one grant.
OneGrantPerApproval ==
  Cardinality({ r \in DOMAIN requests : requests[r] = "APPROVED" })
    = Cardinality(DOMAIN grants \cap Calls)

\* A decided request is never decided again, by whichever calls were waiting.
DecisionsFinal ==
  [][\A r \in DOMAIN requests : requests[r] # "PENDING" => requests'[r] = requests[r]]_vars

\* Every commit is a step of the promise made to the pool, or changes nothing
\* the promise speaks of.
Promise == INSTANCE QuotaPromise WITH
  Amounts  <- { call.amount : call \in { w \in Workload : w.op = "consume" } },
  spent    <- usage,
  receipts <- records,
  consents <- { <<g.source, g.recipient>> : g \in Range(grants) }

PromiseSteps == [][Promise!Next]_<<usage, records, grants>>

\* While a call is under way, one can go on, or waits in a cycle that the
\* database breaks: no lock is left behind for which all others wait.
NeverStuck ==
  (\E c \in Calls : Active(c)) =>
    \E c \in Calls : Active(c) /\ (BlockedBy(c) = {} \/ \E S \in SUBSET Calls : c \in S /\ Cycle(S))

\* Who waits in a cycle: charges, that have a window, for the window of a lender,
\* and calls that began after reset_at, for the rows of grants they found expired.
CyclesKnown ==
  \A S \in SUBSET Calls : Cycle(S) => \A c \in S :
    \/ txn[c].call.op = "consume" /\ txn[c].pc = "window" /\ DOMAIN txn[c].seen # {}
    \/ txn[c].late /\ txn[c].todo # <<>>

\* Calls only wait for good in a cycle, and only those that take a second window
\* or several rows are in one (postgres/locking.py, docs/architecture.md).
WaitsKnown == NeverStuck /\ CyclesKnown

\* Every call that begins comes to an end: it is never left waiting for a lock.
EveryCallEnds == \A c \in Calls : Active(c) ~> txn[c].pc \in Ended

-----------------------------------------------------------------------------
(* Why it is correct: what the locks keep while a call is under way.       *)

\* No lock has two holders.
MutualExclusion == \A c, d \in Calls : c # d => held[c] \cap held[d] = {}

StagesOf ==
  [consume   |-> {"key", "window", "sent", "received", "decide", "refuse", "commit"},
   approve   |-> {"request", "window", "sent", "received", "decide", "commit"},
   reject    |-> {"request", "commit"},
   revoke    |-> {"grant", "revoke", "commit"},
   effective |-> {"window", "sent", "received", "decide", "commit"},
   list      |-> {"sent", "received", "decide", "commit"}]

\* c is where its operation can be, about a member.
InStage(c) ==
  LET t == txn[c] IN
  /\ t.call \in Workload /\ t.pc \in StagesOf[t.call.op] /\ t.of \in Members
  /\ t.pc = "key" => t.of = t.call.member /\ t.seen = <<>> /\ ~t.replay
  /\ t.todo # <<>> => t.pc \in {"received", "decide"}
  /\ t.call.op # "consume" => t.of = t.call.member /\ t.drawn = {} /\ ~t.replay
  /\ IsFiniteSet(t.drawn)

\* c holds a lock for everything it relies on.
HoldsLocks(c) ==
  LET t == txn[c] IN
  /\ t.call.op = "consume" /\ t.pc # "key" => <<"key", t.call.key>> \in held[c]
  /\ t.call.op \in {"approve", "reject"} /\ t.pc # "request" => <<"request", t.call.ref>> \in held[c]
  /\ \A m \in DOMAIN t.seen : <<"window", m>> \in held[c]
  /\ \A g \in DOMAIN t.wrote \ {c} : <<"row", g>> \in held[c]
  /\ t.call.op \in {"consume", "approve", "effective"} /\ t.pc \in {"sent", "received", "decide"} =>
       t.of \in DOMAIN t.seen
  /\ t.call.op = "approve" /\ t.pc = "commit" => t.of \in DOMAIN t.seen

\* Nothing but the status of a grant ever changes.
SameGrant(g, h) ==
  /\ h.id = g.id /\ h.source = g.source /\ h.recipient = g.recipient
  /\ h.amount = g.amount /\ h.type = g.type

\* c ends grants, and makes one if it approves.
WritesEnds(c) ==
  LET t == txn[c] IN
  /\ \A g \in DOMAIN t.wrote \ {c} :
       g \in DOMAIN grants /\ SameGrant(grants[g], t.wrote[g]) /\ t.wrote[g].status # "ACTIVE"
  /\ c \in DOMAIN t.wrote <=> t.verdict = "APPROVED"
  /\ t.verdict = "APPROVED" => t.wrote[c] = NewGrant(c)
  /\ t.verdict = IF t.pc # "commit" THEN "none"
                 ELSE IF t.call.op = "approve" THEN "APPROVED"
                 ELSE IF t.call.op = "reject" THEN "REJECTED" ELSE "none"

\* What c has read is still there.
ReadsStand(c) ==
  LET t == txn[c] IN
  /\ t.call.op \in {"approve", "reject"} /\ t.pc # "request" =>
       requests[t.call.ref] = "PENDING" /\ Terms[t.call.ref].target = t.call.member
  /\ t.call.op = "consume" /\ t.pc # "key" /\ ~t.replay => \A r \in records : r.key # t.call.key
  /\ t.pc = "revoke" => t.call.ref \in DOMAIN grants
  /\ \A g \in Range(t.todo) \cup t.sent \cup t.received \cup Range(t.queue) : g \in DOMAIN grants
  /\ t.call.op = "consume" /\ t.of # t.call.member =>
       t.pc \in {"refuse", "commit"} \/ t.queue # <<>>

\* Before and after its transaction a call holds nothing.
AtRest(c) ==
  /\ held[c] = {}
  /\ txn[c] = [Idle EXCEPT !.pc = txn[c].pc]

\* No lock is shared, and every call under way holds what it relies on and finds
\* what it has read: the transactions of the PostgreSQL unit of work are isolated
\* where they need to be, without SERIALIZABLE.
LockInv ==
  /\ TypeOK /\ MutualExclusion /\ NoIntegrityError /\ OneGrantPerApproval
  /\ IsFiniteSet(DOMAIN grants) /\ IsFiniteSet(records) /\ IsFiniteSet(shared)
  /\ \A c \in Calls :
       /\ IF Active(c) THEN InStage(c) /\ HoldsLocks(c) /\ WritesEnds(c) /\ ReadsStand(c) ELSE AtRest(c)
       /\ txn[c].pc # "done" => c \notin DOMAIN grants

\* A call takes its locks in an order: nothing before its key, request or grant,
\* no window or row before its first window, no row but the one it revokes.
LocksInOrder(c) ==
  LET t == txn[c] IN
  /\ t.pc \in {"key", "request", "grant"} => held[c] = {}
  /\ t.pc = "window" => \/ t.call.op = "consume" /\ DOMAIN t.seen # {}
                        \/ \A lock \in held[c] : lock[1] \in {"key", "request"}
  /\ t.pc = "revoke" => \A lock \in held[c] : lock[1] = "grant"
  /\ t.todo # <<>> => t.late

\* The locks of every call under way, and the order in which it took them.
WaitInv == LockInv /\ \A c \in Calls : Active(c) => LocksInOrder(c)

\* What a charge has taken up to now from whom; its own units come first.
TakenOwn(c) == txn[c].of # txn[c].call.member \/ txn[c].pc \in {"refuse", "commit"}

Own(c) ==
  IF TakenOwn(c) THEN txn[c].call.amount - txn[c].shortfall - Total(txn[c].drawn) ELSE 0

DrawnFrom(c, m) == { s \in txn[c].drawn : grants[s.grant].source = m }

SolidTo(m) == { g \in Range(grants) : g.recipient = m /\ g.type = "SOLID" }

\* What a charge has computed for each window it holds is the committed usage and
\* what it took there, and within the entitlement.
Accounts(c) ==
  LET t == txn[c] IN
  /\ Own(c) >= 0
  /\ \A m \in DOMAIN t.seen :
       /\ t.seen[m] = usage[m] + Total(DrawnFrom(c, m)) + (IF m = t.call.member THEN Own(c) ELSE 0)
       /\ t.seen[m] =< Base[m] + Total(SolidTo(m))
       /\ t.seen[m] > usage[m] => t.seen[m] =< TotalOf(Base)
  /\ IF TakenOwn(c) THEN t.call.member \in DOMAIN t.seen
     ELSE t.drawn = {} /\ t.queue = <<>> /\ DOMAIN t.seen \subseteq {t.call.member}
  /\ t.pc = "window" => t.of \notin DOMAIN t.seen
  /\ t.pc = "commit" => t.shortfall = 0

\* A charge draws once on a grant, from a window it holds, what the grant has left.
Draws(c) ==
  LET t == txn[c] IN
  /\ \A s \in t.drawn :
       /\ s.key = t.call.key /\ s.grant \in DOMAIN grants \ Range(t.queue)
       /\ grants[s.grant].source \in DOMAIN t.seen /\ grants[s.grant].recipient = t.call.member
       /\ s.amount + Total({ r \in shared : r.grant = s.grant }) =< grants[s.grant].amount
  /\ \A r, s \in t.drawn : r.grant = s.grant => r = s
  /\ \A i, j \in 1..Len(t.queue) : t.queue[i] = t.queue[j] => i = j
  /\ \A g \in Range(t.queue) : grants[g].recipient = t.call.member
  /\ TakenOwn(c) /\ t.pc \notin {"refuse", "commit"} => t.of = grants[Head(t.queue)].source

\* The SOLID units that c found its member to have received are others' to give.
Summarised(c) ==
  LET t == txn[c]
      solid == { g \in t.received : grants[g].type = "SOLID" }
  IN  t.pc = "decide" =>
        /\ \A g \in t.received : grants[g].recipient = t.of
        /\ Base[t.of] + Total({ grants[g] : g \in solid }) =< TotalOf(Base)

\* An approval knows all that its target offers, up to what it is about to add.
Approving(c) ==
  LET t == txn[c] IN
  /\ t.pc \in {"received", "decide"} =>
       \A g \in DOMAIN View(c) : View(c)[g].source = t.of /\ View(c)[g].status = "ACTIVE" =>
         g \in t.sent \/ (t.pc = "received" /\ g \in Range(t.todo))
  /\ t.pc = "commit" => \A type \in Types : Total(Offered(View(c), t.of, type)) =< Base[t.of]

\* A draw has its grant and its report.
DrawsRecorded ==
  \A s \in shared : s.grant \in DOMAIN grants /\ \E r \in records : r.key = s.key

\* The tables balance and stay within their limits, and so does what every charge
\* or approval under way is about to write: the sums that consume() and
\* approve_request() computed from earlier reads are still right at the commit.
BooksInv ==
  /\ LockInv /\ LedgerBalance /\ CommittedWithinBase /\ LifetimeCeiling /\ UsageWithinEntitlement
  /\ DrawsRecorded
  /\ \A c \in Calls : Active(c) =>
       /\ Charges(c) => Accounts(c) /\ Draws(c) /\ Summarised(c)
       /\ txn[c].call.op = "approve" => Approving(c)

-----------------------------------------------------------------------------
(* What the documentation says and the interleavings do not keep.          *)

\* unit_of_work.py: "the guarantee is the same" as under BEGIN IMMEDIATE, where
\* a grant that was revoked stays revoked.
RevocationKept ==
  [][\A g \in DOMAIN grants : grants[g].status = "REVOKED" => grants'[g] = grants[g]]_vars
=============================================================================
