----------------------- MODULE PostgresLocking_proofs -----------------------
(***************************************************************************)
(* What the locks of PostgresLocking keep, for every pool, set of calls,   *)
(* workload and interleaving: no lock has two holders, a request is        *)
(* decided once, no report is recorded twice, and every approval has its   *)
(* one grant.                                                              *)
(*                                                                         *)
(* The inductive invariant is LockInv.  A step of one call leaves the      *)
(* transactions of the others alone, so the proofs say what it does to its *)
(* own, and what a commit may do to the tables the others have read.       *)
(***************************************************************************)
EXTENDS PostgresLocking, TotalsTheorems, WellFoundedInduction

\* The type of one transaction.
TxnType(t) ==
  /\ t \in Transactions(DOMAIN t.seen, DOMAIN t.wrote)
  /\ DOMAIN t.seen \subseteq Members /\ DOMAIN t.wrote \subseteq Ids

\* What LockInv says of one call.
CallInv(c) ==
  IF Active(c) THEN InStage(c) /\ HoldsLocks(c) /\ WritesEnds(c) /\ ReadsStand(c) ELSE AtRest(c)

-----------------------------------------------------------------------------
(* Tables, sequences and locks.                                            *)

\* A table with other versions of some rows.
LEMMA OverProperties ==
  ASSUME NEW f, NEW g
  PROVE  /\ DOMAIN Over(f, g) = DOMAIN f \cup DOMAIN g
         /\ \A x \in DOMAIN f : Over(f, g)[x] = f[x]
         /\ \A x \in DOMAIN g \ DOMAIN f : Over(f, g)[x] = g[x]
         /\ Over(f, g) = [x \in DOMAIN f \cup DOMAIN g |-> Over(f, g)[x]]
BY DEF Over

\* A table with one row put in.
LEMMA WithProperties ==
  ASSUME NEW x, NEW row, NEW g
  PROVE  /\ DOMAIN With(x, row, g) = DOMAIN g \cup {x}
         /\ With(x, row, g)[x] = row
         /\ \A y \in DOMAIN g \ {x} : With(x, row, g)[y] = g[y]
         /\ With(x, row, g) = [y \in DOMAIN g \cup {x} |-> With(x, row, g)[y]]
BY DEF With, Over

\* It has the type the table has.
LEMMA WithType ==
  ASSUME NEW R, NEW g, g \in [DOMAIN g -> R], NEW x, NEW row \in R
  PROVE  With(x, row, g) \in [DOMAIN With(x, row, g) -> R]
BY DEF With, Over

\* A set written out in some order is all there, each element once.
LEMMA OrderedSet ==
  ASSUME NEW S, IsFiniteSet(S), NEW order \in SetToSeqs(S)
  PROVE  /\ order \in Seq(S)
         /\ Range(order) = S
         /\ \A i, j \in 1..Len(order) : order[i] = order[j] => i = j
         /\ S = {} => order = <<>>
<1>1. /\ Cardinality(S) \in Nat
      /\ order \in [1..Cardinality(S) -> S]
      /\ \A i, j \in 1..Cardinality(S) : i # j => order[i] # order[j]
  BY FS_CardinalityType DEF SetToSeqs
<1>2. order \in Seq(S) /\ Len(order) = Cardinality(S) /\ DOMAIN order = 1..Cardinality(S)
  BY <1>1
<1>3. order \in Injection(1..Cardinality(S), S)
  BY <1>1 DEF Injection, IsInjective
<1>4. IsFiniteSet(1..Cardinality(S)) /\ Cardinality(1..Cardinality(S)) = Cardinality(S)
  BY <1>1, FS_Interval
<1>5. order \in Surjection(1..Cardinality(S), S)
  BY <1>3, <1>4, FS_Injection
<1>6. Range(order) = S
  BY <1>2, <1>5 DEF Surjection, Range
<1>7. S = {} => Len(order) = 0
  BY <1>2, FS_EmptySet
<1> QED
  BY <1>1, <1>2, <1>6, <1>7

\* The range of a sequence.
LEMMA RangeOfSequence ==
  ASSUME NEW S, NEW q \in Seq(S)
  PROVE  \A x : x \in Range(q) <=> \E i \in 1..Len(q) : q[i] = x
BY DEF Range

\* The members of a sequence, its head and its tail.
LEMMA HeadAndTail ==
  ASSUME NEW S, NEW q \in Seq(S)
  PROVE  /\ Range(q) \in SUBSET S
         /\ q # <<>> => /\ Head(q) \in Range(q)
                        /\ Tail(q) \in Seq(S)
                        /\ Range(Tail(q)) \subseteq Range(q)
                        /\ Range(q) = Range(Tail(q)) \cup {Head(q)}
<1>1. \A x : x \in Range(q) <=> \E i \in 1..Len(q) : q[i] = x
  BY RangeOfSequence
<1>2. CASE q # <<>>
  <2>1. Len(q) \in Nat \ {0} /\ Head(q) = q[1] /\ Tail(q) \in Seq(S) /\ Len(Tail(q)) = Len(q) - 1
    BY <1>2
  <2>2. \A i \in 1..Len(Tail(q)) : Tail(q)[i] = q[i + 1]
    BY <1>2
  <2>3. \A x : x \in Range(Tail(q)) <=> \E i \in 1..Len(Tail(q)) : Tail(q)[i] = x
    BY <2>1, RangeOfSequence
  <2>4. Range(Tail(q)) \subseteq Range(q)
    BY <1>1, <2>1, <2>2, <2>3
  <2>5. Head(q) \in Range(q)
    BY <1>1, <2>1
  <2>6. ASSUME NEW i \in 1..Len(q), i # 1 PROVE q[i] \in Range(Tail(q))
    <3>1. i - 1 \in 1..Len(Tail(q)) /\ Tail(q)[i - 1] = q[i]
      BY <2>1, <2>2, <2>6
    <3> QED
      BY <2>3, <3>1
  <2>7. Range(q) = Range(Tail(q)) \cup {Head(q)}
    BY <1>1, <2>1, <2>4, <2>5, <2>6
  <2>8. Range(q) \in SUBSET S
    BY <1>1
  <2> QED
    BY <2>1, <2>4, <2>5, <2>7, <2>8
<1> QED
  BY <1>1, <1>2

\* The lock wanted is of one of the five kinds.
LEMMA WantedKind ==
  ASSUME NEW c, NEW lock \in Wanted(c)
  PROVE  lock[1] \in {"key", "request", "window", "grant", "row"}
<1>1. CASE txn[c].todo # <<>>
  BY <1>1 DEF Wanted
<1>2. CASE txn[c].todo = <<>>
  BY <1>2 DEF Wanted
<1> QED
  BY <1>1, <1>2

\* Taking a lock when it is free, or none.
LEMMA LocksStayApart ==
  ASSUME TypeOK, MutualExclusion, NEW c \in Calls, Granted(c) \/ UNCHANGED held
  PROVE  /\ DOMAIN held' = Calls /\ MutualExclusion'
         /\ \A d \in Calls \ {c} : held'[d] = held[d]
         /\ held[c] \subseteq held'[c]
         /\ Granted(c) => Wanted(c) \subseteq held'[c]
         /\ \A d \in Calls : \A lock \in held'[d] : lock[1] \in {"key", "request", "window", "grant", "row"}
<1>1. DOMAIN held = Calls /\ \A d \in Calls : \A lock \in held[d] : lock[1] \in {"key", "request", "window", "grant", "row"}
  BY DEF TypeOK
<1>2. CASE Granted(c)
  <2>1. /\ DOMAIN held' = Calls /\ held'[c] = held[c] \cup Wanted(c)
        /\ \A d \in Calls \ {c} : held'[d] = held[d] /\ Wanted(c) \cap held[d] = {}
    BY <1>1, <1>2 DEF Granted, BlockedBy
  <2>2. MutualExclusion'
    BY <2>1 DEF MutualExclusion
  <2> QED
    BY <1>1, <2>1, <2>2, WantedKind
<1>3. CASE UNCHANGED held
  <2>1. MutualExclusion'
    BY <1>3 DEF MutualExclusion
  <2>2. Granted(c) => Wanted(c) \subseteq held'[c]
    BY <1>1 DEF Granted
  <2> QED
    BY <1>1, <1>3, <2>1, <2>2
<1> QED
  BY <1>2, <1>3

-----------------------------------------------------------------------------
(* Steps that only move one transaction.                                   *)

\* The other calls do not notice.
LEMMA OtherCallStays ==
  ASSUME NEW d \in Calls, CallInv(d), txn'[d] = txn[d], held'[d] = held[d], UNCHANGED tables
  PROVE  CallInv(d)'
<1>1. (Active(d) <=> Active(d)') /\ (AtRest(d) => AtRest(d)')
  BY DEF Active, AtRest
<1>2. InStage(d) => InStage(d)'
  BY DEF InStage
<1>3. HoldsLocks(d) => HoldsLocks(d)'
  BY DEF HoldsLocks
<1>4. WritesEnds(d) => WritesEnds(d)'
  BY DEF WritesEnds, SameGrant, NewGrant, tables
<1>5. ReadsStand(d) => ReadsStand(d)'
  BY DEF ReadsStand, tables
<1> QED
  BY <1>1, <1>2, <1>3, <1>4, <1>5 DEF CallInv

\* A step of c that keeps the tables keeps LockInv if it keeps what LockInv says
\* of c.
LEMMA StepOfOne ==
  ASSUME LockInv, NEW c \in Calls, NEW t, Continue(c, t), TxnType(t), Granted(c) \/ UNCHANGED held,
         UNCHANGED <<overdue, tables>>, CallInv(c)', t.pc \notin {"done", "integrity"},
         c \notin DOMAIN grants
  PROVE  LockInv'
<1>1. /\ DOMAIN held' = Calls /\ MutualExclusion'
      /\ \A d \in Calls \ {c} : held'[d] = held[d]
      /\ \A d \in Calls : \A lock \in held'[d] : lock[1] \in {"key", "request", "window", "grant", "row"}
  BY LocksStayApart DEF LockInv
<1>2. DOMAIN txn' = Calls /\ txn'[c] = t /\ \A d \in Calls \ {c} : txn'[d] = txn[d]
  BY DEF LockInv, TypeOK, Continue
<1>3. \A d \in Calls : TxnType(txn'[d])
  BY <1>2 DEF LockInv, TypeOK, TxnType
<1>4. TypeOK'
  BY <1>1, <1>2, <1>3 DEF LockInv, TypeOK, TxnType, tables, WellFormed
<1>5. ASSUME NEW d \in Calls PROVE CallInv(d)'
  <2>1. CASE d = c
    BY <2>1
  <2>2. CASE d # c
    BY <2>2, <1>1, <1>2, OtherCallStays DEF LockInv, CallInv
  <2> QED
    BY <2>1, <2>2
<1>6. NoIntegrityError'
  BY <1>2 DEF LockInv, NoIntegrityError
<1>7. OneGrantPerApproval' /\ IsFiniteSet(DOMAIN grants)' /\ IsFiniteSet(records)' /\ IsFiniteSet(shared)'
  BY DEF LockInv, OneGrantPerApproval, tables
<1>8. \A d \in Calls : txn'[d].pc # "done" => d \notin DOMAIN grants'
  BY <1>2 DEF LockInv, tables
<1> QED
  BY <1>1, <1>4, <1>5, <1>6, <1>7, <1>8 DEF LockInv, CallInv

\* Having nothing is well-typed.
LEMMA NothingType ==
  /\ DOMAIN <<>> = {} /\ Range(<<>>) = {} /\ \A S : <<>> \in [{} -> S] /\ <<>> \in Seq(S)
  /\ Idle \in Transactions({}, {})
<1>1. DOMAIN <<>> = {} /\ Range(<<>>) = {} /\ \A S : <<>> \in [{} -> S] /\ <<>> \in Seq(S)
  BY DEF Range
<1> QED
  BY <1>1 DEF Idle, Transactions

\* So it stays at the end of a call.
LEMMA IdleType ==
  ASSUME NEW pc \in Ended \cup {"idle"}
  PROVE  TxnType([Idle EXCEPT !.pc = pc])
<1>1. [Idle EXCEPT !.pc = pc] \in Transactions({}, {})
  BY NothingType DEF Transactions
<1>2. [Idle EXCEPT !.pc = pc].seen = <<>> /\ [Idle EXCEPT !.pc = pc].wrote = <<>>
  BY DEF Idle
<1> QED
  BY <1>1, <1>2, NothingType DEF TxnType

\* A transaction that is rolled back leaves nothing behind.
LEMMA RollbackKeepsLocks ==
  ASSUME LockInv, NEW c \in Calls, NEW outcome \in Ended \ {"done", "integrity"}, Rollback(c, outcome),
         txn[c].pc # "done"
  PROVE  LockInv'
<1>1. /\ DOMAIN txn' = Calls /\ txn'[c] = [Idle EXCEPT !.pc = outcome]
      /\ \A d \in Calls \ {c} : txn'[d] = txn[d]
      /\ DOMAIN held' = Calls /\ held'[c] = {}
      /\ \A d \in Calls \ {c} : held'[d] = held[d]
      /\ UNCHANGED <<overdue, tables>>
  BY DEF LockInv, TypeOK, Rollback, End
<1>2. MutualExclusion'
  BY <1>1 DEF LockInv, MutualExclusion
<1>3. TxnType(txn'[c])
  BY <1>1, IdleType
<1>4. \A d \in Calls : TxnType(txn'[d])
  BY <1>1, <1>3 DEF LockInv, TypeOK, TxnType
<1>5. TypeOK'
  BY <1>1, <1>4 DEF LockInv, TypeOK, TxnType, tables, WellFormed
<1>6. txn'[c].pc = outcome
  BY <1>1 DEF Idle
<1>7. ASSUME NEW d \in Calls PROVE CallInv(d)'
  <2>1. CASE d = c
    BY <2>1, <1>1, <1>6 DEF CallInv, Active, AtRest
  <2>2. CASE d # c
    BY <2>2, <1>1, OtherCallStays DEF LockInv, CallInv
  <2> QED
    BY <2>1, <2>2
<1>8. NoIntegrityError' /\ \A d \in Calls : txn'[d].pc # "done" => d \notin DOMAIN grants'
  <2>1. \A d \in Calls : txn[d].pc # "integrity" /\ (txn[d].pc # "done" => d \notin DOMAIN grants)
    BY DEF LockInv, NoIntegrityError
  <2> QED
    BY <1>1, <1>6, <2>1 DEF NoIntegrityError, tables
<1>9. OneGrantPerApproval' /\ IsFiniteSet(DOMAIN grants)' /\ IsFiniteSet(records)' /\ IsFiniteSet(shared)'
  BY <1>1 DEF LockInv, OneGrantPerApproval, tables
<1> QED
  BY <1>2, <1>5, <1>7, <1>8, <1>9 DEF LockInv, CallInv

-----------------------------------------------------------------------------
(* One lemma per action.                                                   *)

\* Where each operation begins, and where it can be.
LEMMA OperationStages ==
  ASSUME NEW call \in Workload
  PROVE  /\ call.member \in Members
         /\ call.op \in {"consume", "approve", "reject", "revoke", "effective", "list"}
         /\ EntryPoint[call.op] \in StagesOf[call.op] \ {"decide", "received", "refuse", "commit", "revoke"}
         /\ call.op = "consume" => EntryPoint[call.op] = "key"
         /\ call.op \in {"approve", "reject"} => EntryPoint[call.op] = "request"
         /\ call.op = "effective" => EntryPoint[call.op] = "window"
         /\ StagesOf[call.op] \subseteq Stages
BY WorkloadAssumption DEF EntryPoint, StagesOf, Stages

\* A call begins with nothing read and nothing held.
LEMMA BeginKeepsLocks ==
  ASSUME LockInv, NEW c \in Calls, Begin(c)
  PROVE  LockInv'
<1>1. PICK call \in Workload :
        Continue(c, [Idle EXCEPT !.pc = EntryPoint[call.op], !.call = call, !.of = call.member, !.late = overdue])
  BY DEF Begin
<1> DEFINE t == [Idle EXCEPT !.pc = EntryPoint[call.op], !.call = call, !.of = call.member, !.late = overdue]
<1>2. /\ t.pc = EntryPoint[call.op] /\ t.call = call /\ t.of = call.member /\ t.todo = <<>>
      /\ t.sent = {} /\ t.received = {} /\ t.seen = <<>> /\ t.queue = <<>> /\ t.drawn = {}
      /\ t.wrote = <<>> /\ t.verdict = "none" /\ t.replay = FALSE
  BY DEF Idle
<1>3. TxnType(t)
  <2>1. /\ t.pc \in Stages \cup Ended \cup {"idle"} /\ t.call \in Workload \cup {NoCall}
        /\ t.of \in Members \cup {"none"} /\ overdue \in BOOLEAN
    BY <1>2, OperationStages DEF LockInv, TypeOK
  <2>2. EntryPoint[call.op] \in Stages
    BY OperationStages
  <2>3. t \in Transactions({}, {})
    BY <2>1, <2>2, OperationStages, NothingType DEF Transactions
  <2> QED
    BY <1>2, <2>3, NothingType DEF TxnType
<1>4. txn[c].pc = "idle" /\ UNCHANGED <<overdue, tables, held>>
  BY DEF Begin
<1>5. txn'[c] = t
  BY <1>1 DEF LockInv, TypeOK, Continue
<1>6. held'[c] = {} /\ c \notin DOMAIN grants
  BY <1>4 DEF LockInv, Active, AtRest
<1> HIDE DEF t
<1>7. Range(<<>>) = {} /\ DOMAIN <<>> = {}
  BY NothingType
<1>8. InStage(c)' /\ Active(c)'
  BY <1>2, <1>5, OperationStages, FS_EmptySet DEF InStage, Active, Stages, Ended
<1>9. HoldsLocks(c)'
  BY <1>2, <1>5, <1>7, OperationStages DEF HoldsLocks, Stages
<1>10. WritesEnds(c)'
  BY <1>2, <1>5, <1>7, OperationStages DEF WritesEnds
<1>11. ReadsStand(c)'
  BY <1>2, <1>5, <1>7, OperationStages DEF ReadsStand
<1>12. CallInv(c)'
  BY <1>8, <1>9, <1>10, <1>11 DEF CallInv
<1>13. t.pc \notin {"done", "integrity"}
  BY <1>2, OperationStages DEF Stages
<1> QED
  BY <1>1, <1>3, <1>4, <1>6, <1>12, <1>13, StepOfOne DEF t

\* What is known of a call that is under way.
LEMMA UnderWay ==
  ASSUME LockInv, NEW c \in Calls, txn[c].pc \in Stages
  PROVE  /\ Active(c) /\ InStage(c) /\ HoldsLocks(c) /\ WritesEnds(c) /\ ReadsStand(c)
         /\ txn[c] \in Transactions(DOMAIN txn[c].seen, DOMAIN txn[c].wrote)
         /\ DOMAIN txn[c].seen \subseteq Members /\ DOMAIN txn[c].wrote \subseteq Ids
         /\ txn[c].call.member \in Members
         /\ txn[c].call.op \in {"consume", "approve", "reject", "revoke", "effective", "list"}
         /\ c \notin DOMAIN grants
         /\ \A t : Continue(c, t) => txn'[c] = t
<1>1. Active(c)
  BY DEF Active, Stages, Ended
<1>2. InStage(c) /\ HoldsLocks(c) /\ WritesEnds(c) /\ ReadsStand(c)
  BY <1>1 DEF LockInv
<1>3. \A t : Continue(c, t) => txn'[c] = t
  BY DEF LockInv, TypeOK, Continue
<1> QED
  BY <1>1, <1>2, <1>3, OperationStages DEF LockInv, TypeOK, InStage, Stages

\* The key is looked up, under its lock.
LEMMA FindKeyKeepsLocks ==
  ASSUME LockInv, NEW c \in Calls, FindKey(c)
  PROVE  LockInv'
<1> DEFINE prior == { r \in records : r.key = txn[c].call.key }
           t     == [txn[c] EXCEPT !.pc = "window", !.replay = prior # {}]
<1>1. CASE Continue(c, t) /\ Granted(c) /\ UNCHANGED <<overdue, tables>>
  <2>1. txn[c].pc = "key" /\ txn[c].pc \in Stages
    BY DEF FindKey, Stages
  <2>2. /\ txn[c] \in Transactions(DOMAIN txn[c].seen, DOMAIN txn[c].wrote)
        /\ InStage(c) /\ HoldsLocks(c) /\ WritesEnds(c) /\ ReadsStand(c) /\ c \notin DOMAIN grants
        /\ txn'[c] = t
    BY <1>1, <2>1, UnderWay
  <2>3. t \in Transactions(DOMAIN txn[c].seen, DOMAIN txn[c].wrote)
    BY <2>2 DEF Transactions, Stages
  <2>4. /\ t.pc = "window" /\ t.replay = (prior # {})
        /\ t.call = txn[c].call /\ t.of = txn[c].of /\ t.todo = txn[c].todo /\ t.sent = txn[c].sent
        /\ t.received = txn[c].received /\ t.seen = txn[c].seen /\ t.queue = txn[c].queue
        /\ t.drawn = txn[c].drawn /\ t.wrote = txn[c].wrote /\ t.verdict = txn[c].verdict
    BY <2>2 DEF Transactions
  <2>5. t.replay = FALSE => \A r \in records : r.key # t.call.key
    BY <2>4
  <2> HIDE DEF t
  <2>6. TxnType(t)
    BY <2>1, <2>3, <2>4, UnderWay DEF TxnType
  <2>7. txn[c].call.op = "consume" /\ txn[c].todo = <<>>
    BY <2>1, <2>2, OperationStages DEF InStage, StagesOf
  <2>8. held[c] \subseteq held'[c] /\ <<"key", t.call.key>> \in held'[c]
    <3>1. Wanted(c) = {<<"key", t.call.key>>}
      BY <2>1, <2>4, <2>7 DEF Wanted
    <3> QED
      BY <1>1, <3>1, LocksStayApart DEF LockInv
  <2>9. Active(c)' /\ InStage(c)'
    BY <2>1, <2>2, <2>4, <2>7 DEF InStage, Active, Ended, StagesOf
  <2>10. HoldsLocks(c)'
    BY <2>1, <2>2, <2>4, <2>7, <2>8 DEF HoldsLocks
  <2>11. WritesEnds(c)'
    BY <1>1, <2>1, <2>2, <2>4, <2>7 DEF WritesEnds, tables, SameGrant
  <2>12. ReadsStand(c)'
    BY <1>1, <2>1, <2>2, <2>4, <2>5, <2>7 DEF ReadsStand, tables
  <2> QED
    BY <1>1, <2>2, <2>4, <2>6, <2>9, <2>10, <2>11, <2>12, StepOfOne DEF CallInv
<1>2. CASE Rollback(c, "conflict")
  BY <1>2, RollbackKeepsLocks DEF FindKey, Ended
<1> QED
  BY <1>1, <1>2 DEF FindKey

\* The request is read, under its lock, and is still open.
LEMMA GetRequestKeepsLocks ==
  ASSUME LockInv, NEW c \in Calls, GetRequest(c)
  PROVE  LockInv'
<1> DEFINE call == txn[c].call
           open == requests[call.ref] = "PENDING" /\ Terms[call.ref].target = call.member
<1>1. txn[c].pc = "request" /\ txn[c].pc \in Stages
  BY DEF GetRequest, Stages
<1>2. ASSUME open, Granted(c), UNCHANGED <<overdue, tables>>, NEW t,
             \/ call.op = "approve" /\ t = [txn[c] EXCEPT !.pc = "window"]
             \/ call.op = "reject" /\ t = [txn[c] EXCEPT !.pc = "commit", !.verdict = "REJECTED"],
             Continue(c, t)
      PROVE  LockInv'
  <2>1. /\ txn[c] \in Transactions(DOMAIN txn[c].seen, DOMAIN txn[c].wrote)
        /\ InStage(c) /\ HoldsLocks(c) /\ WritesEnds(c) /\ ReadsStand(c) /\ c \notin DOMAIN grants
        /\ txn'[c] = t
    BY <1>1, <1>2, UnderWay
  <2>2. t \in Transactions(DOMAIN txn[c].seen, DOMAIN txn[c].wrote)
    <3>1. CASE t = [txn[c] EXCEPT !.pc = "window"]
      BY <2>1, <3>1 DEF Transactions, Stages
    <3>2. CASE t = [txn[c] EXCEPT !.pc = "commit", !.verdict = "REJECTED"]
      BY <2>1, <3>2 DEF Transactions, Stages
    <3> QED
      BY <1>2, <3>1, <3>2
  <2>3. /\ call.op = "approve" => t.pc = "window" /\ t.verdict = txn[c].verdict
        /\ call.op = "reject" => t.pc = "commit" /\ t.verdict = "REJECTED"
        /\ t.replay = txn[c].replay
        /\ t.call = txn[c].call /\ t.of = txn[c].of /\ t.todo = txn[c].todo /\ t.sent = txn[c].sent
        /\ t.received = txn[c].received /\ t.seen = txn[c].seen /\ t.queue = txn[c].queue
        /\ t.drawn = txn[c].drawn /\ t.wrote = txn[c].wrote
    BY <1>2, <2>1, ZenonT(40) DEF Transactions
  <2>4. TxnType(t)
    BY <1>1, <2>2, <2>3, UnderWay DEF TxnType
  <2>5. txn[c].todo = <<>> /\ call.op \in {"approve", "reject"}
    BY <1>1, <1>2, <2>1 DEF InStage
  <2>6. held[c] \subseteq held'[c] /\ <<"request", call.ref>> \in held'[c]
    <3>1. Wanted(c) = {<<"request", call.ref>>}
      BY <1>1, <2>5 DEF Wanted
    <3> QED
      BY <1>2, <3>1, LocksStayApart DEF LockInv
  <2>7. Active(c)' /\ InStage(c)'
    BY <1>1, <2>1, <2>3, <2>5 DEF InStage, Active, Ended, StagesOf
  <2>8. HoldsLocks(c)'
    BY <1>1, <2>1, <2>3, <2>5, <2>6 DEF HoldsLocks
  <2>9. WritesEnds(c)'
    <3>1. txn[c].verdict = "none" /\ c \notin DOMAIN txn[c].wrote
      BY <1>1, <2>1 DEF WritesEnds
    <3>2. t.verdict # "APPROVED" /\ t.verdict = (IF t.pc # "commit" THEN "none" ELSE "REJECTED")
      BY <2>3, <2>5, <3>1
    <3>3. t.wrote = txn[c].wrote /\ t.call = call /\ call.op \in {"approve", "reject"}
      BY <2>1, <2>3, <2>5
    <3>4. UNCHANGED grants
      BY <1>2 DEF tables
    <3>5. \A h \in DOMAIN txn'[c].wrote \ {c} :
            h \in DOMAIN grants' /\ SameGrant(grants'[h], txn'[c].wrote[h]) /\ txn'[c].wrote[h].status # "ACTIVE"
      <4>1. \A h \in DOMAIN t.wrote \ {c} :
              h \in DOMAIN grants /\ SameGrant(grants[h], t.wrote[h]) /\ t.wrote[h].status # "ACTIVE"
        BY <2>1, <3>3 DEF WritesEnds
      <4> QED
        BY <2>1, <3>4, <4>1
    <3>6. /\ c \notin DOMAIN txn'[c].wrote /\ txn'[c].verdict # "APPROVED"
          /\ txn'[c].call.op \in {"approve", "reject"}
          /\ txn'[c].verdict = (IF txn'[c].pc # "commit" THEN "none" ELSE "REJECTED")
          /\ txn'[c].pc = "commit" => txn'[c].call.op = "reject"
      BY <2>1, <2>3, <3>1, <3>2, <3>3
    <3> QED
      BY <3>5, <3>6 DEF WritesEnds, SameGrant
  <2>10. ReadsStand(c)'
    BY <1>1, <1>2, <2>1, <2>3, <2>5 DEF ReadsStand, tables
  <2>11. t.pc \notin {"done", "integrity"}
    BY <2>3, <2>5
  <2> QED
    BY <1>2, <2>1, <2>4, <2>7, <2>8, <2>9, <2>10, <2>11, StepOfOne DEF CallInv
<1>3. CASE Rollback(c, "refused")
  BY <1>1, <1>3, RollbackKeepsLocks DEF Ended
<1> QED
  BY <1>2, <1>3 DEF GetRequest

\* The grant is read, under its lock.
LEMMA GetGrantKeepsLocks ==
  ASSUME LockInv, NEW c \in Calls, GetGrant(c)
  PROVE  LockInv'
<1> DEFINE t == [txn[c] EXCEPT !.pc = "revoke"]
<1>1. txn[c].pc = "grant" /\ txn[c].pc \in Stages
  BY DEF GetGrant, Stages
<1>2. CASE txn[c].call.ref \in DOMAIN grants /\ Granted(c) /\ Continue(c, t) /\ UNCHANGED <<overdue, tables>>
  <2>1. /\ txn[c] \in Transactions(DOMAIN txn[c].seen, DOMAIN txn[c].wrote)
        /\ InStage(c) /\ HoldsLocks(c) /\ WritesEnds(c) /\ ReadsStand(c) /\ c \notin DOMAIN grants
        /\ txn'[c] = t
    BY <1>1, <1>2, UnderWay
  <2>2. t \in Transactions(DOMAIN txn[c].seen, DOMAIN txn[c].wrote)
    BY <2>1 DEF Transactions, Stages
  <2>3. /\ t.pc = "revoke" /\ t.replay = txn[c].replay /\ t.verdict = txn[c].verdict
        /\ t.call = txn[c].call /\ t.of = txn[c].of /\ t.todo = txn[c].todo /\ t.sent = txn[c].sent
        /\ t.received = txn[c].received /\ t.seen = txn[c].seen /\ t.queue = txn[c].queue
        /\ t.drawn = txn[c].drawn /\ t.wrote = txn[c].wrote
    BY <2>1 DEF Transactions
  <2> HIDE DEF t
  <2>4. TxnType(t)
    BY <1>1, <2>2, <2>3, UnderWay DEF TxnType
  <2>5. txn[c].call.op = "revoke"
    BY <1>1, <2>1, UnderWay DEF InStage, StagesOf
  <2>6. held[c] \subseteq held'[c]
    BY <1>2, LocksStayApart DEF LockInv
  <2>7. Active(c)' /\ InStage(c)'
    BY <1>1, <2>1, <2>3, <2>5 DEF InStage, Active, Ended, StagesOf
  <2>8. HoldsLocks(c)'
    BY <1>1, <2>1, <2>3, <2>5, <2>6 DEF HoldsLocks
  <2>9. WritesEnds(c)'
    BY <1>1, <1>2, <2>1, <2>3, <2>5 DEF WritesEnds, tables, SameGrant
  <2>10. ReadsStand(c)'
    BY <1>1, <1>2, <2>1, <2>3, <2>5 DEF ReadsStand, tables
  <2>11. t.pc \notin {"done", "integrity"}
    BY <2>3
  <2> QED
    BY <1>2, <2>1, <2>4, <2>7, <2>8, <2>9, <2>10, <2>11, StepOfOne DEF CallInv
<1>3. CASE Rollback(c, "refused")
  BY <1>1, <1>3, RollbackKeepsLocks DEF Ended
<1> QED
  BY <1>2, <1>3 DEF GetGrant

\* Ending a grant writes the row that is there, its status changed.
LEMMA EndedRow ==
  ASSUME LockInv, NEW c \in Calls, NEW g \in DOMAIN grants, txn[c].pc \in Stages,
         NEW status \in {"REVOKED", "EXPIRED"}, NEW revoked \in BOOLEAN,
         NEW wrote, wrote = Overwritten(c, g, status, revoked)
  PROVE  /\ DOMAIN wrote = DOMAIN txn[c].wrote \cup {g}
         /\ DOMAIN wrote \subseteq Ids
         /\ wrote \in [DOMAIN wrote -> Grants]
         /\ SameGrant(grants[g], wrote[g]) /\ wrote[g].status # "ACTIVE"
         /\ \A h \in DOMAIN txn[c].wrote \ {g} : wrote[h] = txn[c].wrote[h]
         /\ g # c
<1> DEFINE row == [grants[g] EXCEPT !.status = status, !.revoked = revoked]
<1>1. grants[g] \in Grants /\ g \in Ids /\ c \notin DOMAIN grants
  BY UnderWay DEF LockInv, TypeOK
<1>2. row \in Grants /\ SameGrant(grants[g], row) /\ row.status = status
  BY <1>1 DEF Grants, SameGrant
<1>3. wrote = With(g, row, txn[c].wrote)
  BY DEF Overwritten
<1> HIDE DEF row
<1>4. txn[c].wrote \in [DOMAIN txn[c].wrote -> Grants] /\ DOMAIN txn[c].wrote \subseteq Ids
  BY UnderWay DEF Transactions
<1>5. wrote \in [DOMAIN wrote -> Grants]
  BY <1>2, <1>3, <1>4, WithType
<1>6. /\ DOMAIN wrote = DOMAIN txn[c].wrote \cup {g} /\ wrote[g] = row
      /\ \A h \in DOMAIN txn[c].wrote \ {g} : wrote[h] = txn[c].wrote[h]
  BY <1>3 DEF With, Over
<1>7. SameGrant(grants[g], wrote[g]) /\ wrote[g].status # "ACTIVE"
  <2>1. wrote[g] = row /\ row.status # "ACTIVE"
    BY <1>2, <1>6
  <2> QED
    BY <1>2, <2>1 DEF SameGrant
<1>8. DOMAIN wrote \subseteq Ids /\ g # c
  BY <1>1, <1>4, <1>6
<1> QED
  BY <1>5, <1>6, <1>7, <1>8

\* The revocation is written once the row is free.
LEMMA RevokeKeepsLocks ==
  ASSUME LockInv, NEW c \in Calls, Revoke(c)
  PROVE  LockInv'
<1> DEFINE g     == txn[c].call.ref
           wrote == Overwritten(c, g, "REVOKED", TRUE)
           t     == [txn[c] EXCEPT !.pc = "commit", !.wrote = wrote]
<1>1. /\ txn[c].pc = "revoke" /\ txn[c].pc \in Stages
      /\ Granted(c) /\ Continue(c, t) /\ UNCHANGED <<overdue, tables>>
  BY DEF Revoke, Stages
<1>2. /\ txn[c] \in Transactions(DOMAIN txn[c].seen, DOMAIN txn[c].wrote)
      /\ InStage(c) /\ HoldsLocks(c) /\ WritesEnds(c) /\ ReadsStand(c) /\ c \notin DOMAIN grants
      /\ txn'[c] = t
  BY <1>1, UnderWay
<1>3. g \in DOMAIN grants
  BY <1>1, <1>2 DEF ReadsStand
<1>4. /\ DOMAIN wrote = DOMAIN txn[c].wrote \cup {g}
      /\ DOMAIN wrote \subseteq Ids
      /\ wrote \in [DOMAIN wrote -> Grants]
      /\ SameGrant(grants[g], wrote[g]) /\ wrote[g].status # "ACTIVE"
      /\ \A h \in DOMAIN txn[c].wrote \ {g} : wrote[h] = txn[c].wrote[h]
      /\ g # c
  BY <1>1, <1>3, EndedRow, ZenonT(40)
<1> HIDE DEF wrote
<1>5. t \in Transactions(DOMAIN txn[c].seen, DOMAIN wrote)
  BY <1>2, <1>4 DEF Transactions, Stages
<1>6. /\ t.pc = "commit" /\ t.replay = txn[c].replay /\ t.verdict = txn[c].verdict /\ t.wrote = wrote
      /\ t.call = txn[c].call /\ t.of = txn[c].of /\ t.todo = txn[c].todo /\ t.sent = txn[c].sent
      /\ t.received = txn[c].received /\ t.seen = txn[c].seen /\ t.queue = txn[c].queue
      /\ t.drawn = txn[c].drawn
  BY <1>2 DEF Transactions
<1> HIDE DEF t
<1>7. TxnType(t)
  BY <1>1, <1>4, <1>5, <1>6, UnderWay DEF TxnType
<1>8. txn[c].call.op = "revoke" /\ txn[c].todo = <<>>
  BY <1>1, <1>2, UnderWay DEF InStage, StagesOf
<1>9. held[c] \subseteq held'[c] /\ <<"row", g>> \in held'[c]
  <2>1. Wanted(c) = {<<"row", g>>}
    BY <1>1, <1>8 DEF Wanted
  <2> QED
    BY <1>1, <2>1, LocksStayApart DEF LockInv
<1>10. Active(c)' /\ InStage(c)'
  BY <1>1, <1>2, <1>6, <1>8 DEF InStage, Active, Ended, StagesOf
<1>11. HoldsLocks(c)'
  BY <1>1, <1>2, <1>4, <1>6, <1>8, <1>9 DEF HoldsLocks
<1>12. WritesEnds(c)'
  <2>1. txn[c].verdict = "none" /\ c \notin DOMAIN txn[c].wrote
    BY <1>1, <1>2 DEF WritesEnds
  <2>2. \A h \in DOMAIN t.wrote \ {c} :
          h \in DOMAIN grants /\ SameGrant(grants[h], t.wrote[h]) /\ t.wrote[h].status # "ACTIVE"
    <3> SUFFICES ASSUME NEW h \in DOMAIN t.wrote \ {c}
                 PROVE  h \in DOMAIN grants /\ SameGrant(grants[h], t.wrote[h]) /\ t.wrote[h].status # "ACTIVE"
      OBVIOUS
    <3>1. CASE h = g
      BY <1>3, <1>4, <1>6, <3>1
    <3>2. CASE h # g
      <4>1. h \in DOMAIN txn[c].wrote \ {c} /\ t.wrote[h] = txn[c].wrote[h]
        BY <1>4, <1>6, <3>2
      <4> QED
        BY <1>2, <4>1 DEF WritesEnds
    <3> QED
      BY <3>1, <3>2
  <2>3. c \notin DOMAIN t.wrote /\ t.verdict = "none" /\ t.pc = "commit" /\ t.call.op = "revoke"
    BY <1>4, <1>6, <1>8, <2>1
  <2>4. txn'[c] = t /\ UNCHANGED grants
    BY <1>1, <1>2 DEF tables
  <2>5. \A h \in DOMAIN txn'[c].wrote \ {c} :
          h \in DOMAIN grants' /\ SameGrant(grants'[h], txn'[c].wrote[h]) /\ txn'[c].wrote[h].status # "ACTIVE"
    BY <2>2, <2>4
  <2>6. /\ c \notin DOMAIN txn'[c].wrote /\ txn'[c].verdict = "none"
        /\ txn'[c].pc = "commit" /\ txn'[c].call.op = "revoke"
    BY <2>3, <2>4
  <2> QED
    BY <2>5, <2>6 DEF WritesEnds, SameGrant
<1>13. ReadsStand(c)'
  BY <1>1, <1>2, <1>6, <1>8 DEF ReadsStand, tables
<1>14. t.pc \notin {"done", "integrity"}
  BY <1>6
<1> QED
  BY <1>1, <1>2, <1>7, <1>10, <1>11, <1>12, <1>13, <1>14, StepOfOne DEF CallInv

\* A window is read, under its lock.
LEMMA GetWindowKeepsLocks ==
  ASSUME LockInv, NEW c \in Calls, GetWindow(c)
  PROVE  LockInv'
<1> DEFINE m    == txn[c].of
           seen == With(m, usage[m], txn[c].seen)
           t    == [txn[c] EXCEPT !.pc = "sent", !.seen = With(m, usage[m], @)]
<1>1. /\ txn[c].pc = "window" /\ txn[c].pc \in Stages
      /\ Granted(c) /\ Continue(c, t) /\ UNCHANGED <<overdue, tables>>
  BY DEF GetWindow, Stages
<1>2. /\ txn[c] \in Transactions(DOMAIN txn[c].seen, DOMAIN txn[c].wrote)
      /\ DOMAIN txn[c].seen \subseteq Members /\ DOMAIN txn[c].wrote \subseteq Ids
      /\ InStage(c) /\ HoldsLocks(c) /\ WritesEnds(c) /\ ReadsStand(c) /\ c \notin DOMAIN grants
      /\ txn'[c] = t
  BY <1>1, UnderWay
<1>3. m \in Members /\ usage[m] \in Nat /\ txn[c].seen \in [DOMAIN txn[c].seen -> Nat]
  BY <1>2 DEF InStage, LockInv, TypeOK, Transactions
<1>4. /\ DOMAIN seen = DOMAIN txn[c].seen \cup {m}
      /\ seen \in [DOMAIN seen -> Nat]
  BY <1>3 DEF With, Over
<1>5. t = [txn[c] EXCEPT !.pc = "sent", !.seen = seen]
  OBVIOUS
<1> HIDE DEF seen, t
<1>6. t \in Transactions(DOMAIN seen, DOMAIN txn[c].wrote)
  BY <1>2, <1>4, <1>5 DEF Transactions, Stages
<1>7. /\ t.pc = "sent" /\ t.replay = txn[c].replay /\ t.verdict = txn[c].verdict /\ t.wrote = txn[c].wrote
      /\ t.call = txn[c].call /\ t.of = txn[c].of /\ t.todo = txn[c].todo /\ t.sent = txn[c].sent
      /\ t.received = txn[c].received /\ t.seen = seen /\ t.queue = txn[c].queue
      /\ t.drawn = txn[c].drawn
  BY <1>2, <1>5 DEF Transactions
<1>8. TxnType(t)
  BY <1>2, <1>3, <1>4, <1>6, <1>7 DEF TxnType
<1>9. txn[c].call.op \in {"consume", "approve", "effective"} /\ txn[c].todo = <<>>
  BY <1>1, <1>2, UnderWay DEF InStage, StagesOf
<1>10. held[c] \subseteq held'[c] /\ <<"window", m>> \in held'[c]
  <2>1. Wanted(c) = {<<"window", m>>}
    BY <1>1, <1>9 DEF Wanted
  <2> QED
    BY <1>1, <2>1, LocksStayApart DEF LockInv
<1>11. Active(c)' /\ InStage(c)'
  BY <1>1, <1>2, <1>7, <1>9 DEF InStage, Active, Ended, StagesOf
<1>12. HoldsLocks(c)'
  BY <1>1, <1>2, <1>4, <1>7, <1>9, <1>10 DEF HoldsLocks
<1>13. WritesEnds(c)'
  BY <1>1, <1>2, <1>7, <1>9 DEF WritesEnds, tables, SameGrant
<1>14. ReadsStand(c)'
  BY <1>1, <1>2, <1>7, <1>9 DEF ReadsStand, tables
<1>15. t.pc \notin {"done", "integrity"}
  BY <1>7
<1> QED
  BY <1>1, <1>2, <1>8, <1>11, <1>12, <1>13, <1>14, <1>15, StepOfOne DEF CallInv

\* Before its last step a call sees the committed grants, some of them ended.
LEMMA ViewOfGrants ==
  ASSUME LockInv, NEW c \in Calls, txn[c].pc \in Stages \ {"commit"}
  PROVE  /\ DOMAIN View(c) = DOMAIN grants
         /\ IsFiniteSet(DOMAIN View(c))
         /\ \A g \in DOMAIN grants :
              /\ SameGrant(grants[g], View(c)[g])
              /\ View(c)[g].status = "ACTIVE" => g \notin DOMAIN txn[c].wrote /\ View(c)[g] = grants[g]
<1>1. WritesEnds(c) /\ DOMAIN txn[c].wrote \subseteq Ids
  BY UnderWay
<1>2. c \notin DOMAIN txn[c].wrote
  BY <1>1 DEF WritesEnds
<1>3. \A g \in DOMAIN txn[c].wrote :
        g \in DOMAIN grants /\ SameGrant(grants[g], txn[c].wrote[g]) /\ txn[c].wrote[g].status # "ACTIVE"
  BY <1>1, <1>2 DEF WritesEnds
<1>4. DOMAIN View(c) = DOMAIN grants
  BY <1>3 DEF View, Over
<1>5. ASSUME NEW g \in DOMAIN grants
      PROVE  /\ SameGrant(grants[g], View(c)[g])
             /\ View(c)[g].status = "ACTIVE" => g \notin DOMAIN txn[c].wrote /\ View(c)[g] = grants[g]
  <2>1. CASE g \in DOMAIN txn[c].wrote
    BY <1>3, <2>1 DEF View, Over
  <2>2. CASE g \notin DOMAIN txn[c].wrote
    BY <2>2 DEF View, Over, SameGrant
  <2> QED
    BY <2>1, <2>2
<1> QED
  BY <1>4, <1>5 DEF LockInv

\* The grants given away are listed, and those that are stale are to be ended.
LEMMA ListSentKeepsLocks ==
  ASSUME LockInv, NEW c \in Calls, ListSent(c)
  PROVE  LockInv'
<1> DEFINE stale == Stale(c, SentBy(c))
           kept  == SentBy(c) \ stale
           After(order) == [txn[c] EXCEPT !.pc = "received", !.sent = kept, !.todo = order]
<1>1. /\ txn[c].pc = "sent" /\ txn[c].pc \in Stages \ {"commit"} /\ txn[c].todo = <<>>
      /\ UNCHANGED held /\ UNCHANGED <<overdue, tables>>
  BY DEF ListSent, Stages
<1>2. PICK order \in SetToSeqs(stale) : Continue(c, After(order))
  BY DEF ListSent
<1> DEFINE t == After(order)
<1>3. /\ txn[c] \in Transactions(DOMAIN txn[c].seen, DOMAIN txn[c].wrote)
      /\ DOMAIN txn[c].seen \subseteq Members /\ DOMAIN txn[c].wrote \subseteq Ids
      /\ InStage(c) /\ HoldsLocks(c) /\ WritesEnds(c) /\ ReadsStand(c) /\ c \notin DOMAIN grants
      /\ txn'[c] = t
  BY <1>1, <1>2, UnderWay
<1>4. stale \in SUBSET DOMAIN grants /\ kept \in SUBSET DOMAIN grants /\ DOMAIN grants \subseteq Ids
  BY <1>1, ViewOfGrants DEF SentBy, Stale, LockInv, TypeOK
<1>5. IsFiniteSet(stale)
  BY <1>4, FS_Subset DEF LockInv
<1>6. order \in Seq(Ids) /\ Range(order) \subseteq DOMAIN grants
  <2> HIDE DEF stale
  <2>1. order \in Seq(stale) /\ Range(order) = stale
    BY <1>5, OrderedSet
  <2> QED
    BY <1>4, <2>1
<1> HIDE DEF stale, kept
<1>7. t \in Transactions(DOMAIN txn[c].seen, DOMAIN txn[c].wrote)
  BY <1>3, <1>4, <1>6 DEF Transactions, Stages
<1>8. /\ t.pc = "received" /\ t.replay = txn[c].replay /\ t.verdict = txn[c].verdict /\ t.wrote = txn[c].wrote
      /\ t.call = txn[c].call /\ t.of = txn[c].of /\ t.todo = order /\ t.sent = kept
      /\ t.received = txn[c].received /\ t.seen = txn[c].seen /\ t.queue = txn[c].queue
      /\ t.drawn = txn[c].drawn
  BY <1>3 DEF Transactions
<1> HIDE DEF After
<1>9. TxnType(t)
  BY <1>3, <1>7, <1>8 DEF TxnType
<1>10. txn[c].call.op \in {"consume", "approve", "effective", "list"}
  BY <1>1, <1>3, UnderWay DEF InStage, StagesOf
<1>11. Active(c)' /\ InStage(c)'
  BY <1>1, <1>3, <1>8, <1>10 DEF InStage, Active, Ended, StagesOf
<1>12. HoldsLocks(c)'
  BY <1>1, <1>3, <1>8, <1>10 DEF HoldsLocks
<1>13. WritesEnds(c)'
  BY <1>1, <1>3, <1>8, <1>10 DEF WritesEnds, tables, SameGrant
<1>14. ReadsStand(c)'
  BY <1>1, <1>3, <1>4, <1>6, <1>8, <1>10 DEF ReadsStand, tables
<1>15. t.pc \notin {"done", "integrity"}
  BY <1>8
<1> HIDE DEF t
<1> QED
  BY <1>1, <1>2, <1>3, <1>9, <1>11, <1>12, <1>13, <1>14, <1>15, StepOfOne DEF CallInv, t

\* The same for the grants received.
LEMMA ListReceivedKeepsLocks ==
  ASSUME LockInv, NEW c \in Calls, ListReceived(c)
  PROVE  LockInv'
<1> DEFINE stale == Stale(c, ReceivedBy(c))
           kept  == ReceivedBy(c) \ stale
           After(order) == [txn[c] EXCEPT !.pc = "decide", !.received = kept, !.todo = order]
<1>1. /\ txn[c].pc = "received" /\ txn[c].pc \in Stages \ {"commit"} /\ txn[c].todo = <<>>
      /\ UNCHANGED held /\ UNCHANGED <<overdue, tables>>
  BY DEF ListReceived, Stages
<1>2. PICK order \in SetToSeqs(stale) : Continue(c, After(order))
  BY DEF ListReceived
<1> DEFINE t == After(order)
<1>3. /\ txn[c] \in Transactions(DOMAIN txn[c].seen, DOMAIN txn[c].wrote)
      /\ DOMAIN txn[c].seen \subseteq Members /\ DOMAIN txn[c].wrote \subseteq Ids
      /\ InStage(c) /\ HoldsLocks(c) /\ WritesEnds(c) /\ ReadsStand(c) /\ c \notin DOMAIN grants
      /\ txn'[c] = t
  BY <1>1, <1>2, UnderWay
<1>4. stale \in SUBSET DOMAIN grants /\ kept \in SUBSET DOMAIN grants /\ DOMAIN grants \subseteq Ids
  BY <1>1, ViewOfGrants DEF ReceivedBy, Stale, LockInv, TypeOK
<1>5. IsFiniteSet(stale)
  BY <1>4, FS_Subset DEF LockInv
<1>6. order \in Seq(Ids) /\ Range(order) \subseteq DOMAIN grants
  <2> HIDE DEF stale
  <2>1. order \in Seq(stale) /\ Range(order) = stale
    BY <1>5, OrderedSet
  <2> QED
    BY <1>4, <2>1
<1> HIDE DEF stale, kept
<1>7. t \in Transactions(DOMAIN txn[c].seen, DOMAIN txn[c].wrote)
  BY <1>3, <1>4, <1>6 DEF Transactions, Stages
<1>8. /\ t.pc = "decide" /\ t.replay = txn[c].replay /\ t.verdict = txn[c].verdict /\ t.wrote = txn[c].wrote
      /\ t.call = txn[c].call /\ t.of = txn[c].of /\ t.todo = order /\ t.sent = txn[c].sent
      /\ t.received = kept /\ t.seen = txn[c].seen /\ t.queue = txn[c].queue
      /\ t.drawn = txn[c].drawn
  BY <1>3 DEF Transactions
<1> HIDE DEF After
<1>9. TxnType(t)
  BY <1>3, <1>7, <1>8 DEF TxnType
<1>10. txn[c].call.op \in {"consume", "approve", "effective", "list"}
  BY <1>1, <1>3, UnderWay DEF InStage, StagesOf
<1>11. Active(c)' /\ InStage(c)'
  BY <1>1, <1>3, <1>8, <1>10 DEF InStage, Active, Ended, StagesOf
<1>12. HoldsLocks(c)'
  BY <1>1, <1>3, <1>8, <1>10 DEF HoldsLocks
<1>13. WritesEnds(c)'
  BY <1>1, <1>3, <1>8, <1>10 DEF WritesEnds, tables, SameGrant
<1>14. ReadsStand(c)'
  BY <1>1, <1>3, <1>4, <1>6, <1>8, <1>10 DEF ReadsStand, tables
<1>15. t.pc \notin {"done", "integrity"}
  BY <1>8
<1> HIDE DEF t
<1> QED
  BY <1>1, <1>2, <1>3, <1>9, <1>11, <1>12, <1>13, <1>14, <1>15, StepOfOne DEF CallInv, t

\* The next stale grant is ended, once its row is free.
LEMMA ExpireNextKeepsLocks ==
  ASSUME LockInv, NEW c \in Calls, txn[c].pc \in Stages, ExpireNext(c)
  PROVE  LockInv'
<1> DEFINE g     == Head(txn[c].todo)
           wrote == Overwritten(c, g, "EXPIRED", FALSE)
           t     == [txn[c] EXCEPT !.todo = Tail(@), !.wrote = wrote]
<1>1. /\ txn[c].todo # <<>>
      /\ Granted(c) /\ Continue(c, t) /\ UNCHANGED <<overdue, tables>>
  BY DEF ExpireNext
<1>2. /\ txn[c] \in Transactions(DOMAIN txn[c].seen, DOMAIN txn[c].wrote)
      /\ DOMAIN txn[c].seen \subseteq Members
      /\ InStage(c) /\ HoldsLocks(c) /\ WritesEnds(c) /\ ReadsStand(c) /\ c \notin DOMAIN grants
      /\ txn'[c] = t
  BY <1>1, UnderWay
<1>3. /\ txn[c].todo \in Seq(Ids) /\ Range(txn[c].todo) \subseteq DOMAIN grants
  BY <1>2 DEF Transactions, ReadsStand
<1>4. g \in DOMAIN grants /\ Tail(txn[c].todo) \in Seq(Ids) /\ Range(Tail(txn[c].todo)) \subseteq DOMAIN grants
  BY <1>1, <1>3, HeadAndTail
<1>5. /\ DOMAIN wrote = DOMAIN txn[c].wrote \cup {g}
      /\ DOMAIN wrote \subseteq Ids
      /\ wrote \in [DOMAIN wrote -> Grants]
      /\ SameGrant(grants[g], wrote[g]) /\ wrote[g].status # "ACTIVE"
      /\ \A h \in DOMAIN txn[c].wrote \ {g} : wrote[h] = txn[c].wrote[h]
      /\ g # c
  BY <1>4, EndedRow
<1> HIDE DEF wrote
<1>6. t \in Transactions(DOMAIN txn[c].seen, DOMAIN wrote)
  BY <1>2, <1>4, <1>5 DEF Transactions
<1>7. /\ t.pc = txn[c].pc /\ t.replay = txn[c].replay /\ t.verdict = txn[c].verdict /\ t.wrote = wrote
      /\ t.call = txn[c].call /\ t.of = txn[c].of /\ t.todo = Tail(txn[c].todo) /\ t.sent = txn[c].sent
      /\ t.received = txn[c].received /\ t.seen = txn[c].seen /\ t.queue = txn[c].queue
      /\ t.drawn = txn[c].drawn
  BY <1>2 DEF Transactions
<1> HIDE DEF t, g
<1>8. TxnType(t)
  BY <1>2, <1>5, <1>6, <1>7 DEF TxnType
<1>9. txn[c].pc \in {"received", "decide"}
  BY <1>1, <1>2 DEF InStage
<1>10. held[c] \subseteq held'[c] /\ <<"row", g>> \in held'[c]
  <2>1. Wanted(c) = {<<"row", g>>}
    BY <1>1 DEF Wanted, g
  <2> QED
    BY <1>1, <2>1, LocksStayApart DEF LockInv
<1>11. Active(c)' /\ InStage(c)'
  BY <1>2, <1>7, <1>9 DEF InStage, Active, Ended, StagesOf
<1>12. HoldsLocks(c)'
  BY <1>2, <1>5, <1>7, <1>9, <1>10 DEF HoldsLocks
<1>13. WritesEnds(c)'
  <2>1. txn[c].verdict = "none" /\ c \notin DOMAIN txn[c].wrote
    BY <1>2, <1>9 DEF WritesEnds
  <2> QED
    BY <1>1, <1>2, <1>4, <1>5, <1>7, <1>9, <2>1 DEF WritesEnds, tables, SameGrant
<1>14. ReadsStand(c)'
  BY <1>1, <1>2, <1>4, <1>7, <1>9 DEF ReadsStand, tables
<1>15. t.pc \notin {"done", "integrity"}
  BY <1>7, <1>9
<1> QED
  BY <1>1, <1>2, <1>8, <1>11, <1>12, <1>13, <1>14, <1>15, StepOfOne DEF CallInv

\* A read is over, and commits what it ended.
LEMMA FinishReadKeepsLocks ==
  ASSUME LockInv, NEW c \in Calls, FinishRead(c)
  PROVE  LockInv'
<1> DEFINE t == [txn[c] EXCEPT !.pc = "commit"]
<1>1. /\ txn[c].pc = "decide" /\ txn[c].pc \in Stages /\ txn[c].todo = <<>>
      /\ txn[c].call.op \in {"effective", "list"} \/ (txn[c].call.op = "consume" /\ txn[c].replay)
      /\ UNCHANGED held /\ Continue(c, t) /\ UNCHANGED <<overdue, tables>>
  <2>1. \/ Decided(c, "effective")
        \/ Decided(c, "list")
        \/ Decided(c, "consume") /\ txn[c].replay
    BY DEF FinishRead
  <2>2. UNCHANGED held /\ Continue(c, t) /\ UNCHANGED <<overdue, tables>>
    BY DEF FinishRead
  <2> QED
    BY <2>1, <2>2 DEF Decided, Stages
<1>2. /\ txn[c] \in Transactions(DOMAIN txn[c].seen, DOMAIN txn[c].wrote)
      /\ DOMAIN txn[c].seen \subseteq Members /\ DOMAIN txn[c].wrote \subseteq Ids
      /\ InStage(c) /\ HoldsLocks(c) /\ WritesEnds(c) /\ ReadsStand(c) /\ c \notin DOMAIN grants
      /\ txn'[c] = t
  BY <1>1, UnderWay
<1>3. t \in Transactions(DOMAIN txn[c].seen, DOMAIN txn[c].wrote)
  BY <1>2 DEF Transactions, Stages
<1>4. /\ t.pc = "commit" /\ t.replay = txn[c].replay /\ t.verdict = txn[c].verdict /\ t.wrote = txn[c].wrote
      /\ t.call = txn[c].call /\ t.of = txn[c].of /\ t.todo = txn[c].todo /\ t.sent = txn[c].sent
      /\ t.received = txn[c].received /\ t.seen = txn[c].seen /\ t.queue = txn[c].queue
      /\ t.drawn = txn[c].drawn
  BY <1>2 DEF Transactions
<1> HIDE DEF t
<1>5. TxnType(t)
  BY <1>2, <1>3, <1>4 DEF TxnType
<1>6. Active(c)' /\ InStage(c)'
  BY <1>1, <1>2, <1>4 DEF InStage, Active, Ended, StagesOf
<1>7. HoldsLocks(c)'
  BY <1>1, <1>2, <1>4 DEF HoldsLocks
<1>8. WritesEnds(c)'
  <2>1. txn[c].verdict = "none" /\ c \notin DOMAIN txn[c].wrote
    BY <1>1, <1>2 DEF WritesEnds
  <2> QED
    BY <1>1, <1>2, <1>4, <2>1 DEF WritesEnds, tables, SameGrant
<1>9. ReadsStand(c)'
  BY <1>1, <1>2, <1>4 DEF ReadsStand, tables
<1>10. t.pc \notin {"done", "integrity"}
  BY <1>4
<1> QED
  BY <1>1, <1>2, <1>5, <1>6, <1>7, <1>8, <1>9, <1>10, StepOfOne DEF CallInv

\* A grant is made for the request that is held, under the id that is the call's.
LEMMA ApproveKeepsLocks ==
  ASSUME LockInv, NEW c \in Calls, Approve(c)
  PROVE  LockInv'
<1> DEFINE wrote == With(c, NewGrant(c), txn[c].wrote)
           t     == [txn[c] EXCEPT !.pc = "commit", !.verdict = "APPROVED", !.wrote = With(c, NewGrant(c), @)]
<1>1. txn[c].pc = "decide" /\ txn[c].pc \in Stages /\ txn[c].todo = <<>> /\ txn[c].call.op = "approve"
  BY DEF Approve, Decided, Stages
<1>2. CASE Continue(c, t) /\ UNCHANGED held /\ UNCHANGED <<overdue, tables>>
  <2>1. /\ txn[c] \in Transactions(DOMAIN txn[c].seen, DOMAIN txn[c].wrote)
        /\ DOMAIN txn[c].seen \subseteq Members /\ DOMAIN txn[c].wrote \subseteq Ids
        /\ InStage(c) /\ HoldsLocks(c) /\ WritesEnds(c) /\ ReadsStand(c) /\ c \notin DOMAIN grants
        /\ txn'[c] = t
    BY <1>1, <1>2, UnderWay
  <2>2. txn[c].call.ref \in DOMAIN Terms /\ c \in Ids
    BY <1>1, <2>1, WorkloadAssumption DEF InStage, Ids
  <2>3. NewGrant(c) \in Grants
    BY <2>2, TermsAssumption DEF NewGrant, Grants
  <2>4. txn[c].wrote \in [DOMAIN txn[c].wrote -> Grants]
    BY <2>1 DEF Transactions
  <2>5. /\ DOMAIN wrote = DOMAIN txn[c].wrote \cup {c} /\ DOMAIN wrote \subseteq Ids
        /\ wrote \in [DOMAIN wrote -> Grants]
        /\ wrote[c] = NewGrant(c) /\ \A h \in DOMAIN txn[c].wrote \ {c} : wrote[h] = txn[c].wrote[h]
    <3>1. wrote \in [DOMAIN wrote -> Grants]
      BY <2>3, <2>4, WithType
    <3>2. /\ DOMAIN wrote = DOMAIN txn[c].wrote \cup {c}
          /\ wrote[c] = NewGrant(c) /\ \A h \in DOMAIN txn[c].wrote \ {c} : wrote[h] = txn[c].wrote[h]
      BY DEF With, Over
    <3> QED
      BY <2>1, <2>2, <3>1, <3>2
  <2>6. t = [txn[c] EXCEPT !.pc = "commit", !.verdict = "APPROVED", !.wrote = wrote]
    OBVIOUS
  <2> HIDE DEF wrote, t
  <2>7. t \in Transactions(DOMAIN txn[c].seen, DOMAIN wrote)
    BY <2>1, <2>5, <2>6 DEF Transactions, Stages
  <2>8. /\ t.pc = "commit" /\ t.replay = txn[c].replay /\ t.verdict = "APPROVED" /\ t.wrote = wrote
        /\ t.call = txn[c].call /\ t.of = txn[c].of /\ t.todo = txn[c].todo /\ t.sent = txn[c].sent
        /\ t.received = txn[c].received /\ t.seen = txn[c].seen /\ t.queue = txn[c].queue
        /\ t.drawn = txn[c].drawn
    BY <2>1, <2>6 DEF Transactions
  <2>9. TxnType(t)
    BY <2>1, <2>5, <2>7, <2>8 DEF TxnType
  <2>10. Active(c)' /\ InStage(c)'
    BY <1>1, <2>1, <2>8 DEF InStage, Active, Ended, StagesOf
  <2>11. HoldsLocks(c)'
    BY <1>1, <1>2, <2>1, <2>5, <2>8 DEF HoldsLocks
  <2>12. WritesEnds(c)'
    <3>1. txn[c].verdict = "none" /\ c \notin DOMAIN txn[c].wrote
      BY <1>1, <2>1 DEF WritesEnds
    <3>2. NewGrant(c)' = NewGrant(c)
      BY <2>1, <2>8 DEF NewGrant
    <3> QED
      BY <1>1, <1>2, <2>1, <2>5, <2>8, <3>1, <3>2 DEF WritesEnds, tables, SameGrant
  <2>13. ReadsStand(c)'
    BY <1>1, <1>2, <2>1, <2>8 DEF ReadsStand, tables
  <2>14. t.pc \notin {"done", "integrity"}
    BY <2>8
  <2> QED
    BY <1>1, <1>2, <2>1, <2>9, <2>10, <2>11, <2>12, <2>13, <2>14, StepOfOne DEF CallInv
<1>3. CASE Rollback(c, "refused")
  BY <1>1, <1>3, RollbackKeepsLocks DEF Ended
<1> QED
  BY <1>2, <1>3 DEF Approve

\* What a charge finds available is a number of units.
LEMMA OfTypeSummable ==
  ASSUME LockInv, NEW c \in Calls, txn[c].pc \in Stages \ {"commit"},
         NEW ids \in SUBSET DOMAIN grants, NEW type
  PROVE  Summable(OfType(c, ids, type)) /\ Total(OfType(c, ids, type)) \in Nat
<1> DEFINE rows == { h \in ids : View(c)[h].type = type }
           row  == [g \in rows |-> View(c)[g]]
<1>1. IsFiniteSet(rows)
  BY FS_Subset DEF LockInv
<1>2. \A g \in ids : View(c)[g].amount \in Nat
  BY ViewOfGrants DEF LockInv, TypeOK, Grants, SameGrant
<1>3. OfType(c, ids, type) = { row[g] : g \in rows }
  BY DEF OfType
<1>4. row \in Surjection(rows, OfType(c, ids, type))
  BY <1>3 DEF Surjection
<1>5. IsFiniteSet(OfType(c, ids, type))
  BY <1>1, <1>4, FS_Surjection
<1>6. \A r \in OfType(c, ids, type) : r.amount \in Nat
  BY <1>2 DEF OfType
<1> QED
  BY <1>5, <1>6, TotalType DEF Summable

\* So is what is available.
LEMMA AvailableType ==
  ASSUME LockInv, NEW c \in Calls, txn[c].pc = "decide", txn[c].of \in DOMAIN txn[c].seen
  PROVE  /\ Available(c) \in Nat
         /\ Available(c) > 0 =>
              Available(c) = Base[txn[c].of] - Total(OfType(c, txn[c].sent, "SOLID"))
                               + Total(OfType(c, txn[c].received, "SOLID")) - txn[c].seen[txn[c].of]
         /\ Total(OfType(c, txn[c].sent, "SOLID")) \in Nat
         /\ Total(OfType(c, txn[c].received, "SOLID")) \in Nat
         /\ Base[txn[c].of] \in Nat /\ txn[c].seen[txn[c].of] \in Nat
<1>1. txn[c].pc \in Stages \ {"commit"}
  BY DEF Stages
<1>2. /\ txn[c].sent \in SUBSET DOMAIN grants /\ txn[c].received \in SUBSET DOMAIN grants
      /\ txn[c].seen \in [DOMAIN txn[c].seen -> Nat] /\ DOMAIN txn[c].seen \subseteq Members
  BY <1>1, UnderWay DEF ReadsStand, Transactions
<1>3. /\ Total(OfType(c, txn[c].sent, "SOLID")) \in Nat
      /\ Total(OfType(c, txn[c].received, "SOLID")) \in Nat
  BY <1>1, <1>2, OfTypeSummable
<1>4. Base[txn[c].of] \in Nat /\ txn[c].seen[txn[c].of] \in Nat
  BY <1>2, PoolAssumption
<1> QED
  BY <1>3, <1>4 DEF Available, Clamp

\* Where a charge goes next, and what stays as it was.
LEMMA OnwardProperties ==
  ASSUME NEW c, NEW R, NEW W, NEW v \in Transactions(R, W),
         v.queue # <<>> => View(c)[Head(v.queue)].source \in Members,
         NEW u, u = Onward(c, v)
  PROVE  /\ u \in Transactions(R, W)
         /\ u.call = v.call /\ u.late = v.late /\ u.replay = v.replay /\ u.todo = v.todo
         /\ u.sent = v.sent /\ u.received = v.received /\ u.seen = v.seen
         /\ u.shortfall = v.shortfall /\ u.queue = v.queue /\ u.drawn = v.drawn
         /\ u.wrote = v.wrote /\ u.verdict = v.verdict
         /\ \/ v.shortfall = 0 /\ u.pc = "commit" /\ u.of = v.of
            \/ v.shortfall # 0 /\ v.queue = <<>> /\ u.pc = "refuse" /\ u.of = v.of
            \/ /\ v.shortfall # 0 /\ v.queue # <<>> /\ u.of = View(c)[Head(v.queue)].source
               /\ u.pc = IF u.of \in DOMAIN v.seen THEN "sent" ELSE "window"
<1>1. CASE v.shortfall = 0
  <2>1. u = [v EXCEPT !.pc = "commit"]
    BY <1>1 DEF Onward
  <2> QED
    BY <1>1, <2>1 DEF Transactions, Stages
<1>2. CASE v.shortfall # 0 /\ v.queue = <<>>
  <2>1. u = [v EXCEPT !.pc = "refuse"]
    BY <1>2 DEF Onward
  <2> QED
    BY <1>2, <2>1 DEF Transactions, Stages
<1>3. CASE v.shortfall # 0 /\ v.queue # <<>>
  <2> DEFINE source == View(c)[Head(v.queue)].source
             pc     == IF source \in DOMAIN v.seen THEN "sent" ELSE "window"
  <2>1. u = [v EXCEPT !.of = source, !.pc = pc]
    BY <1>3 DEF Onward
  <2>2. source \in Members /\ pc \in Stages
    BY <1>3 DEF Stages
  <2> HIDE DEF source, pc
  <2>3. /\ u \in Transactions(R, W) /\ u.of = source /\ u.pc = pc
        /\ u.call = v.call /\ u.late = v.late /\ u.replay = v.replay /\ u.todo = v.todo
        /\ u.sent = v.sent /\ u.received = v.received /\ u.seen = v.seen
        /\ u.shortfall = v.shortfall /\ u.queue = v.queue /\ u.drawn = v.drawn
        /\ u.wrote = v.wrote /\ u.verdict = v.verdict
    BY <2>1, <2>2 DEF Transactions
  <2> QED
    BY <1>3, <2>3 DEF source, pc
<1> QED
  BY <1>1, <1>2, <1>3

\* A charge that goes on keeps LockInv if what it goes on from is sound.
LEMMA ChargeGoesOn ==
  ASSUME LockInv, NEW c \in Calls, Decided(c, "consume"), ~txn[c].replay,
         NEW v \in Transactions(DOMAIN txn[c].seen, DOMAIN txn[c].wrote),
         v.call = txn[c].call, v.replay = txn[c].replay, v.of = txn[c].of, v.todo = txn[c].todo,
         v.sent = txn[c].sent, v.received = txn[c].received, v.wrote = txn[c].wrote,
         v.verdict = txn[c].verdict, Range(v.queue) \subseteq DOMAIN grants, IsFiniteSet(v.drawn),
         NEW u, u = Onward(c, v), Continue(c, u), UNCHANGED held, UNCHANGED <<overdue, tables>>
  PROVE  LockInv'
<1>1. /\ txn[c].pc = "decide" /\ txn[c].pc \in Stages \ {"commit"} /\ txn[c].todo = <<>>
      /\ txn[c].call.op = "consume"
  BY DEF Decided, Stages
<1>2. /\ txn[c] \in Transactions(DOMAIN txn[c].seen, DOMAIN txn[c].wrote)
      /\ DOMAIN txn[c].seen \subseteq Members /\ DOMAIN txn[c].wrote \subseteq Ids
      /\ InStage(c) /\ HoldsLocks(c) /\ WritesEnds(c) /\ ReadsStand(c) /\ c \notin DOMAIN grants
      /\ txn'[c] = u
  BY <1>1, UnderWay
<1>3. DOMAIN v.seen = DOMAIN txn[c].seen /\ v.queue \in Seq(Ids)
  BY DEF Transactions
<1>4. v.queue # <<>> => View(c)[Head(v.queue)].source \in Members
  <2> SUFFICES ASSUME v.queue # <<>> PROVE View(c)[Head(v.queue)].source \in Members
    OBVIOUS
  <2>1. Head(v.queue) \in DOMAIN grants
    BY <1>3, HeadAndTail
  <2>2. grants[Head(v.queue)] \in Grants /\ SameGrant(grants[Head(v.queue)], View(c)[Head(v.queue)])
    BY <1>1, <2>1, ViewOfGrants DEF LockInv, TypeOK
  <2> QED
    BY <2>2 DEF Grants, SameGrant
<1>5. /\ u \in Transactions(DOMAIN txn[c].seen, DOMAIN txn[c].wrote)
      /\ u.call = v.call /\ u.replay = v.replay /\ u.todo = v.todo
      /\ u.sent = v.sent /\ u.received = v.received /\ u.seen = v.seen
      /\ u.queue = v.queue /\ u.drawn = v.drawn
      /\ u.wrote = v.wrote /\ u.verdict = v.verdict
  BY <1>4, OnwardProperties
<1>6. \/ u.pc = "commit" /\ u.of = v.of
      \/ u.pc = "refuse" /\ u.of = v.of
      \/ /\ v.queue # <<>> /\ u.of \in Members
         /\ u.pc = IF u.of \in DOMAIN v.seen THEN "sent" ELSE "window"
  BY <1>4, OnwardProperties
<1>7. u.of \in Members /\ u.pc \in {"commit", "refuse", "sent", "window"}
  BY <1>2, <1>6 DEF InStage
<1>8. TxnType(u)
  BY <1>2, <1>3, <1>5 DEF TxnType
<1>9. Active(c)' /\ InStage(c)'
  BY <1>1, <1>2, <1>5, <1>7 DEF InStage, Active, Ended, StagesOf
<1>10. HoldsLocks(c)'
  BY <1>1, <1>2, <1>3, <1>5, <1>6 DEF HoldsLocks
<1>11. WritesEnds(c)'
  <2>1. txn[c].verdict = "none" /\ c \notin DOMAIN txn[c].wrote
    BY <1>1, <1>2 DEF WritesEnds
  <2> QED
    BY <1>1, <1>2, <1>5, <2>1 DEF WritesEnds, tables, SameGrant
<1>12. ReadsStand(c)'
  BY <1>1, <1>2, <1>5, <1>6 DEF ReadsStand, tables
<1>13. u.pc \notin {"done", "integrity"}
  BY <1>7
<1> QED
  BY <1>2, <1>8, <1>9, <1>10, <1>11, <1>12, <1>13, StepOfOne DEF CallInv

\* Charging one window more.
LEMMA ChargedProperties ==
  ASSUME NEW R, NEW W, NEW v \in Transactions(R, W), v.of \in R, NEW n \in 0..v.shortfall,
         NEW u, u = Charged(v, n)
  PROVE  /\ u \in Transactions(R, W)
         /\ u.pc = v.pc /\ u.call = v.call /\ u.late = v.late /\ u.replay = v.replay /\ u.of = v.of
         /\ u.todo = v.todo /\ u.sent = v.sent /\ u.received = v.received /\ u.queue = v.queue
         /\ u.drawn = v.drawn /\ u.wrote = v.wrote /\ u.verdict = v.verdict
         /\ u.shortfall = v.shortfall - n
         /\ u.seen[v.of] = v.seen[v.of] + n
         /\ \A m \in R \ {v.of} : u.seen[m] = v.seen[m]
<1> DEFINE seen == With(v.of, v.seen[v.of] + n, v.seen)
<1>1. v.seen \in [R -> Nat] /\ v.shortfall \in Nat
  BY DEF Transactions
<1>2. /\ seen \in [R -> Nat] /\ seen[v.of] = v.seen[v.of] + n
      /\ \A m \in R \ {v.of} : seen[m] = v.seen[m]
  BY <1>1 DEF With, Over
<1>3. u = [v EXCEPT !.seen = seen, !.shortfall = v.shortfall - n]
  BY DEF Charged
<1> HIDE DEF seen
<1>4. v.shortfall - n \in Nat
  BY <1>1
<1>5. u \in Transactions(R, W)
  BY <1>2, <1>3, <1>4 DEF Transactions
<1>6. /\ u.pc = v.pc /\ u.call = v.call /\ u.late = v.late /\ u.replay = v.replay /\ u.of = v.of
      /\ u.todo = v.todo /\ u.sent = v.sent /\ u.received = v.received /\ u.queue = v.queue
      /\ u.drawn = v.drawn /\ u.wrote = v.wrote /\ u.verdict = v.verdict
      /\ u.shortfall = v.shortfall - n /\ u.seen = seen
  BY <1>3 DEF Transactions
<1> QED
  BY <1>2, <1>5, <1>6

\* v is the charge of c with `own` of its own units taken, before it goes on.
Took(c, own, v) ==
  /\ v \in Transactions(DOMAIN txn[c].seen, DOMAIN txn[c].wrote)
  /\ own =< Available(c)
  /\ v.call = txn[c].call /\ v.replay = txn[c].replay /\ v.of = txn[c].of
  /\ v.todo = txn[c].todo /\ v.sent = txn[c].sent /\ v.received = txn[c].received
  /\ v.wrote = txn[c].wrote /\ v.verdict = txn[c].verdict /\ v.drawn = txn[c].drawn
  /\ v.shortfall = txn[c].call.amount - own
  /\ v.seen[txn[c].of] = txn[c].seen[txn[c].of] + own
  /\ \A m \in DOMAIN txn[c].seen \ {txn[c].of} : v.seen[m] = txn[c].seen[m]
  /\ Range(v.queue) = { g \in txn[c].received : View(c)[g].type = "SHARED" }
  /\ \A i, j \in 1..Len(v.queue) : v.queue[i] = v.queue[j] => i = j

\* v is the charge of c with `draw` units drawn on the first grant of its queue,
\* before it goes on.
Drew(c, draw, v) ==
  LET g == Head(txn[c].queue) IN
  /\ v \in Transactions(DOMAIN txn[c].seen, DOMAIN txn[c].wrote)
  /\ draw > 0 => /\ draw =< Available(c)
                 /\ draw + Total({ s \in shared : s.grant = g }) =< grants[g].amount
  /\ v.call = txn[c].call /\ v.replay = txn[c].replay /\ v.of = txn[c].of
  /\ v.todo = txn[c].todo /\ v.sent = txn[c].sent /\ v.received = txn[c].received
  /\ v.wrote = txn[c].wrote /\ v.verdict = txn[c].verdict
  /\ v.shortfall = txn[c].shortfall - draw
  /\ v.seen[txn[c].of] = txn[c].seen[txn[c].of] + draw
  /\ \A m \in DOMAIN txn[c].seen \ {txn[c].of} : v.seen[m] = txn[c].seen[m]
  /\ v.queue = Tail(txn[c].queue)
  /\ v.drawn = IF draw = 0 THEN txn[c].drawn
               ELSE txn[c].drawn \cup {[key |-> txn[c].call.key, grant |-> g, amount |-> draw]}

\* The units a charge takes of its own, and where it goes on from.
LEMMA TakeOwnStep ==
  ASSUME LockInv, NEW c \in Calls, TakeOwn(c)
  PROVE  /\ UNCHANGED held /\ UNCHANGED <<overdue, tables>>
         /\ \E own \in 0..txn[c].call.amount : \E v : Took(c, own, v) /\ Continue(c, Onward(c, v))
<1> DEFINE t   == [txn[c] EXCEPT !.shortfall = txn[c].call.amount]
           own == Least(txn[c].call.amount, Available(c))
           lent == { g \in txn[c].received : View(c)[g].type = "SHARED" }
           v(queue) == [Charged(t, own) EXCEPT !.queue = queue]
<1>1. /\ txn[c].pc = "decide" /\ txn[c].pc \in Stages \ {"commit"} /\ txn[c].todo = <<>>
      /\ txn[c].call.op = "consume" /\ ~txn[c].replay
      /\ UNCHANGED held /\ UNCHANGED <<overdue, tables>>
  BY DEF TakeOwn, Decided, Stages
<1>2. /\ txn[c] \in Transactions(DOMAIN txn[c].seen, DOMAIN txn[c].wrote)
      /\ InStage(c) /\ HoldsLocks(c) /\ ReadsStand(c)
  BY <1>1, UnderWay
<1>3. txn[c].of \in DOMAIN txn[c].seen
  BY <1>1, <1>2 DEF HoldsLocks
<1>4. txn[c].call.amount \in Nat
  BY <1>1, <1>2, WorkloadAssumption DEF InStage
<1>5. own \in 0..txn[c].call.amount /\ own =< Available(c)
  BY <1>1, <1>3, <1>4, AvailableType DEF Least
<1>6. /\ t \in Transactions(DOMAIN txn[c].seen, DOMAIN txn[c].wrote)
      /\ t.pc = txn[c].pc /\ t.replay = txn[c].replay /\ t.verdict = txn[c].verdict
      /\ t.wrote = txn[c].wrote /\ t.call = txn[c].call /\ t.of = txn[c].of
      /\ t.todo = txn[c].todo /\ t.sent = txn[c].sent /\ t.received = txn[c].received
      /\ t.seen = txn[c].seen /\ t.queue = txn[c].queue /\ t.drawn = txn[c].drawn
      /\ t.shortfall = txn[c].call.amount
  BY <1>2, <1>4 DEF Transactions
<1>7. PICK queue \in SetToSeqs(lent) : Continue(c, Onward(c, v(queue)))
  BY <1>6 DEF TakeOwn
<1> DEFINE w == v(queue)
           charged == Charged(t, own)
<1> HIDE DEF own, t
<1>8. /\ charged \in Transactions(DOMAIN txn[c].seen, DOMAIN txn[c].wrote)
      /\ charged.call = txn[c].call /\ charged.replay = txn[c].replay /\ charged.of = txn[c].of
      /\ charged.todo = txn[c].todo /\ charged.sent = txn[c].sent /\ charged.received = txn[c].received
      /\ charged.wrote = txn[c].wrote /\ charged.verdict = txn[c].verdict /\ charged.drawn = txn[c].drawn
      /\ charged.shortfall = txn[c].call.amount - own
      /\ charged.seen[txn[c].of] = txn[c].seen[txn[c].of] + own
      /\ \A m \in DOMAIN txn[c].seen \ {txn[c].of} : charged.seen[m] = txn[c].seen[m]
  BY <1>3, <1>5, <1>6, ChargedProperties
<1>9. /\ queue \in Seq(Ids) /\ Range(queue) = lent
      /\ \A i, j \in 1..Len(queue) : queue[i] = queue[j] => i = j
  <2>1. lent \in SUBSET txn[c].received /\ txn[c].received \subseteq DOMAIN grants /\ DOMAIN grants \subseteq Ids
    BY <1>2 DEF ReadsStand, LockInv, TypeOK
  <2>2. IsFiniteSet(lent)
    BY <2>1, FS_Subset DEF LockInv
  <2> HIDE DEF lent
  <2>3. /\ queue \in Seq(lent) /\ Range(queue) = lent
        /\ \A i, j \in 1..Len(queue) : queue[i] = queue[j] => i = j
    BY <2>2, OrderedSet
  <2> QED
    BY <2>1, <2>3
<1>10. w = [charged EXCEPT !.queue = queue]
  OBVIOUS
<1> HIDE DEF charged, w
<1>11. /\ w \in Transactions(DOMAIN txn[c].seen, DOMAIN txn[c].wrote)
       /\ w.call = charged.call /\ w.replay = charged.replay /\ w.of = charged.of
       /\ w.todo = charged.todo /\ w.sent = charged.sent /\ w.received = charged.received
       /\ w.wrote = charged.wrote /\ w.verdict = charged.verdict /\ w.drawn = charged.drawn
       /\ w.shortfall = charged.shortfall /\ w.seen = charged.seen /\ w.queue = queue
  BY <1>8, <1>9, <1>10 DEF Transactions
<1>12. Continue(c, Onward(c, w))
  BY <1>7 DEF w
<1>13. Took(c, own, w)
  BY <1>5, <1>8, <1>9, <1>11 DEF Took
<1> QED
  BY <1>1, <1>5, <1>12, <1>13

\* A draw is within all three of its limits.
LEMMA DrawWithinLimits ==
  ASSUME NEW left \in Int, NEW available \in Nat, NEW open \in Nat,
         NEW draw, draw = Clamp(Least(left, Least(available, open)))
  PROVE  draw \in 0..open /\ (draw > 0 => draw =< available /\ draw =< left)
BY DEF Clamp, Least

\* What a charge draws on the first grant of its queue, and where it goes on from.
LEMMA DrawStep ==
  ASSUME LockInv, NEW c \in Calls, Draw(c)
  PROVE  /\ txn[c].queue # <<>> /\ UNCHANGED held /\ UNCHANGED <<overdue, tables>>
         /\ \E draw \in 0..txn[c].shortfall : \E v : Drew(c, draw, v) /\ Continue(c, Onward(c, v))
<1> DEFINE t    == txn[c]
           g    == Head(t.queue)
           draw == Clamp(DrawLimit(c, g))
           row  == [key |-> t.call.key, grant |-> g, amount |-> draw]
           taken == Charged(t, draw)
           drawn == IF draw = 0 THEN t.drawn ELSE t.drawn \cup {row}
           v    == [Charged(t, draw) EXCEPT !.queue = Tail(@), !.drawn = IF draw = 0 THEN @ ELSE @ \cup {row}]
<1>1. /\ t.pc = "decide" /\ t.pc \in Stages \ {"commit"} /\ t.todo = <<>>
      /\ t.call.op = "consume" /\ ~t.replay /\ t.of # t.call.member
      /\ UNCHANGED held /\ UNCHANGED <<overdue, tables>>
      /\ Continue(c, Onward(c, v))
  BY DEF Draw, Decided, Stages
<1>2. /\ t \in Transactions(DOMAIN t.seen, DOMAIN t.wrote)
      /\ InStage(c) /\ HoldsLocks(c) /\ ReadsStand(c)
  BY <1>1, UnderWay
<1>3. t.of \in DOMAIN t.seen /\ t.queue # <<>>
  BY <1>1, <1>2 DEF HoldsLocks, ReadsStand
<1>4. t.queue \in Seq(Ids) /\ Range(t.queue) \subseteq DOMAIN grants /\ t.shortfall \in Nat
      /\ t.drawn \in SUBSET Shares
  BY <1>2 DEF Transactions, ReadsStand
<1>5. g \in DOMAIN grants /\ g \in Ids /\ Tail(t.queue) \in Seq(Ids)
  BY <1>3, <1>4, HeadAndTail
<1>6. View(c)[g].amount = grants[g].amount /\ grants[g].amount \in Nat
  BY <1>1, <1>5, ViewOfGrants, SMTT(20) DEF SameGrant, LockInv, TypeOK, Grants
<1>7. Total({ s \in shared : s.grant = g }) \in Nat
  <2>1. Summable(shared)
    BY DEF Summable, LockInv, TypeOK, Shares
  <2> QED
    BY <2>1, TotalSubset, TotalType
<1>8. Available(c) \in Nat
  BY <1>1, <1>3, AvailableType
<1>9. /\ draw \in 0..t.shortfall
      /\ draw > 0 => draw =< Available(c) /\ draw + Total({ s \in shared : s.grant = g }) =< grants[g].amount
  <2> DEFINE left == View(c)[g].amount - Total({ s \in shared : s.grant = g })
  <2>1. draw = Clamp(Least(left, Least(Available(c), t.shortfall)))
    BY DEF DrawLimit
  <2>2. left \in Int
    BY <1>6, <1>7
  <2> HIDE DEF draw, left
  <2>3. draw \in 0..t.shortfall /\ (draw > 0 => draw =< Available(c) /\ draw =< left)
    BY <1>4, <1>8, <2>1, <2>2, DrawWithinLimits
  <2>4. draw > 0 => draw =< grants[g].amount - Total({ s \in shared : s.grant = g })
    BY <1>6, <2>3 DEF left
  <2> QED
    BY <1>4, <1>6, <1>7, <2>3, <2>4
<1>10. v = [taken EXCEPT !.queue = Tail(taken.queue), !.drawn = IF draw = 0 THEN taken.drawn ELSE taken.drawn \cup {row}]
  OBVIOUS
<1> HIDE DEF draw, taken, v
<1>11. /\ taken \in Transactions(DOMAIN t.seen, DOMAIN t.wrote)
       /\ taken.call = t.call /\ taken.replay = t.replay /\ taken.of = t.of
       /\ taken.todo = t.todo /\ taken.sent = t.sent /\ taken.received = t.received
       /\ taken.queue = t.queue /\ taken.wrote = t.wrote /\ taken.verdict = t.verdict /\ taken.drawn = t.drawn
       /\ taken.shortfall = t.shortfall - draw
       /\ taken.seen[t.of] = t.seen[t.of] + draw
       /\ \A m \in DOMAIN t.seen \ {t.of} : taken.seen[m] = t.seen[m]
  BY <1>2, <1>3, <1>9, ChargedProperties DEF taken
<1>12. v = [taken EXCEPT !.queue = Tail(t.queue), !.drawn = drawn]
  BY <1>10, <1>11
<1>13. drawn \in SUBSET Shares
  <2>1. t.call.key \in Keys
    BY <1>1, <1>2 DEF InStage, Keys
  <2>2. draw \in Nat
    BY <1>4, <1>9
  <2> QED
    BY <1>4, <1>5, <2>1, <2>2 DEF Shares
<1> HIDE DEF drawn
<1>14. /\ v \in Transactions(DOMAIN t.seen, DOMAIN t.wrote)
       /\ v.call = taken.call /\ v.replay = taken.replay /\ v.of = taken.of
       /\ v.todo = taken.todo /\ v.sent = taken.sent /\ v.received = taken.received
       /\ v.wrote = taken.wrote /\ v.verdict = taken.verdict /\ v.drawn = drawn
       /\ v.shortfall = taken.shortfall /\ v.seen = taken.seen /\ v.queue = Tail(t.queue)
  BY <1>5, <1>11, <1>12, <1>13 DEF Transactions
<1>15. v.drawn = IF draw = 0 THEN t.drawn ELSE t.drawn \cup {row}
  BY <1>14 DEF drawn
<1>16. /\ v.call = t.call /\ v.replay = t.replay /\ v.of = t.of
       /\ v.todo = t.todo /\ v.sent = t.sent /\ v.received = t.received
       /\ v.wrote = t.wrote /\ v.verdict = t.verdict
       /\ v.shortfall = t.shortfall - draw
       /\ v.seen[t.of] = t.seen[t.of] + draw
       /\ \A m \in DOMAIN t.seen \ {t.of} : v.seen[m] = t.seen[m]
  BY <1>11, <1>14
<1>17. Drew(c, draw, v)
  BY <1>9, <1>14, <1>15, <1>16 DEF Drew, row
<1> QED
  BY <1>1, <1>3, <1>9, <1>17

\* Taking one's own units, and drawing on a grant, keep LockInv.
LEMMA ChargeKeepsLocks ==
  ASSUME LockInv, NEW c \in Calls, TakeOwn(c) \/ Draw(c)
  PROVE  LockInv'
<1>1. Decided(c, "consume") /\ ~txn[c].replay
  BY DEF TakeOwn, Draw
<1>2. txn[c].pc \in Stages
  BY <1>1 DEF Decided, Stages
<1>3. /\ InStage(c) /\ ReadsStand(c)
      /\ txn[c] \in Transactions(DOMAIN txn[c].seen, DOMAIN txn[c].wrote)
  BY <1>2, UnderWay
<1>4. CASE TakeOwn(c)
  <2>1. PICK own \in 0..txn[c].call.amount : \E v : Took(c, own, v) /\ Continue(c, Onward(c, v))
    BY <1>4, TakeOwnStep
  <2>2. PICK v : Took(c, own, v) /\ Continue(c, Onward(c, v))
    BY <2>1
  <2>3. UNCHANGED held /\ UNCHANGED <<overdue, tables>>
    BY <1>4, TakeOwnStep
  <2>4. Range(v.queue) \subseteq DOMAIN grants /\ IsFiniteSet(v.drawn)
    BY <1>3, <2>2 DEF ReadsStand, InStage, Took
  <2> QED
    BY <1>1, <2>2, <2>3, <2>4, ChargeGoesOn DEF Took
<1>5. CASE Draw(c)
  <2>1. PICK draw \in 0..txn[c].shortfall : \E v : Drew(c, draw, v) /\ Continue(c, Onward(c, v))
    BY <1>5, DrawStep
  <2>2. PICK v : Drew(c, draw, v) /\ Continue(c, Onward(c, v))
    BY <2>1
  <2>3. Range(v.queue) \subseteq DOMAIN grants
    <3>1. txn[c].queue \in Seq(Ids) /\ Range(txn[c].queue) \subseteq DOMAIN grants
      BY <1>3 DEF Transactions, ReadsStand
    <3>2. txn[c].queue # <<>>
      BY <1>5, DrawStep
    <3>3. Range(Tail(txn[c].queue)) \subseteq Range(txn[c].queue)
      BY <3>1, <3>2, HeadAndTail
    <3> QED
      BY <2>2, <3>1, <3>3 DEF Drew
  <2>4. IsFiniteSet(v.drawn)
    <3>1. IsFiniteSet(txn[c].drawn)
      BY <1>3 DEF InStage
    <3>2. CASE draw = 0
      BY <2>2, <3>1, <3>2 DEF Drew
    <3>3. CASE draw # 0
      BY <2>2, <3>1, <3>3, FS_AddElement, ZenonT(40) DEF Drew
    <3> QED
      BY <3>2, <3>3
  <2>5. UNCHANGED held /\ UNCHANGED <<overdue, tables>>
    BY <1>5, DrawStep
  <2> QED
    BY <1>1, <2>2, <2>3, <2>4, <2>5, ChargeGoesOn DEF Drew
<1> QED
  BY <1>4, <1>5

-----------------------------------------------------------------------------
(* Commit.                                                                 *)

\* The grants table a transaction commits: the same grants, some of them ended,
\* and the one it approves.
LEMMA CommittedView ==
  ASSUME LockInv, NEW c \in Calls, txn[c].pc = "commit"
  PROVE  /\ DOMAIN View(c) = DOMAIN grants \cup (IF txn[c].verdict = "APPROVED" THEN {c} ELSE {})
         /\ \A g \in DOMAIN grants :
              /\ SameGrant(grants[g], View(c)[g])
              /\ View(c)[g].status = "ACTIVE" => g \notin DOMAIN txn[c].wrote /\ View(c)[g] = grants[g]
         /\ txn[c].verdict = "APPROVED" => View(c)[c] = NewGrant(c)
         /\ View(c) \in [DOMAIN View(c) -> Grants] /\ DOMAIN View(c) \subseteq Ids
         /\ WellFormed(View(c)) /\ IsFiniteSet(DOMAIN View(c))
<1>1. /\ InStage(c) /\ WritesEnds(c) /\ c \notin DOMAIN grants /\ DOMAIN txn[c].wrote \subseteq Ids
      /\ txn[c] \in Transactions(DOMAIN txn[c].seen, DOMAIN txn[c].wrote)
  BY UnderWay DEF Stages
<1>2. /\ \A g \in DOMAIN txn[c].wrote \ {c} :
           /\ g \in DOMAIN grants /\ SameGrant(grants[g], txn[c].wrote[g])
           /\ txn[c].wrote[g].status # "ACTIVE"
      /\ c \in DOMAIN txn[c].wrote <=> txn[c].verdict = "APPROVED"
      /\ txn[c].verdict = "APPROVED" => txn[c].wrote[c] = NewGrant(c) /\ txn[c].call.op = "approve"
  BY <1>1 DEF WritesEnds
<1>3. /\ grants \in [DOMAIN grants -> Grants] /\ DOMAIN grants \subseteq Ids /\ WellFormed(grants)
      /\ txn[c].wrote \in [DOMAIN txn[c].wrote -> Grants] /\ IsFiniteSet(DOMAIN grants)
  BY <1>1 DEF LockInv, TypeOK, Transactions
<1>4. DOMAIN View(c) = DOMAIN grants \cup (IF txn[c].verdict = "APPROVED" THEN {c} ELSE {})
  BY <1>2 DEF View, Over
<1>5. ASSUME NEW g \in DOMAIN grants
      PROVE  /\ SameGrant(grants[g], View(c)[g])
             /\ View(c)[g].status = "ACTIVE" => g \notin DOMAIN txn[c].wrote /\ View(c)[g] = grants[g]
  <2>1. CASE g \in DOMAIN txn[c].wrote
    BY <1>1, <1>2, <2>1 DEF View, Over
  <2>2. CASE g \notin DOMAIN txn[c].wrote
    BY <2>2 DEF View, Over, SameGrant
  <2> QED
    BY <2>1, <2>2
<1>6. txn[c].verdict = "APPROVED" => View(c)[c] = NewGrant(c)
  BY <1>2 DEF View, Over
<1>7. View(c) \in [DOMAIN View(c) -> Grants] /\ DOMAIN View(c) \subseteq Ids
  BY <1>1, <1>3 DEF View, Over
<1>8. ASSUME NEW g \in DOMAIN View(c)
      PROVE  /\ View(c)[g].id = g /\ View(c)[g].source # View(c)[g].recipient
             /\ View(c)[g].status = "ACTIVE" => ~View(c)[g].revoked
  <2>1. CASE g \in DOMAIN grants
    BY <1>3, <1>5, <2>1 DEF WellFormed, SameGrant
  <2>2. CASE g \notin DOMAIN grants
    <3>1. g = c /\ txn[c].verdict = "APPROVED"
      BY <1>4, <2>2
    <3>2. txn[c].call.ref \in DOMAIN Terms
      BY <1>1, <1>2, <3>1, WorkloadAssumption DEF InStage
    <3> QED
      BY <1>6, <3>1, <3>2, TermsAssumption DEF NewGrant
  <2> QED
    BY <2>1, <2>2
<1>9. IsFiniteSet(DOMAIN View(c))
  <2>1. IsFiniteSet(DOMAIN grants \cup {c})
    BY <1>3, FS_AddElement
  <2>2. DOMAIN View(c) \in SUBSET (DOMAIN grants \cup {c})
    BY <1>4
  <2> QED
    BY <2>1, <2>2, FS_Subset
<1>10. WellFormed(View(c))
  BY <1>8 DEF WellFormed
<1> QED
  BY <1>4, <1>5, <1>6, <1>7, <1>9, <1>10

\* A report that is committed was never committed before.
LEMMA ReportIsNew ==
  ASSUME LockInv, NEW c \in Calls, txn[c].pc = "commit", Charges(c)
  PROVE  \A r \in records : r.key # txn[c].call.key
<1>1. ReadsStand(c)
  BY UnderWay DEF Stages
<1> QED
  BY <1>1 DEF ReadsStand, Charges

\* Of the tables but the grants a commit changes only what its locks are for.
LEMMA CommitEffects ==
  ASSUME LockInv, NEW c \in Calls, Commit(c)
  PROVE  /\ txn[c].pc = "commit" /\ grants' = View(c) /\ End(c, "done") /\ UNCHANGED overdue
         /\ usage' \in [Members -> Nat] /\ records' \in SUBSET Records /\ shared' \in SUBSET Shares
         /\ IsFiniteSet(records') /\ IsFiniteSet(shared')
         /\ \A r \in records' \ records : Charges(c) /\ r.key = txn[c].call.key
         /\ requests' = IF txn[c].verdict = "none" THEN requests
                        ELSE [requests EXCEPT ![txn[c].call.ref] = txn[c].verdict]
<1>1. txn[c].pc = "commit"
  BY DEF Commit
<1>2. /\ InStage(c) /\ WritesEnds(c) /\ DOMAIN txn[c].seen \subseteq Members
      /\ txn[c] \in Transactions(DOMAIN txn[c].seen, DOMAIN txn[c].wrote)
  BY <1>1, UnderWay DEF Stages
<1>3. /\ usage \in [Members -> Nat] /\ records \in SUBSET Records /\ shared \in SUBSET Shares
      /\ IsFiniteSet(records) /\ IsFiniteSet(shared)
  BY DEF LockInv, TypeOK
<1>4. CASE Charges(c)
  <2> DEFINE row == [key |-> txn[c].call.key, member |-> txn[c].call.member, amount |-> txn[c].call.amount]
  <2>1. /\ usage' = Over(txn[c].seen, usage) /\ records' = records \cup {row}
        /\ shared' = shared \cup txn[c].drawn /\ grants' = View(c) /\ End(c, "done")
        /\ UNCHANGED <<overdue, requests>>
    BY <1>1, <1>4, ReportIsNew DEF Commit
  <2>2. row \in Records
    BY <1>2, <1>4, WorkloadAssumption DEF InStage, Charges, Records, Keys
  <2>3. txn[c].drawn \in SUBSET Shares /\ txn[c].seen \in [DOMAIN txn[c].seen -> Nat]
    BY <1>2 DEF Transactions
  <2>4. usage' \in [Members -> Nat]
    BY <1>2, <1>3, <2>1, <2>3 DEF Over
  <2>5. IsFiniteSet(records') /\ IsFiniteSet(shared')
    <3>1. IsFiniteSet(txn[c].drawn)
      BY <1>2 DEF InStage
    <3>2. IsFiniteSet(records \cup {row})
      BY <1>3, FS_AddElement
    <3>3. IsFiniteSet(shared \cup txn[c].drawn)
      BY <1>3, <3>1, FS_Union
    <3> QED
      BY <2>1, <3>2, <3>3
  <2>6. txn[c].verdict = "none"
    BY <1>2, <1>4 DEF WritesEnds, Charges
  <2>7. \A r \in records' \ records : r.key = txn[c].call.key
    BY <2>1
  <2> QED
    BY <1>1, <1>3, <1>4, <2>1, <2>2, <2>3, <2>4, <2>5, <2>6, <2>7
<1>5. CASE ~Charges(c)
  BY <1>1, <1>3, <1>5 DEF Commit
<1> QED
  BY <1>4, <1>5

\* A request is decided at most once, and an approval makes one grant.
LEMMA CommitDecides ==
  ASSUME LockInv, NEW c \in Calls, Commit(c)
  PROVE  /\ requests' \in [DOMAIN Terms -> {"PENDING", "APPROVED", "REJECTED"}]
         /\ \A r \in DOMAIN Terms : requests'[r] # requests[r] =>
              /\ requests[r] = "PENDING" /\ r = txn[c].call.ref /\ txn[c].call.op \in {"approve", "reject"}
         /\ OneGrantPerApproval'
<1> DEFINE ref      == txn[c].call.ref
           approved == { r \in DOMAIN requests : requests[r] = "APPROVED" }
           made     == DOMAIN grants \cap Calls
<1>1. /\ txn[c].pc = "commit" /\ grants' = View(c)
      /\ requests' = IF txn[c].verdict = "none" THEN requests ELSE [requests EXCEPT ![ref] = txn[c].verdict]
  BY CommitEffects
<1>2. InStage(c) /\ WritesEnds(c) /\ ReadsStand(c) /\ c \notin DOMAIN grants
  BY <1>1, UnderWay DEF Stages
<1>3. DOMAIN grants' = DOMAIN grants \cup (IF txn[c].verdict = "APPROVED" THEN {c} ELSE {})
  BY <1>1, CommittedView
<1>4. requests \in [DOMAIN Terms -> {"PENDING", "APPROVED", "REJECTED"}]
  BY DEF LockInv, TypeOK
<1>5. /\ txn[c].verdict \in {"none", "APPROVED", "REJECTED"}
      /\ txn[c].verdict # "none" => txn[c].call.op \in {"approve", "reject"} /\ requests[ref] = "PENDING"
                                    /\ ref \in DOMAIN Terms
  BY <1>1, <1>2, WorkloadAssumption DEF WritesEnds, ReadsStand, InStage
<1>6. IsFiniteSet(approved) /\ IsFiniteSet(made) /\ Cardinality(approved) = Cardinality(made)
  <2>1. approved \in SUBSET DOMAIN Terms /\ made \in SUBSET DOMAIN grants
    BY <1>4
  <2>2. IsFiniteSet(DOMAIN Terms) /\ IsFiniteSet(DOMAIN grants)
    BY TermsAssumption DEF LockInv
  <2>3. IsFiniteSet(approved) /\ IsFiniteSet(made)
    BY <2>1, <2>2, FS_Subset
  <2> QED
    BY <2>3 DEF LockInv, OneGrantPerApproval
<1>7. CASE txn[c].verdict = "APPROVED"
  <2>1. { r \in DOMAIN requests' : requests'[r] = "APPROVED" } = approved \cup {ref} /\ ref \notin approved
    BY <1>1, <1>4, <1>5, <1>7
  <2>2. DOMAIN grants' \cap Calls = made \cup {c} /\ c \notin made
    BY <1>2, <1>3, <1>7
  <2> HIDE DEF approved, made
  <2>3. Cardinality(approved \cup {ref}) = Cardinality(made \cup {c})
    <3>1. Cardinality(approved \cup {ref}) = Cardinality(approved) + 1
      BY <1>6, <2>1, FS_AddElement
    <3>2. Cardinality(made \cup {c}) = Cardinality(made) + 1
      BY <1>6, <2>2, FS_AddElement
    <3> QED
      BY <1>6, <3>1, <3>2
  <2>4. OneGrantPerApproval'
    BY <2>1, <2>2, <2>3 DEF OneGrantPerApproval
  <2> QED
    BY <1>1, <1>4, <1>5, <1>7, <2>4
<1>8. CASE txn[c].verdict # "APPROVED"
  <2>1. { r \in DOMAIN requests' : requests'[r] = "APPROVED" } = approved
    BY <1>1, <1>4, <1>5, <1>8
  <2>2. DOMAIN grants' \cap Calls = made
    BY <1>3, <1>8
  <2>3. OneGrantPerApproval'
    BY <1>6, <2>1, <2>2 DEF OneGrantPerApproval
  <2> QED
    BY <1>1, <1>4, <1>5, <1>8, <2>3
<1> QED
  BY <1>7, <1>8

\* What another call has read, and holds the locks for, is not changed by a commit.
LEMMA CommitStandsClear ==
  ASSUME LockInv, NEW c \in Calls, Commit(c), NEW d \in Calls \ {c}
  PROVE  CallInv(d)'
<1>1. /\ txn[c].pc = "commit" /\ grants' = View(c) /\ End(c, "done")
      /\ \A r \in records' \ records : Charges(c) /\ r.key = txn[c].call.key
  BY CommitEffects
<1>2. txn'[d] = txn[d] /\ held'[d] = held[d]
  BY <1>1 DEF End, LockInv, TypeOK
<1>3. InStage(c) /\ HoldsLocks(c)
  BY <1>1, UnderWay DEF Stages
<1>4. DOMAIN grants \subseteq DOMAIN grants' /\ \A g \in DOMAIN grants : SameGrant(grants[g], grants'[g])
  BY <1>1, CommittedView
<1>5. CASE ~Active(d)
  <2>1. AtRest(d)
    BY <1>5 DEF LockInv
  <2> QED
    BY <1>2, <1>5, <2>1 DEF CallInv, Active, AtRest
<1>6. CASE Active(d)
  <2>1. InStage(d) /\ HoldsLocks(d) /\ WritesEnds(d) /\ ReadsStand(d)
    BY <1>6 DEF LockInv
  <2>2. Active(d)' /\ InStage(d)' /\ HoldsLocks(d)'
    BY <1>2, <1>6, <2>1 DEF Active, InStage, HoldsLocks
  <2>3. WritesEnds(d)'
    <3>1. NewGrant(d)' = NewGrant(d)
      BY <1>2 DEF NewGrant
    <3> QED
      BY <1>2, <1>4, <2>1, <3>1 DEF WritesEnds, SameGrant
  <2>4. ASSUME txn[d].call.op \in {"approve", "reject"}, txn[d].pc # "request"
        PROVE  requests'[txn[d].call.ref] = "PENDING" /\ Terms[txn[d].call.ref].target = txn[d].call.member
    <3>1. <<"request", txn[d].call.ref>> \in held[d] /\ requests[txn[d].call.ref] = "PENDING"
          /\ Terms[txn[d].call.ref].target = txn[d].call.member /\ txn[d].call.ref \in DOMAIN Terms
      BY <2>1, <2>4, WorkloadAssumption DEF HoldsLocks, ReadsStand, InStage
    <3>2. txn[c].call.op \in {"approve", "reject"} => <<"request", txn[c].call.ref>> \in held[c]
      BY <1>1, <1>3 DEF HoldsLocks
    <3>3. held[c] \cap held[d] = {}
      BY DEF LockInv, MutualExclusion
    <3> QED
      BY <3>1, <3>2, <3>3, CommitDecides
  <2>5. ASSUME txn[d].call.op = "consume", txn[d].pc # "key", ~txn[d].replay
        PROVE  \A r \in records' : r.key # txn[d].call.key
    <3>1. <<"key", txn[d].call.key>> \in held[d] /\ \A r \in records : r.key # txn[d].call.key
      BY <2>1, <2>5 DEF HoldsLocks, ReadsStand
    <3>2. Charges(c) => <<"key", txn[c].call.key>> \in held[c]
      BY <1>1, <1>3 DEF HoldsLocks, Charges
    <3>3. held[c] \cap held[d] = {}
      BY DEF LockInv, MutualExclusion
    <3>4. Charges(c) => txn[c].call.key # txn[d].call.key
      BY <3>1, <3>2, <3>3
    <3> QED
      BY <1>1, <3>1, <3>4
  <2>6. ReadsStand(d)'
    BY <1>2, <1>4, <2>1, <2>4, <2>5 DEF ReadsStand
  <2> QED
    BY <2>1, <2>2, <2>3, <2>6 DEF CallInv
<1> QED
  BY <1>5, <1>6

\* So a commit keeps LockInv.
LEMMA CommitKeepsLocks ==
  ASSUME LockInv, NEW c \in Calls, Commit(c)
  PROVE  LockInv'
<1>1. /\ txn[c].pc = "commit" /\ grants' = View(c) /\ End(c, "done") /\ UNCHANGED overdue
      /\ usage' \in [Members -> Nat] /\ records' \in SUBSET Records /\ shared' \in SUBSET Shares
      /\ IsFiniteSet(records') /\ IsFiniteSet(shared')
  BY CommitEffects
<1>2. /\ DOMAIN txn' = Calls /\ txn'[c] = [Idle EXCEPT !.pc = "done"]
      /\ \A d \in Calls \ {c} : txn'[d] = txn[d]
      /\ DOMAIN held' = Calls /\ held'[c] = {}
      /\ \A d \in Calls \ {c} : held'[d] = held[d]
  BY <1>1 DEF LockInv, TypeOK, End
<1>3. txn'[c].pc = "done"
  BY <1>2 DEF Idle
<1>4. MutualExclusion'
  BY <1>2 DEF LockInv, MutualExclusion
<1>5. TypeOK'
  <2>1. TxnType(txn'[c])
    BY <1>2, IdleType DEF Ended
  <2>2. \A d \in Calls : TxnType(txn'[d])
    BY <1>2, <2>1 DEF LockInv, TypeOK, TxnType
  <2>3. \A d \in Calls : \A lock \in held'[d] : lock[1] \in {"key", "request", "window", "grant", "row"}
    BY <1>2 DEF LockInv, TypeOK
  <2>4. grants' \in [DOMAIN grants' -> Grants] /\ DOMAIN grants' \subseteq Ids /\ WellFormed(grants)'
    BY <1>1, CommittedView DEF WellFormed
  <2>5. requests' \in [DOMAIN Terms -> {"PENDING", "APPROVED", "REJECTED"}]
    BY CommitDecides
  <2>6. overdue' \in BOOLEAN
    BY <1>1 DEF LockInv, TypeOK
  <2> QED
    BY <1>1, <1>2, <2>2, <2>3, <2>4, <2>5, <2>6 DEF TypeOK, TxnType
<1>6. ASSUME NEW d \in Calls PROVE CallInv(d)'
  <2>1. CASE d = c
    BY <1>2, <1>3, <2>1 DEF CallInv, Active, AtRest, Ended
  <2>2. CASE d # c
    BY <2>2, CommitStandsClear
  <2> QED
    BY <2>1, <2>2
<1>7. NoIntegrityError'
  BY <1>2, <1>3 DEF LockInv, NoIntegrityError
<1>8. OneGrantPerApproval'
  BY CommitDecides
<1>9. \A d \in Calls : txn'[d].pc # "done" => d \notin DOMAIN grants'
  <2>1. DOMAIN grants' \subseteq DOMAIN grants \cup {c}
    BY <1>1, CommittedView
  <2> QED
    BY <1>2, <1>3, <2>1 DEF LockInv
<1>10. IsFiniteSet(DOMAIN grants)'
  BY <1>1, CommittedView
<1> QED
  BY <1>1, <1>4, <1>5, <1>6, <1>7, <1>8, <1>9, <1>10 DEF LockInv, CallInv

-----------------------------------------------------------------------------
(* Every step keeps LockInv.                                               *)

\* Only a call that is under way waits for a lock.
LEMMA WaitingIsUnderWay ==
  ASSUME LockInv, NEW c \in Calls, Wanted(c) # {}
  PROVE  txn[c].pc \in Stages
<1>1. CASE txn[c].todo = <<>>
  BY <1>1 DEF Wanted, Stages
<1>2. CASE txn[c].todo # <<>>
  <2>1. ~AtRest(c)
    BY <1>2 DEF AtRest, Idle
  <2>2. InStage(c)
    BY <2>1 DEF LockInv
  <2> QED
    BY <1>2, <2>2 DEF InStage, Stages
<1> QED
  BY <1>1, <1>2

\* Each statement, abort and commit of a call keeps LockInv.
LEMMA CallKeepsLocks ==
  ASSUME LockInv, NEW c \in Calls, Begin(c) \/ Step(c) \/ DeadlockDetected(c) \/ LoseConnection(c)
  PROVE  LockInv'
<1>1. CASE Begin(c)
  BY <1>1, BeginKeepsLocks
<1>2. CASE FindKey(c) \/ GetRequest(c) \/ GetGrant(c) \/ Revoke(c) \/ GetWindow(c)
  BY <1>2, FindKeyKeepsLocks, GetRequestKeepsLocks, GetGrantKeepsLocks, RevokeKeepsLocks, GetWindowKeepsLocks
<1>3. CASE ListSent(c) \/ ListReceived(c)
  BY <1>3, ListSentKeepsLocks, ListReceivedKeepsLocks
<1>4. CASE ExpireNext(c)
  <2>1. Wanted(c) # {}
    BY <1>4 DEF ExpireNext, Wanted
  <2> QED
    BY <1>4, <2>1, WaitingIsUnderWay, ExpireNextKeepsLocks
<1>5. CASE FinishRead(c) \/ Approve(c) \/ TakeOwn(c) \/ Draw(c)
  BY <1>5, FinishReadKeepsLocks, ApproveKeepsLocks, ChargeKeepsLocks
<1>6. CASE Refuse(c)
  BY <1>6, RollbackKeepsLocks DEF Refuse, Ended
<1>7. CASE Commit(c)
  BY <1>7, CommitKeepsLocks
<1>8. CASE DeadlockDetected(c)
  <2>1. BlockedBy(c) # {}
    BY <1>8 DEF DeadlockDetected, Cycle
  <2>2. txn[c].pc \in Stages
    BY <2>1, WaitingIsUnderWay DEF BlockedBy
  <2> QED
    BY <1>8, <2>2, RollbackKeepsLocks DEF DeadlockDetected, Ended, Stages
<1>9. CASE LoseConnection(c)
  BY <1>9, RollbackKeepsLocks DEF LoseConnection, Active, Ended
<1> QED
  BY <1>1, <1>2, <1>3, <1>4, <1>5, <1>6, <1>7, <1>8, <1>9 DEF Step

\* No step breaks LockInv.
LEMMA StepKeepsLocks ==
  ASSUME LockInv, [Next]_vars
  PROVE  LockInv'
<1>1. CASE Reset
  <2>1. ASSUME NEW c \in Calls PROVE CallInv(c)'
    BY <1>1, OtherCallStays DEF Reset, LockInv, CallInv
  <2>2. TypeOK'
    BY <1>1 DEF Reset, LockInv, TypeOK, WellFormed, tables
  <2> QED
    BY <1>1, <2>1, <2>2 DEF Reset, LockInv, CallInv, tables, MutualExclusion, NoIntegrityError, OneGrantPerApproval
<1>2. CASE \E c \in Calls : Begin(c) \/ Step(c) \/ DeadlockDetected(c) \/ LoseConnection(c)
  BY <1>2, CallKeepsLocks
<1>3. CASE UNCHANGED vars
  <2>1. ASSUME NEW c \in Calls PROVE CallInv(c)'
    BY <1>3, OtherCallStays DEF vars, LockInv, CallInv
  <2>2. TypeOK'
    BY <1>3 DEF vars, LockInv, TypeOK, WellFormed, tables
  <2> QED
    BY <1>3, <2>1, <2>2 DEF vars, LockInv, CallInv, tables, MutualExclusion, NoIntegrityError, OneGrantPerApproval
<1> QED
  BY <1>1, <1>2, <1>3 DEF Next

\* A behaviour starts with every call at rest and every request open.
LEMMA InitHasLocks ==
  ASSUME Init
  PROVE  LockInv
<1>1. /\ grants \in [DOMAIN grants -> Grants] /\ WellFormed(grants) /\ DOMAIN grants \subseteq Ids
      /\ IsFiniteSet(DOMAIN grants) /\ DOMAIN grants \cap Calls = {}
  BY OpeningAssumption DEF Init, Ids
<1>2. Idle.pc = "idle" /\ Idle.seen = <<>> /\ Idle.wrote = <<>> /\ Idle = [Idle EXCEPT !.pc = Idle.pc]
  <2>1. Idle.pc = "idle" /\ Idle.seen = <<>> /\ Idle.wrote = <<>>
    BY DEF Idle
  <2>2. Idle = [Idle EXCEPT !.pc = Idle.pc]
    BY NothingType DEF Transactions
  <2> QED
    BY <2>1, <2>2
<1>3. TxnType(Idle)
  BY <1>2, NothingType DEF TxnType
<1>4. TypeOK
  BY <1>1, <1>3 DEF Init, TypeOK, TxnType
<1>5. MutualExclusion /\ NoIntegrityError
  BY <1>2 DEF Init, MutualExclusion, NoIntegrityError
<1>6. OneGrantPerApproval
  <2>1. { r \in DOMAIN requests : requests[r] = "APPROVED" } = {}
    BY DEF Init
  <2> QED
    BY <1>1, <2>1 DEF OneGrantPerApproval
<1>7. ASSUME NEW c \in Calls PROVE ~Active(c) /\ AtRest(c) /\ c \notin DOMAIN grants
  BY <1>1, <1>2 DEF Init, Active, AtRest
<1>8. IsFiniteSet(records) /\ IsFiniteSet(shared)
  BY FS_EmptySet DEF Init
<1> QED
  BY <1>1, <1>4, <1>5, <1>6, <1>7, <1>8 DEF LockInv

\* At every moment the state is well-typed, no lock has two holders, every call
\* holds the locks of its own operation, and nothing that a call has read under
\* one of them is changed by another: what unit_of_work.py and the FOR UPDATE
\* and pg_advisory_xact_lock statements of the PostgreSQL repositories are for.
THEOREM LocksHold == Spec => []LockInv
<1>1. Init => LockInv
  BY InitHasLocks
<1>2. LockInv /\ [Next]_vars => LockInv'
  BY StepKeepsLocks
<1> QED
  BY <1>1, <1>2, PTL DEF Spec

\* The state is well-typed.
THEOREM TypeCorrect == Spec => []TypeOK
<1>1. LockInv => TypeOK
  BY DEF LockInv
<1> QED
  BY <1>1, LocksHold, PTL

\* A report that is sent twice at once never fails on the UNIQUE column
\* usage_records.idempotency_key: the second call waits for the key and replays.
THEOREM RetriesNeverCollide == Spec => []NoIntegrityError
<1>1. LockInv => NoIntegrityError
  BY DEF LockInv
<1> QED
  BY <1>1, LocksHold, PTL

\* However many calls approve one request at once, the ledger has as many grants
\* made by approvals as it has approved requests.
THEOREM ApprovalsGrantOnce == Spec => []OneGrantPerApproval
<1>1. LockInv => OneGrantPerApproval
  BY DEF LockInv
<1> QED
  BY <1>1, LocksHold, PTL

\* A request that approve_request() or reject_request() has decided is never
\* decided again, by a call that waited for it or any other.
THEOREM DecidedForGood == Spec => DecisionsFinal
<1>1. ASSUME LockInv, [Next]_vars, NEW r \in DOMAIN requests, requests[r] # "PENDING"
      PROVE  requests'[r] = requests[r]
  <2>1. CASE UNCHANGED requests
    BY <2>1
  <2>2. CASE \E c \in Calls : Commit(c)
    <3>1. PICK c \in Calls : Commit(c)
      BY <2>2
    <3>2. r \in DOMAIN Terms
      BY <1>1 DEF LockInv, TypeOK
    <3> QED
      BY <1>1, <3>1, <3>2, CommitDecides
  <2>3. UNCHANGED requests \/ \E c \in Calls : Commit(c)
    <3>1. CASE UNCHANGED vars \/ Reset
      BY <3>1 DEF vars, Reset, tables
    <3>2. ASSUME NEW c \in Calls, Begin(c) \/ Step(c) \/ DeadlockDetected(c) \/ LoseConnection(c)
          PROVE  UNCHANGED requests \/ Commit(c)
      BY <3>2 DEF Begin, Step, DeadlockDetected, LoseConnection, Rollback, FindKey, GetRequest, GetGrant,
                  Revoke, GetWindow, ListSent, ListReceived, ExpireNext, FinishRead, Approve, TakeOwn, Draw,
                  Refuse, tables
    <3> QED
      BY <1>1, <3>1, <3>2 DEF Next
  <2> QED
    BY <2>1, <2>2, <2>3
<1>2. LockInv /\ [Next]_vars =>
        [\A r \in DOMAIN requests : requests[r] # "PENDING" => requests'[r] = requests[r]]_vars
  BY <1>1
<1> QED
  BY <1>2, LocksHold, PTL DEF Spec, DecisionsFinal
-----------------------------------------------------------------------------
(* Waiting.                                                                *)

\* A statement of c moves c alone, and adds the lock it waited for, or none.
LEMMA OnlyOneMoves ==
  ASSUME LockInv, NEW c \in Calls, NEW t, Continue(c, t), Granted(c) \/ UNCHANGED held
  PROVE  /\ txn'[c] = t /\ \A d \in Calls \ {c} : txn'[d] = txn[d] /\ held'[d] = held[d]
         /\ held'[c] = held[c] \/ held'[c] = held[c] \cup Wanted(c)
         /\ UNCHANGED held => held'[c] = held[c]
<1>1. txn'[c] = t /\ \A d \in Calls \ {c} : txn'[d] = txn[d]
  BY DEF LockInv, TypeOK, Continue
<1>2. \A d \in Calls \ {c} : held'[d] = held[d]
  BY LocksStayApart DEF LockInv
<1>3. held'[c] = held[c] \/ held'[c] = held[c] \cup Wanted(c)
  BY DEF LockInv, TypeOK, Granted
<1> QED
  BY <1>1, <1>2, <1>3

\* A call that is over holds nothing, and leaves the locks of others alone.
LEMMA OverAndDone ==
  ASSUME LockInv, NEW c \in Calls, NEW outcome \in Ended, End(c, outcome)
  PROVE  /\ ~Active(c)' /\ \A d \in Calls \ {c} : txn'[d] = txn[d] /\ held'[d] = held[d]
<1>1. txn'[c] = [Idle EXCEPT !.pc = outcome] /\ \A d \in Calls \ {c} : txn'[d] = txn[d] /\ held'[d] = held[d]
  BY DEF LockInv, TypeOK, End
<1>2. txn'[c].pc = outcome
  BY <1>1 DEF Idle
<1> QED
  BY <1>1, <1>2 DEF Active

\* What c takes its first locks with, and in which order.
LEMMA FirstLocks ==
  ASSUME WaitInv, LockInv', NEW c \in Calls, Begin(c) \/ FindKey(c) \/ GetRequest(c) \/ GetGrant(c)
  PROVE  /\ Active(c)' => LocksInOrder(c)'
         /\ \A d \in Calls \ {c} : txn'[d] = txn[d] /\ held'[d] = held[d]
<1>1. CASE Begin(c)
  <2>1. PICK call \in Workload :
          Continue(c, [Idle EXCEPT !.pc = EntryPoint[call.op], !.call = call, !.of = call.member, !.late = overdue])
    BY <1>1 DEF Begin
  <2> DEFINE t == [Idle EXCEPT !.pc = EntryPoint[call.op], !.call = call, !.of = call.member, !.late = overdue]
  <2>2. t.todo = <<>> /\ t.pc = EntryPoint[call.op]
    BY DEF Idle
  <2>3. t.pc # "revoke"
    BY <2>2, WorkloadAssumption DEF EntryPoint
  <2>4. UNCHANGED held /\ txn[c].pc = "idle"
    BY <1>1 DEF Begin
  <2>5. held[c] = {}
    BY <2>4 DEF WaitInv, LockInv, Active, AtRest
  <2>6. txn'[c] = t /\ held'[c] = held[c] /\ \A d \in Calls \ {c} : txn'[d] = txn[d] /\ held'[d] = held[d]
    BY <2>1, <2>4, OnlyOneMoves DEF WaitInv
  <2> HIDE DEF t
  <2> QED
    BY <2>2, <2>3, <2>5, <2>6 DEF LocksInOrder
<1>2. CASE FindKey(c)
  <2>1. CASE Granted(c) /\ Continue(c, [txn[c] EXCEPT !.pc = "window", !.replay = { r \in records : r.key = txn[c].call.key } # {}])
    <3> DEFINE t == [txn[c] EXCEPT !.pc = "window", !.replay = { r \in records : r.key = txn[c].call.key } # {}]
    <3>1. txn[c].pc = "key" /\ txn[c].pc \in Stages
      BY <1>2 DEF FindKey, Stages
    <3>2. /\ txn[c] \in Transactions(DOMAIN txn[c].seen, DOMAIN txn[c].wrote)
          /\ Active(c) /\ InStage(c)
      BY <3>1, UnderWay DEF WaitInv
    <3>3. held[c] = {} /\ txn[c].todo = <<>>
      BY <3>1, <3>2 DEF WaitInv, LocksInOrder, InStage
    <3>4. \A lock \in Wanted(c) : lock[1] = "key"
      BY <3>1, <3>3 DEF Wanted
    <3>5. t.pc = "window" /\ t.todo = <<>>
      BY <3>2, <3>3 DEF Transactions
    <3>6. /\ txn'[c] = t /\ \A d \in Calls \ {c} : txn'[d] = txn[d] /\ held'[d] = held[d]
          /\ held'[c] = held[c] \/ held'[c] = held[c] \cup Wanted(c)
      BY <2>1, OnlyOneMoves DEF WaitInv
    <3> HIDE DEF t
    <3> QED
      BY <3>3, <3>4, <3>5, <3>6 DEF LocksInOrder
  <2>2. CASE \E outcome \in Ended : End(c, outcome)
    BY <2>2, OverAndDone DEF WaitInv
  <2> QED
    BY <1>2, <2>1, <2>2 DEF FindKey, Rollback, Ended
<1>3. CASE GetRequest(c)
  <2>1. CASE Granted(c) /\ \E pc \in {"window", "commit"} : \E verdict : Continue(c, [txn[c] EXCEPT !.pc = pc, !.verdict = verdict])
    <3>1. PICK pc \in {"window", "commit"} : \E verdict : Continue(c, [txn[c] EXCEPT !.pc = pc, !.verdict = verdict])
      BY <2>1
    <3>2. PICK verdict : Continue(c, [txn[c] EXCEPT !.pc = pc, !.verdict = verdict])
      BY <3>1
    <3> DEFINE t == [txn[c] EXCEPT !.pc = pc, !.verdict = verdict]
    <3>3. txn[c].pc = "request" /\ txn[c].pc \in Stages
      BY <1>3 DEF GetRequest, Stages
    <3>4. /\ txn[c] \in Transactions(DOMAIN txn[c].seen, DOMAIN txn[c].wrote)
          /\ Active(c) /\ InStage(c)
      BY <3>3, UnderWay DEF WaitInv
    <3>5. held[c] = {} /\ txn[c].todo = <<>>
      BY <3>3, <3>4 DEF WaitInv, LocksInOrder, InStage
    <3>6. \A lock \in Wanted(c) : lock[1] = "request"
      BY <3>3, <3>5 DEF Wanted
    <3>7. t.pc = pc /\ t.todo = <<>>
      BY <3>4, <3>5 DEF Transactions
    <3>8. /\ txn'[c] = t /\ \A d \in Calls \ {c} : txn'[d] = txn[d] /\ held'[d] = held[d]
          /\ held'[c] = held[c] \/ held'[c] = held[c] \cup Wanted(c)
      BY <2>1, <3>2, OnlyOneMoves DEF WaitInv
    <3> HIDE DEF t
    <3> QED
      BY <3>5, <3>6, <3>7, <3>8 DEF LocksInOrder
  <2>2. CASE \E outcome \in Ended : End(c, outcome)
    BY <2>2, OverAndDone DEF WaitInv
  <2>3. CASE Granted(c) /\ Continue(c, [txn[c] EXCEPT !.pc = "window"])
    <3>1. txn[c] \in Transactions(DOMAIN txn[c].seen, DOMAIN txn[c].wrote)
      BY <1>3, UnderWay DEF WaitInv, GetRequest, Stages
    <3>2. [txn[c] EXCEPT !.pc = "window"] = [txn[c] EXCEPT !.pc = "window", !.verdict = txn[c].verdict]
      BY <3>1 DEF Transactions
    <3> QED
      BY <2>1, <2>3, <3>2
  <2> QED
    BY <1>3, <2>1, <2>2, <2>3 DEF GetRequest, Rollback, Ended
<1>4. CASE GetGrant(c)
  <2>1. CASE Granted(c) /\ Continue(c, [txn[c] EXCEPT !.pc = "revoke"])
    <3> DEFINE t == [txn[c] EXCEPT !.pc = "revoke"]
    <3>2. txn[c].pc = "grant" /\ txn[c].pc \in Stages
      BY <1>4 DEF GetGrant, Stages
    <3>3. /\ txn[c] \in Transactions(DOMAIN txn[c].seen, DOMAIN txn[c].wrote)
          /\ Active(c) /\ InStage(c)
      BY <3>2, UnderWay DEF WaitInv
    <3>4. held[c] = {} /\ txn[c].todo = <<>>
      BY <3>2, <3>3 DEF WaitInv, LocksInOrder, InStage
    <3>5. \A lock \in Wanted(c) : lock[1] = "grant"
      BY <3>2, <3>4 DEF Wanted
    <3>6. t.pc = "revoke" /\ t.todo = <<>>
      BY <3>3, <3>4 DEF Transactions
    <3>7. /\ txn'[c] = t /\ \A d \in Calls \ {c} : txn'[d] = txn[d] /\ held'[d] = held[d]
          /\ held'[c] = held[c] \/ held'[c] = held[c] \cup Wanted(c)
      BY <2>1, OnlyOneMoves DEF WaitInv
    <3> HIDE DEF t
    <3> QED
      BY <3>4, <3>5, <3>6, <3>7 DEF LocksInOrder
  <2>2. CASE \E outcome \in Ended : End(c, outcome)
    BY <2>2, OverAndDone DEF WaitInv
  <2> QED
    BY <1>4, <2>1, <2>2 DEF GetGrant, Rollback, Ended
<1> QED
  BY <1>1, <1>2, <1>3, <1>4

\* A call that began before reset_at has no row to store.
LEMMA FreshOrder ==
  ASSUME NEW c, NEW listed, NEW order \in SetToSeqs(Stale(c, listed)), order # <<>>
  PROVE  txn[c].late
<1> SUFFICES ASSUME ~txn[c].late PROVE FALSE
  OBVIOUS
<1>1. Stale(c, listed) = {} /\ IsFiniteSet({})
  BY FS_EmptySet DEF Stale
<1>2. order \in Seq({})
  BY <1>1, OrderedSet
<1> QED
  BY <1>2

\* Where a charge goes on to.
LEMMA OnwardStages ==
  ASSUME NEW c, NEW R, NEW W, NEW v \in Transactions(R, W)
  PROVE  /\ Onward(c, v).pc \in {"commit", "refuse", "sent", "window"}
         /\ Onward(c, v).call = v.call /\ Onward(c, v).seen = v.seen /\ Onward(c, v).todo = v.todo
<1>1. CASE v.shortfall = 0
  <2>1. Onward(c, v) = [v EXCEPT !.pc = "commit"]
    BY <1>1 DEF Onward
  <2> QED
    BY <2>1 DEF Transactions
<1>2. CASE v.shortfall # 0 /\ v.queue = <<>>
  <2>1. Onward(c, v) = [v EXCEPT !.pc = "refuse"]
    BY <1>2 DEF Onward
  <2> QED
    BY <2>1 DEF Transactions
<1>3. CASE v.shortfall # 0 /\ v.queue # <<>>
  <2> DEFINE source == View(c)[Head(v.queue)].source
             pc     == IF source \in DOMAIN v.seen THEN "sent" ELSE "window"
  <2>1. Onward(c, v) = [v EXCEPT !.of = source, !.pc = pc]
    BY <1>3 DEF Onward
  <2>2. pc \in {"sent", "window"}
    OBVIOUS
  <2> HIDE DEF source, pc
  <2> QED
    BY <2>1, <2>2 DEF Transactions
<1> QED
  BY <1>1, <1>2, <1>3

\* From its first window on, c may hold anything, but for the row it revokes.
LEMMA LaterLocks ==
  ASSUME WaitInv, LockInv', NEW c \in Calls,
         \/ Revoke(c) \/ GetWindow(c) \/ ListSent(c) \/ ListReceived(c) \/ ExpireNext(c)
         \/ FinishRead(c) \/ Approve(c) \/ TakeOwn(c) \/ Draw(c)
  PROVE  /\ Active(c)' => LocksInOrder(c)'
         /\ \A d \in Calls \ {c} : txn'[d] = txn[d] /\ held'[d] = held[d]
<1> DEFINE t == txn[c]
           Later(u) == /\ u.pc \in {"sent", "received", "decide", "refuse", "commit"} \/
                            (u.pc = "window" /\ u.call.op = "consume" /\ DOMAIN u.seen # {})
                       /\ u.todo # <<>> => u.late
<1>1. ASSUME NEW u, Continue(c, u), Granted(c) \/ UNCHANGED held, Later(u)
      PROVE  /\ Active(c)' => LocksInOrder(c)'
             /\ \A d \in Calls \ {c} : txn'[d] = txn[d] /\ held'[d] = held[d]
  <2>1. txn'[c] = u /\ \A d \in Calls \ {c} : txn'[d] = txn[d] /\ held'[d] = held[d]
    BY <1>1, OnlyOneMoves DEF WaitInv
  <2> QED
    BY <1>1, <2>1 DEF LocksInOrder
<1>2. ASSUME t.pc \in Stages
      PROVE  /\ t \in Transactions(DOMAIN t.seen, DOMAIN t.wrote)
             /\ Active(c) /\ InStage(c) /\ (t.todo # <<>> => t.late)
  BY <1>2, UnderWay DEF WaitInv, LocksInOrder
<1>3. CASE Revoke(c)
  <2>1. t.pc = "revoke" /\ t.pc \in Stages /\ Granted(c)
        /\ Continue(c, [t EXCEPT !.pc = "commit", !.wrote = Overwritten(c, t.call.ref, "REVOKED", TRUE)])
    BY <1>3 DEF Revoke, Stages
  <2>2. t.todo = <<>>
    BY <1>2, <2>1 DEF InStage
  <2>3. ASSUME NEW w PROVE Later([t EXCEPT !.pc = "commit", !.wrote = w])
    BY <1>2, <2>1, <2>2 DEF Transactions
  <2> QED
    BY <1>1, <2>1, <2>3
<1>4. CASE GetWindow(c)
  <2>1. t.pc = "window" /\ t.pc \in Stages /\ Granted(c)
        /\ Continue(c, [t EXCEPT !.pc = "sent", !.seen = With(t.of, usage[t.of], @)])
    BY <1>4 DEF GetWindow, Stages
  <2>2. t.todo = <<>>
    BY <1>2, <2>1 DEF InStage
  <2>3. ASSUME NEW w PROVE Later([t EXCEPT !.pc = "sent", !.seen = w])
    BY <1>2, <2>1, <2>2 DEF Transactions
  <2> QED
    BY <1>1, <2>1, <2>3
<1>5. CASE ListSent(c)
  <2>1. /\ t.pc = "sent" /\ t.pc \in Stages /\ UNCHANGED held
        /\ \E order \in SetToSeqs(Stale(c, SentBy(c))) :
             Continue(c, [t EXCEPT !.pc = "received", !.sent = SentBy(c) \ Stale(c, SentBy(c)), !.todo = order])
    BY <1>5 DEF ListSent, Stages
  <2>2. PICK order \in SetToSeqs(Stale(c, SentBy(c))) :
          Continue(c, [t EXCEPT !.pc = "received", !.sent = SentBy(c) \ Stale(c, SentBy(c)), !.todo = order])
    BY <2>1
  <2>3. order # <<>> => t.late
    BY FreshOrder
  <2>4. ASSUME NEW w PROVE Later([t EXCEPT !.pc = "received", !.sent = w, !.todo = order])
    BY <1>2, <2>1, <2>3 DEF Transactions
  <2> QED
    BY <1>1, <2>1, <2>2, <2>4
<1>6. CASE ListReceived(c)
  <2>1. /\ t.pc = "received" /\ t.pc \in Stages /\ UNCHANGED held
        /\ \E order \in SetToSeqs(Stale(c, ReceivedBy(c))) :
             Continue(c, [t EXCEPT !.pc = "decide", !.received = ReceivedBy(c) \ Stale(c, ReceivedBy(c)), !.todo = order])
    BY <1>6 DEF ListReceived, Stages
  <2>2. PICK order \in SetToSeqs(Stale(c, ReceivedBy(c))) :
          Continue(c, [t EXCEPT !.pc = "decide", !.received = ReceivedBy(c) \ Stale(c, ReceivedBy(c)), !.todo = order])
    BY <2>1
  <2>3. order # <<>> => t.late
    BY FreshOrder
  <2>4. ASSUME NEW w PROVE Later([t EXCEPT !.pc = "decide", !.received = w, !.todo = order])
    BY <1>2, <2>1, <2>3 DEF Transactions
  <2> QED
    BY <1>1, <2>1, <2>2, <2>4
<1>7. CASE ExpireNext(c)
  <2>1. /\ t.todo # <<>> /\ Granted(c)
        /\ Continue(c, [t EXCEPT !.todo = Tail(@), !.wrote = Overwritten(c, Head(t.todo), "EXPIRED", FALSE)])
    BY <1>7 DEF ExpireNext
  <2>2. t.pc \in Stages
    BY <2>1, WaitingIsUnderWay DEF Wanted, WaitInv
  <2>3. t.pc \in {"received", "decide"} /\ t.late
    BY <1>2, <2>1, <2>2 DEF InStage
  <2>4. ASSUME NEW w, NEW q PROVE Later([t EXCEPT !.todo = q, !.wrote = w])
    BY <1>2, <2>2, <2>3 DEF Transactions
  <2> QED
    BY <1>1, <2>1, <2>4
<1>8. CASE FinishRead(c)
  <2>1. t.pc = "decide" /\ t.pc \in Stages /\ t.todo = <<>> /\ UNCHANGED held /\ Continue(c, [t EXCEPT !.pc = "commit"])
    BY <1>8 DEF FinishRead, Decided, Stages
  <2>2. Later([t EXCEPT !.pc = "commit"])
    BY <1>2, <2>1 DEF Transactions
  <2> QED
    BY <1>1, <2>1, <2>2
<1>9. CASE Approve(c)
  <2>1. t.pc = "decide" /\ t.pc \in Stages /\ t.todo = <<>>
    BY <1>9 DEF Approve, Decided, Stages
  <2>2. CASE UNCHANGED held /\ Continue(c, [t EXCEPT !.pc = "commit", !.verdict = "APPROVED", !.wrote = With(c, NewGrant(c), @)])
    <3>1. ASSUME NEW w, NEW v PROVE Later([t EXCEPT !.pc = "commit", !.verdict = v, !.wrote = w])
      BY <1>2, <2>1 DEF Transactions
    <3> QED
      BY <1>1, <2>2, <3>1
  <2>3. CASE \E outcome \in Ended : End(c, outcome)
    BY <2>3, OverAndDone DEF WaitInv
  <2> QED
    BY <1>9, <2>2, <2>3 DEF Approve, Rollback, Ended
<1>10. CASE TakeOwn(c)
  <2>1. UNCHANGED held /\ \E own \in 0..t.call.amount : \E v : Took(c, own, v) /\ Continue(c, Onward(c, v))
    BY <1>10, TakeOwnStep DEF WaitInv
  <2>2. PICK own \in 0..t.call.amount : \E v : Took(c, own, v) /\ Continue(c, Onward(c, v))
    BY <2>1
  <2>3. PICK v : Took(c, own, v) /\ Continue(c, Onward(c, v))
    BY <2>2
  <2>4. /\ t.pc = "decide" /\ t.pc \in Stages /\ t.todo = <<>> /\ t.call.op = "consume"
    BY <1>10 DEF TakeOwn, Decided, Stages
  <2>5. t.of \in DOMAIN t.seen
    BY <2>4, UnderWay DEF WaitInv, HoldsLocks
  <2>6. /\ v.call.op = "consume" /\ v.todo = <<>> /\ v \in Transactions(DOMAIN t.seen, DOMAIN t.wrote)
    BY <2>3, <2>4 DEF Took
  <2>7. DOMAIN v.seen # {}
    BY <2>5, <2>6 DEF Transactions
  <2>8. Later(Onward(c, v))
    BY <2>6, <2>7, OnwardStages
  <2> QED
    BY <1>1, <2>1, <2>3, <2>8
<1>11. CASE Draw(c)
  <2>1. UNCHANGED held /\ \E draw \in 0..t.shortfall : \E v : Drew(c, draw, v) /\ Continue(c, Onward(c, v))
    BY <1>11, DrawStep DEF WaitInv
  <2>2. PICK draw \in 0..t.shortfall : \E v : Drew(c, draw, v) /\ Continue(c, Onward(c, v))
    BY <2>1
  <2>3. PICK v : Drew(c, draw, v) /\ Continue(c, Onward(c, v))
    BY <2>2
  <2>4. /\ t.pc = "decide" /\ t.pc \in Stages /\ t.todo = <<>> /\ t.call.op = "consume"
    BY <1>11 DEF Draw, Decided, Stages
  <2>5. t.of \in DOMAIN t.seen
    BY <2>4, UnderWay DEF WaitInv, HoldsLocks
  <2>6. /\ v.call.op = "consume" /\ v.todo = <<>> /\ v \in Transactions(DOMAIN t.seen, DOMAIN t.wrote)
    BY <2>3, <2>4 DEF Drew
  <2>7. DOMAIN v.seen # {}
    BY <2>5, <2>6 DEF Transactions
  <2>8. Later(Onward(c, v))
    BY <2>6, <2>7, OnwardStages
  <2> QED
    BY <1>1, <2>1, <2>3, <2>8
<1> QED
  BY <1>3, <1>4, <1>5, <1>6, <1>7, <1>8, <1>9, <1>10, <1>11

\* Every step keeps the order in which locks are taken.
LEMMA StepKeepsOrder ==
  ASSUME WaitInv, [Next]_vars
  PROVE  WaitInv'
<1>1. LockInv'
  BY StepKeepsLocks DEF WaitInv
<1>2. ASSUME NEW d \in Calls, txn'[d] = txn[d], held'[d] = held[d]
      PROVE  Active(d)' => LocksInOrder(d)'
  BY <1>2 DEF WaitInv, Active, LocksInOrder
<1>3. ASSUME NEW c \in Calls, Active(c)' => LocksInOrder(c)',
             \A d \in Calls \ {c} : txn'[d] = txn[d] /\ held'[d] = held[d]
      PROVE  WaitInv'
  <2>1. ASSUME NEW d \in Calls PROVE Active(d)' => LocksInOrder(d)'
    <3>1. CASE d = c
      BY <1>3, <3>1
    <3>2. CASE d # c
      BY <1>2, <1>3, <3>2
    <3> QED
      BY <3>1, <3>2
  <2> QED
    BY <1>1, <2>1 DEF WaitInv
<1>4. CASE Reset \/ UNCHANGED vars
  <2>1. UNCHANGED <<txn, held>>
    BY <1>4 DEF Reset, vars
  <2> QED
    BY <1>1, <1>2, <2>1 DEF WaitInv
<1>5. ASSUME NEW c \in Calls, Begin(c) \/ Step(c) \/ DeadlockDetected(c) \/ LoseConnection(c)
      PROVE  WaitInv'
  <2>1. CASE Begin(c) \/ FindKey(c) \/ GetRequest(c) \/ GetGrant(c)
    BY <1>1, <1>3, <2>1, FirstLocks
  <2>2. CASE \/ Revoke(c) \/ GetWindow(c) \/ ListSent(c) \/ ListReceived(c) \/ ExpireNext(c)
             \/ FinishRead(c) \/ Approve(c) \/ TakeOwn(c) \/ Draw(c)
    BY <1>1, <1>3, <2>2, LaterLocks
  <2>3. CASE \E outcome \in Ended : End(c, outcome)
    BY <1>3, <2>3, OverAndDone DEF WaitInv
  <2>4. Refuse(c) \/ Commit(c) \/ DeadlockDetected(c) \/ LoseConnection(c) => \E outcome \in Ended : End(c, outcome)
    BY DEF Refuse, Commit, DeadlockDetected, LoseConnection, Rollback, Ended
  <2> QED
    BY <1>5, <2>1, <2>2, <2>3, <2>4 DEF Step
<1> QED
  BY <1>4, <1>5 DEF Next

\* Only a call that is under way holds a lock, or waits for one.
LEMMA HoldersAreActive ==
  ASSUME LockInv, NEW c \in Calls, held[c] # {} \/ Wanted(c) # {}
  PROVE  Active(c)
<1>1. CASE held[c] # {}
  BY <1>1 DEF LockInv, AtRest
<1>2. CASE Wanted(c) # {}
  BY <1>2, WaitingIsUnderWay DEF Active, Stages, Ended
<1> QED
  BY <1>1, <1>2

\* If every call under way waits, the least set of them that wait for one another
\* is a cycle: a call in it for which none of the others waits could be left out.
LEMMA AllWaitInCycles == LockInv => NeverStuck
<1> SUFFICES ASSUME LockInv, NEW first \in Calls, Active(first),
                    \A c \in Calls : Active(c) => BlockedBy(c) # {}
             PROVE  \E c \in Calls : Active(c) /\ \E S \in SUBSET Calls : c \in S /\ Cycle(S)
  BY DEF NeverStuck
<1> DEFINE Waiting == { T \in SUBSET Calls : /\ T # {} /\ \A d \in T : Active(d)
                                             /\ \A d \in T : BlockedBy(d) \cap T # {} }
           active == { c \in Calls : Active(c) }
<1>1. active \in Waiting
  <2>1. \A d \in active : \A e \in BlockedBy(d) : e \in active
    BY HoldersAreActive DEF BlockedBy
  <2> QED
    BY <2>1
<1>2. IsFiniteSet(Calls)
  BY PoolAssumption
<1>3. IsWellFoundedOn(StrictSubsetOrdering(Calls), SUBSET Calls)
  BY <1>2, FS_StrictSubsetOrderingWellFounded, FS_FiniteSubsetsOfFinite
<1>4. Waiting \subseteq SUBSET Calls /\ Waiting # {}
  BY <1>1
<1> HIDE DEF Waiting
<1>5. PICK T \in Waiting : \A U \in Waiting : <<U, T>> \notin StrictSubsetOrdering(Calls)
  BY <1>3, <1>4, WFMin
<1> USE DEF Waiting
<1>6. \A U \in Waiting : U \subseteq T => U = T
  BY <1>5 DEF StrictSubsetOrdering
<1>7. ASSUME NEW d \in T PROVE \E e \in T : d \in BlockedBy(e)
  <2> SUFFICES ASSUME \A e \in T : d \notin BlockedBy(e) PROVE FALSE
    OBVIOUS
  <2> DEFINE U == T \ {d}
  <2>1. \A e \in U : BlockedBy(e) \cap U # {}
    OBVIOUS
  <2>2. U # {}
    <3>1. PICK e \in T : e \in BlockedBy(d)
      OBVIOUS
    <3>2. e # d
      BY <3>1 DEF BlockedBy
    <3> QED
      BY <3>2
  <2>3. U \in Waiting
    BY <2>1, <2>2
  <2> QED
    BY <1>6, <2>3
<1>8. Cycle(T)
  BY <1>7 DEF Cycle
<1>9. PICK c \in T : c \in Calls /\ Active(c)
  OBVIOUS
<1> QED
  BY <1>8, <1>9

\* A call in a cycle holds what another call in a cycle waits for.  Those that
\* hold nothing, or only what a call waits for that holds nothing, are in none.
LEMMA WaitersAreKnown == WaitInv => CyclesKnown
<1> SUFFICES ASSUME WaitInv, NEW S \in SUBSET Calls, Cycle(S), NEW c \in S
             PROVE  \/ txn[c].call.op = "consume" /\ txn[c].pc = "window" /\ DOMAIN txn[c].seen # {}
                    \/ txn[c].late /\ txn[c].todo # <<>>
  BY DEF CyclesKnown
<1>1. ASSUME NEW d \in S
      PROVE  /\ Wanted(d) # {} /\ Active(d) /\ LocksInOrder(d) /\ InStage(d)
             /\ \E e \in S : Wanted(e) \cap held[d] # {}
  <2>1. Wanted(d) # {} /\ \E e \in S : Wanted(e) \cap held[d] # {}
    BY DEF Cycle, BlockedBy
  <2>2. Active(d)
    BY <2>1, HoldersAreActive DEF WaitInv
  <2> QED
    BY <2>1, <2>2 DEF WaitInv, LockInv
<1>2. ASSUME NEW d \in S
      PROVE  txn[d].pc \notin {"key", "request", "grant"} /\ \A lock \in Wanted(d) : lock[1] \in {"window", "row"}
  <2>1. held[d] # {}
    BY <1>1
  <2>2. txn[d].pc \notin {"key", "request", "grant"}
    BY <1>1, <2>1 DEF LocksInOrder
  <2>3. \A lock \in Wanted(d) : lock[1] \in {"window", "row"}
    BY <2>2 DEF Wanted
  <2> QED
    BY <2>2, <2>3
<1>3. PICK lock \in held[c] : lock[1] \in {"window", "row"}
  <2>1. PICK e \in S : Wanted(e) \cap held[c] # {}
    BY <1>1
  <2> QED
    BY <1>2, <2>1
<1>4. CASE txn[c].todo # <<>>
  BY <1>1, <1>4 DEF LocksInOrder
<1>5. CASE txn[c].todo = <<>>
  <2>1. txn[c].pc \in {"window", "revoke"}
    BY <1>1, <1>2, <1>5 DEF Wanted
  <2>2. txn[c].pc # "revoke"
    BY <1>1, <1>3 DEF LocksInOrder
  <2> QED
    BY <1>1, <1>3, <2>1, <2>2 DEF LocksInOrder
<1> QED
  BY <1>4, <1>5

\* For any pool and any calls: while some call is under way, one of them can run
\* its next statement or is in a cycle that the database breaks, and the calls in
\* a cycle are charges that wait for a lender's window and calls, begun after
\* reset_at, that store expiries.  Until then the gap that docs/architecture.md
\* names, between consume() calls, is the only one; revoke_grant() and
\* reject_request() are never part of a deadlock.
THEOREM WaitsAreKnown == Spec => []WaitsKnown
<1>1. Init => WaitInv
  <2> SUFFICES ASSUME Init PROVE WaitInv
    OBVIOUS
  <2>1. \A c \in Calls : txn[c].pc = "idle"
    BY DEF Init, Idle
  <2> QED
    BY <2>1, InitHasLocks DEF WaitInv, Active
<1>2. WaitInv /\ [Next]_vars => WaitInv'
  BY StepKeepsOrder
<1>3. WaitInv => WaitsKnown
  BY AllWaitInCycles, WaitersAreKnown DEF WaitInv, WaitsKnown
<1> QED
  BY <1>1, <1>2, <1>3, PTL DEF Spec
=============================================================================
