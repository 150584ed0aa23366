----------------------- MODULE ClaudeCodeTurns_proofs -----------------------
(***************************************************************************)
(* The two hooks around every turn of Claude Code, for any sessions,       *)
(* messages, versions and bounds: what is charged is one message of the    *)
(* turn its key stands for, and what is blocked is spent.                  *)
(***************************************************************************)
EXTENDS ClaudeCodeTurns, TotalsTheorems

SessionStates == [pc : {"idle", "checking", "running"}, turn : 0..MaxTurns, seen : Nat]

StopStates == [pc : {"none", "polling", "reporting"}, payload : Payload,
               index : Nat, units : Nat, fires : 0..MaxFires]

\* A session that runs is in some turn, and there are no more turns than allowed.
SessionInv ==
  /\ session \in [Sessions -> SessionStates]
  /\ Turns =< MaxTurns
  /\ \A s \in Sessions : session[s].pc = "running" => session[s].turn > 0

FilesInv == memory \in [Sessions -> Seq(Entry)] /\ file \in [Sessions -> Seq(Entry)]

\* The i-th entry of a transcript is what a Stop hook is about to report.
Found(entries, i, hook) ==
  /\ i \in UsageEntries(entries)
  /\ Matches(entries[i], hook.payload)
  /\ TurnIndex(entries, i) = hook.index
  /\ UnitsOf(entries[i]) = hook.units

StopInv ==
  /\ stop \in [Sessions -> StopStates]
  /\ \A s \in Sessions :
       /\ stop[s].pc # "none" => stop[s].payload.turn > 0
       /\ stop[s].pc = "reporting" => stop[s].units > 0 /\ \E i \in UsageEntries(file[s]) : Found(file[s], i, stop[s])

\* The i-th entry of a transcript is what a key of the ledger stands for.
Charged(entries, i, k) ==
  /\ IF k.turn > 0 THEN entries[i].turn = k.turn ELSE TurnIndex(entries, i) = k.index
  /\ UnitsOf(entries[i]) = ledger[k]

LedgerInv ==
  /\ ledger \in [DOMAIN ledger -> Nat \ {0}] /\ IsFiniteSet(DOMAIN ledger)
  /\ DOMAIN ledger \subseteq [session : Sessions, turn : 0..MaxTurns, index : Nat]
  /\ \A k \in DOMAIN ledger :
       /\ \E i \in UsageEntries(file[k.session]) : Charged(file[k.session], i, k)
       /\ "prompt" \in signals => k.turn > 0 /\ k.index = 0

\* While a prompt is checked no hook of its session reports, so what was read is
\* at least the session's own use, and at most what is recorded by now.
CheckInv ==
  \A s \in Sessions : session[s].pc = "checking" =>
    stop[s].pc = "none" /\ OwnUse(s) =< session[s].seen /\ session[s].seen =< Used

ChoicesInv == identity \in Identities /\ signals \in SignalSets /\ guaranteed \in Guarantees

TurnsInv == ChoicesInv /\ SessionInv /\ FilesInv /\ StopInv /\ LedgerInv /\ CheckInv

-----------------------------------------------------------------------------
(* Transcripts.                                                            *)

\* What an entry is charged is a number of units.
LEMMA UnitsOfType ==
  ASSUME NEW entries \in Seq(Entry), NEW i \in UsageEntries(entries)
  PROVE  UnitsOf(entries[i]) \in Nat
<1>1. entries[i] \in Entry /\ entries[i].tokens # NoUsage
  BY DEF UsageEntries
<1>2. PICK m \in Messages : entries[i].tokens = m.tokens
  BY <1>1 DEF Entry
<1>3. entries[i].tokens \in Nat \X Nat
  BY <1>1, <1>2, TurnsAssumption
<1>4. entries[i].tokens[1] \in Nat /\ entries[i].tokens[2] \in Nat
  BY <1>3
<1>5. \A a, b \in Nat : TokensToUnits(a, b) \in Nat
  BY SMT DEF TokensToUnits
<1> QED
  BY <1>4, <1>5 DEF UnitsOf

\* An index is a number.
LEMMA TurnIndexType ==
  ASSUME NEW entries \in Seq(Entry), NEW i
  PROVE  TurnIndex(entries, i) \in Nat
<1> DEFINE places == { j \in UsageEntries(entries) : j =< i }
<1>1. places \in SUBSET (1..Len(entries)) /\ Len(entries) \in Nat
  BY DEF UsageEntries
<1>2. IsFiniteSet(1..Len(entries))
  BY <1>1, FS_Interval
<1>3. IsFiniteSet(places)
  BY <1>1, <1>2, FS_Subset
<1> QED
  BY <1>3, FS_CardinalityType DEF TurnIndex

\* An entry keeps its place, its index and its content when the transcript grows.
LEMMA EntryStays ==
  ASSUME NEW entries \in Seq(Entry), NEW e \in Entry, NEW i \in UsageEntries(entries)
  PROVE  LET new == Append(entries, e)
         IN i \in UsageEntries(new) /\ new[i] = entries[i] /\ TurnIndex(new, i) = TurnIndex(entries, i)
<1> DEFINE new == Append(entries, e)
<1>1. /\ DOMAIN entries = 1..Len(entries) /\ Len(entries) \in Nat
      /\ DOMAIN new = 1..(Len(entries) + 1)
      /\ \A j \in DOMAIN entries : new[j] = entries[j]
  OBVIOUS
<1> HIDE DEF new
<1>2. i \in DOMAIN entries /\ entries[i].tokens # NoUsage
  BY DEF UsageEntries
<1>3. i \in UsageEntries(new) /\ new[i] = entries[i]
  BY <1>1, <1>2 DEF UsageEntries
<1>4. { j \in UsageEntries(new) : j =< i } = { j \in UsageEntries(entries) : j =< i }
  BY <1>1, <1>2 DEF UsageEntries
<1> QED
  BY <1>3, <1>4 DEF new, TurnIndex

-----------------------------------------------------------------------------
(* Turns.                                                                  *)

TurnCounts == [s \in Sessions |-> session[s].turn]
Checking == { s \in Sessions : session[s].pc = "checking" }
One(condition) == IF condition THEN 1 ELSE 0

\* A function's total when one of its values changes.
LEMMA TotalOfChange ==
  ASSUME NEW D, IsFiniteSet(D), NEW f \in [D -> Nat], NEW g \in [D -> Nat], NEW x \in D,
         \A y \in D \ {x} : g[y] = f[y]
  PROVE  TotalOf(g) + f[x] = TotalOf(f) + g[x]
<1> DEFINE P == D \ {x}
<1>1. D = P \cup {x} /\ P \in SUBSET D /\ x \in D \ P
  OBVIOUS
<1>2. [y \in P |-> g[y]] = [y \in P |-> f[y]]
  OBVIOUS
<1> HIDE DEF P
<1>3. TotalOf([y \in P |-> f[y]]) \in Nat /\ TotalOf([y \in P |-> f[y]]) + f[x] = TotalOf(f)
  BY <1>1, TotalOfPart
<1>4. TotalOf([y \in P |-> g[y]]) + g[x] = TotalOf(g)
  BY <1>1, TotalOfPart
<1>5. f[x] \in Nat /\ g[x] \in Nat
  OBVIOUS
<1> QED
  BY <1>2, <1>3, <1>4, <1>5

\* A session's turns are among all, the one being checked included.
LEMMA TurnsOfSession ==
  ASSUME session \in [Sessions -> SessionStates], NEW s \in Sessions
  PROVE  Turns \in Nat /\ session[s].turn + One(session[s].pc = "checking") =< Turns
<1>1. IsFiniteSet(Sessions) /\ MaxTurns \in Nat
  BY TurnsAssumption
<1>2. TurnCounts \in [Sessions -> Nat] /\ TurnCounts[s] = session[s].turn
  BY <1>1 DEF TurnCounts, SessionStates
<1>3. TotalOf(TurnCounts) \in Nat
  BY <1>1, <1>2, TotalOfType
<1>4. session[s].turn =< TotalOf(TurnCounts) /\ session[s].turn \in Nat
  BY <1>1, <1>2, TotalOfMember
<1>5. IsFiniteSet(Checking)
  BY <1>1, FS_Subset DEF Checking
<1>6. Cardinality(Checking) \in Nat
  BY <1>5, FS_CardinalityType
<1>7. session[s].pc = "checking" => Cardinality(Checking) # 0
  BY <1>5, FS_EmptySet DEF Checking
<1>8. Turns = TotalOf(TurnCounts) + Cardinality(Checking)
  BY DEF Turns, TurnCounts, Checking
<1> QED
  BY <1>3, <1>4, <1>6, <1>7, <1>8 DEF One

\* The turns of all sessions when one of them goes on.
LEMMA TurnsChange ==
  ASSUME session \in [Sessions -> SessionStates], NEW s \in Sessions, NEW q \in SessionStates,
         session' = [session EXCEPT ![s] = q]
  PROVE  /\ Turns' \in Nat
         /\ Turns' + session[s].turn + One(session[s].pc = "checking") = Turns + q.turn + One(q.pc = "checking")
<1>1. IsFiniteSet(Sessions) /\ MaxTurns \in Nat
  BY TurnsAssumption
<1>2. /\ session' \in [Sessions -> SessionStates] /\ session'[s] = q
      /\ \A r \in Sessions \ {s} : session'[r] = session[r]
  OBVIOUS
<1>3. /\ TurnCounts \in [Sessions -> Nat] /\ TurnCounts[s] = session[s].turn
      /\ TurnCounts' \in [Sessions -> Nat] /\ TurnCounts'[s] = q.turn
      /\ \A r \in Sessions \ {s} : TurnCounts'[r] = TurnCounts[r]
  BY <1>1, <1>2 DEF TurnCounts, SessionStates
<1>4. TotalOf(TurnCounts) \in Nat /\ TotalOf(TurnCounts') \in Nat
  BY <1>1, <1>3, TotalOfType
<1>5. TotalOf(TurnCounts') + session[s].turn = TotalOf(TurnCounts) + q.turn
  <2>1. ASSUME NEW f \in [Sessions -> Nat], NEW g \in [Sessions -> Nat], \A r \in Sessions \ {s} : g[r] = f[r]
        PROVE  TotalOf(g) + f[s] = TotalOf(f) + g[s]
    BY <1>1, <2>1, TotalOfChange, ZenonT(40)
  <2> QED
    BY <1>3, <2>1
<1>6. /\ Turns = TotalOf(TurnCounts) + Cardinality(Checking)
      /\ Turns' = TotalOf(TurnCounts') + Cardinality(Checking')
  BY DEF Turns, TurnCounts, Checking
<1> DEFINE others == Checking \ {s}
<1>7. Checking = (IF session[s].pc = "checking" THEN others \cup {s} ELSE others)
  BY DEF Checking
<1>8. Checking' = (IF q.pc = "checking" THEN others \cup {s} ELSE others)
  BY <1>2 DEF Checking
<1>9. IsFiniteSet(others)
  BY <1>1, FS_Subset DEF Checking
<1>10. s \notin others
  OBVIOUS
<1> HIDE DEF others
<1>11. Cardinality(others) \in Nat /\ Cardinality(others \cup {s}) = Cardinality(others) + 1
  BY <1>9, <1>10, FS_CardinalityType, FS_AddElement
<1>12. /\ Cardinality(Checking) = Cardinality(others) + One(session[s].pc = "checking")
       /\ Cardinality(Checking') = Cardinality(others) + One(q.pc = "checking")
  BY <1>7, <1>8, <1>11 DEF One
<1>13. One(session[s].pc = "checking") \in Nat /\ One(q.pc = "checking") \in Nat
  BY DEF One
<1>14. session[s].turn \in Nat /\ q.turn \in Nat
  BY <1>1 DEF SessionStates
<1> QED
  BY <1>4, <1>5, <1>6, <1>11, <1>12, <1>13, <1>14

\* A session goes on within the turns that are allowed.
LEMMA SessionGoesOn ==
  ASSUME SessionInv, NEW s \in Sessions,
         NEW q \in [pc : {"idle", "checking", "running"}, turn : Nat, seen : Nat],
         q.pc = "running" => q.turn > 0,
         \/ q.turn + One(q.pc = "checking") =< session[s].turn + One(session[s].pc = "checking")
         \/ Turns < MaxTurns /\ q.turn + One(q.pc = "checking") = session[s].turn + One(session[s].pc = "checking") + 1,
         session' = [session EXCEPT ![s] = q]
  PROVE  SessionInv'
<1>1. MaxTurns \in Nat /\ session[s] \in SessionStates
  BY TurnsAssumption DEF SessionInv
<1>2. /\ Turns \in Nat /\ session[s].turn + One(session[s].pc = "checking") =< Turns /\ Turns =< MaxTurns
  BY TurnsOfSession DEF SessionInv
<1>3. /\ One(session[s].pc = "checking") \in Nat /\ One(q.pc = "checking") \in Nat
      /\ session[s].turn \in Nat
  BY <1>1 DEF One, SessionStates
<1>4. q.turn \in 0..MaxTurns
  BY <1>1, <1>2, <1>3
<1>5. q \in SessionStates
  BY <1>4 DEF SessionStates
<1>6. /\ Turns' \in Nat
      /\ Turns' + session[s].turn + One(session[s].pc = "checking") = Turns + q.turn + One(q.pc = "checking")
  BY <1>5, TurnsChange DEF SessionInv
<1>7. Turns' =< MaxTurns
  BY <1>1, <1>2, <1>3, <1>6
<1>8. /\ session' \in [Sessions -> SessionStates]
      /\ \A r \in Sessions : session'[r].pc = "running" => session'[r].turn > 0
  BY <1>5 DEF SessionInv
<1> QED
  BY <1>7, <1>8 DEF SessionInv

-----------------------------------------------------------------------------
(* The ledger.                                                             *)

KeysOf(s) == { k \in DOMAIN ledger : k.session = s }

\* What is recorded, in all and by one session.
LEMMA UseType ==
  ASSUME LedgerInv, NEW s
  PROVE  Used \in Nat /\ OwnUse(s) \in Nat /\ OwnUse(s) =< Used
<1>1. ledger \in [DOMAIN ledger -> Nat] /\ IsFiniteSet(DOMAIN ledger)
  BY DEF LedgerInv
<1>2. TotalOf(ledger) \in Nat
  BY <1>1, TotalOfType
<1>3. IsFiniteSet(KeysOf(s))
  BY <1>1, FS_Subset DEF KeysOf
<1>4. [k \in KeysOf(s) |-> ledger[k]] \in [KeysOf(s) -> Nat]
  BY <1>1 DEF KeysOf
<1>5. TotalOf([k \in KeysOf(s) |-> ledger[k]]) \in Nat
  BY <1>3, <1>4, TotalOfType
<1>6. CASE KeysOf(s) = DOMAIN ledger
  <2>1. [k \in KeysOf(s) |-> ledger[k]] = ledger
    BY <1>1, <1>6
  <2> QED
    BY <1>2, <2>1 DEF Used, OwnUse, KeysOf
<1>7. CASE KeysOf(s) # DOMAIN ledger
  <2>1. PICK x \in DOMAIN ledger : x \in DOMAIN ledger \ KeysOf(s) /\ KeysOf(s) \in SUBSET DOMAIN ledger
    BY <1>7 DEF KeysOf
  <2>2. TotalOf([k \in KeysOf(s) |-> ledger[k]]) + ledger[x] =< TotalOf(ledger)
    BY <1>1, <2>1, TotalOfPart
  <2>3. ledger[x] \in Nat
    BY <1>1
  <2>4. TotalOf([k \in KeysOf(s) |-> ledger[k]]) =< TotalOf(ledger)
    BY <1>2, <1>5, <2>2, <2>3
  <2> QED
    BY <1>2, <1>5, <2>4 DEF Used, OwnUse, KeysOf
<1> QED
  BY <1>6, <1>7

\* A new record adds to what is used, and is no other session's.
LEMMA RecordAdds ==
  ASSUME LedgerInv, NEW key, key \notin DOMAIN ledger, NEW units \in Nat \ {0},
         ledger' = [k \in DOMAIN ledger \cup {key} |-> IF k = key THEN units ELSE ledger[k]]
  PROVE  /\ Used =< Used'
         /\ \A s : s # key.session => OwnUse(s)' = OwnUse(s)
<1>1. ledger \in [DOMAIN ledger -> Nat] /\ IsFiniteSet(DOMAIN ledger)
  BY DEF LedgerInv
<1>2. /\ DOMAIN ledger' = DOMAIN ledger \cup {key}
      /\ ledger' \in [DOMAIN ledger' -> Nat] /\ ledger'[key] = units
      /\ \A k \in DOMAIN ledger : ledger'[k] = ledger[k]
  BY <1>1
<1>3. IsFiniteSet(DOMAIN ledger')
  BY <1>1, <1>2, FS_AddElement
<1>4. DOMAIN ledger \in SUBSET DOMAIN ledger' /\ key \in DOMAIN ledger' \ DOMAIN ledger
  BY <1>2
<1>5. [k \in DOMAIN ledger |-> ledger'[k]] = ledger
  BY <1>1, <1>2
<1>6. TotalOf([k \in DOMAIN ledger |-> ledger'[k]]) + ledger'[key] =< TotalOf(ledger')
  BY <1>2, <1>3, <1>4, TotalOfPart
<1>7. TotalOf(ledger) \in Nat /\ TotalOf(ledger') \in Nat
  BY <1>1, <1>2, <1>3, TotalOfType
<1>8. Used =< Used'
  BY <1>2, <1>5, <1>6, <1>7 DEF Used
<1>9. ASSUME NEW s, s # key.session
      PROVE  OwnUse(s)' = OwnUse(s)
  <2>1. { k \in DOMAIN ledger' : k.session = s } = { k \in DOMAIN ledger : k.session = s }
    BY <1>2, <1>9
  <2>2. [k \in { r \in DOMAIN ledger' : r.session = s } |-> ledger'[k]]
          = [k \in { r \in DOMAIN ledger : r.session = s } |-> ledger[k]]
    BY <1>2, <2>1
  <2> QED
    BY <2>2 DEF OwnUse
<1> QED
  BY <1>8, <1>9

-----------------------------------------------------------------------------
(* The steps of a session.                                                 *)

\* What becomes of a session that goes on.
LEMMA SessionFields ==
  ASSUME NEW q, q = [pc |-> q.pc, turn |-> q.turn, seen |-> q.seen], NEW pc, NEW seen
  PROVE  /\ [q EXCEPT !.pc = pc] = [pc |-> pc, turn |-> q.turn, seen |-> q.seen]
         /\ [q EXCEPT !.pc = pc, !.seen = seen] = [pc |-> pc, turn |-> q.turn, seen |-> seen]
         /\ [q EXCEPT !.pc = pc, !.turn = @ + 1] = [pc |-> pc, turn |-> q.turn + 1, seen |-> q.seen]
<1> DEFINE there == [q EXCEPT !.pc = pc]
<1>1. there = [pc |-> pc, turn |-> q.turn, seen |-> q.seen]
  OBVIOUS
<1>2. [q EXCEPT !.pc = pc, !.seen = seen] = [there EXCEPT !.seen = seen]
  OBVIOUS
<1>3. [q EXCEPT !.pc = pc, !.turn = @ + 1] = [there EXCEPT !.turn = there.turn + 1]
  OBVIOUS
<1>4. [q EXCEPT !.pc = pc] = there
  OBVIOUS
<1> HIDE DEF there
<1>5. [there EXCEPT !.seen = seen] = [pc |-> pc, turn |-> q.turn, seen |-> seen]
  BY <1>1
<1>6. [there EXCEPT !.turn = there.turn + 1] = [pc |-> pc, turn |-> there.turn + 1, seen |-> q.seen]
  BY <1>1
<1>7. there.turn = q.turn
  BY <1>1
<1>8. [q EXCEPT !.pc = pc] = [pc |-> pc, turn |-> q.turn, seen |-> q.seen]
  BY <1>1, <1>4
<1>9. [q EXCEPT !.pc = pc, !.seen = seen] = [pc |-> pc, turn |-> q.turn, seen |-> seen]
  BY <1>2, <1>5
<1>10. [q EXCEPT !.pc = pc, !.turn = @ + 1] = [pc |-> pc, turn |-> q.turn + 1, seen |-> q.seen]
  BY <1>3, <1>6, <1>7
<1> QED
  BY <1>8, <1>9, <1>10

\* Only one session goes on, and a check it starts has read a usage that fits.
LEMMA SessionStep ==
  ASSUME TurnsInv, SessionInv', NEW s \in Sessions, NEW q, session' = [session EXCEPT ![s] = q],
         q.pc = "checking" => stop[s].pc = "none" /\ OwnUse(s) =< q.seen /\ q.seen =< Used,
         UNCHANGED <<identity, signals, guaranteed, ledger, memory, file, stop>>
  PROVE  TurnsInv'
<1>1. ChoicesInv' /\ FilesInv'
  BY DEF TurnsInv, ChoicesInv, FilesInv
<1>2. StopInv'
  BY DEF TurnsInv, StopInv, Found, Matches, PromptMatches, MessageMatches
<1>3. LedgerInv'
  BY DEF TurnsInv, LedgerInv, Charged
<1>4. session'[s] = q /\ \A r \in Sessions : r # s => session'[r] = session[r]
  BY DEF TurnsInv, SessionInv
<1>5. Used' = Used /\ \A r : OwnUse(r)' = OwnUse(r)
  BY DEF Used, OwnUse
<1>6. CheckInv'
  BY <1>4, <1>5 DEF TurnsInv, CheckInv
<1> QED
  BY <1>1, <1>2, <1>3, <1>6 DEF TurnsInv

\* A prompt that runs begins the session's next turn.
LEMMA RunStep ==
  ASSUME TurnsInv, NEW s \in Sessions, Run(s),
         session[s].pc = "checking" \/ (session[s].pc = "idle" /\ Turns < MaxTurns),
         UNCHANGED <<identity, signals, guaranteed, ledger, memory, file, stop>>
  PROVE  TurnsInv'
<1> DEFINE q == [pc |-> "running", turn |-> session[s].turn + 1, seen |-> session[s].seen]
<1>1. session[s] = [pc |-> session[s].pc, turn |-> session[s].turn, seen |-> session[s].seen]
      /\ session[s].turn \in Nat /\ session[s].seen \in Nat
  BY TurnsAssumption DEF TurnsInv, SessionInv, SessionStates
<1>2. session' = [session EXCEPT ![s] = q]
  <2>1. session' = [session EXCEPT ![s] = [session[s] EXCEPT !.pc = "running", !.turn = @ + 1]]
    BY DEF Run
  <2>2. [session[s] EXCEPT !.pc = "running", !.turn = @ + 1] = q
    BY <1>1, SessionFields
  <2> QED
    BY <2>1, <2>2
<1>3. /\ q \in [pc : {"idle", "checking", "running"}, turn : Nat, seen : Nat]
      /\ q.pc = "running" /\ q.turn > 0 /\ q.turn = session[s].turn + 1
  BY <1>1
<1> HIDE DEF q
<1>4. \/ q.turn + One(q.pc = "checking") =< session[s].turn + One(session[s].pc = "checking")
      \/ Turns < MaxTurns /\ q.turn + One(q.pc = "checking") = session[s].turn + One(session[s].pc = "checking") + 1
  BY <1>1, <1>3 DEF One
<1>5. SessionInv'
  BY <1>2, <1>3, <1>4, SessionGoesOn DEF TurnsInv
<1> QED
  BY <1>2, <1>3, <1>5, SessionStep

\* A session that does not begin a turn.
LEMMA PauseStep ==
  ASSUME TurnsInv, NEW s \in Sessions, NEW pc \in {"idle", "running"}, NEW seen \in Nat,
         pc = "running" => session[s].turn > 0,
         session' = [session EXCEPT ![s] = [pc |-> pc, turn |-> session[s].turn, seen |-> seen]]
  PROVE  SessionInv'
<1> DEFINE q == [pc |-> pc, turn |-> session[s].turn, seen |-> seen]
<1>1. session[s].turn \in Nat
  BY TurnsAssumption DEF TurnsInv, SessionInv, SessionStates
<1>2. /\ q \in [pc : {"idle", "checking", "running"}, turn : Nat, seen : Nat]
      /\ q.pc = pc /\ q.turn = session[s].turn
      /\ q.pc = "running" => q.turn > 0
  BY <1>1
<1>3. session' = [session EXCEPT ![s] = q]
  OBVIOUS
<1> HIDE DEF q
<1>4. q.turn + One(q.pc = "checking") =< session[s].turn + One(session[s].pc = "checking")
  BY <1>1, <1>2 DEF One
<1> QED
  BY <1>1, <1>2, <1>3, <1>4, SessionGoesOn DEF TurnsInv

\* A prompt is submitted, checked or let through; a turn goes on or is interrupted.
LEMMA SessionSteps ==
  ASSUME TurnsInv, NEW s \in Sessions,
         Submit(s) \/ Check(s) \/ CheckFails(s) \/ Continue(s) \/ Interrupt(s)
  PROVE  TurnsInv'
<1>1. /\ session[s] = [pc |-> session[s].pc, turn |-> session[s].turn, seen |-> session[s].seen]
      /\ session[s].turn \in Nat /\ session[s].seen \in Nat
      /\ session \in [Sessions -> SessionStates]
  BY TurnsAssumption DEF TurnsInv, SessionInv, SessionStates
<1>2. CASE Submit(s)
  <2>1. CASE identity = "local"
    <3> DEFINE q == [pc |-> "checking", turn |-> session[s].turn, seen |-> Used]
    <3>1. session' = [session EXCEPT ![s] = q]
      <4>1. session' = [session EXCEPT ![s] = [session[s] EXCEPT !.pc = "checking", !.seen = Used]]
        BY <1>2, <2>1 DEF Submit
      <4>2. [session[s] EXCEPT !.pc = "checking", !.seen = Used] = q
        BY <1>1, SessionFields
      <4> QED
        BY <4>1, <4>2
    <3>2. q.pc = "checking" /\ q.turn = session[s].turn /\ q.seen = Used
      OBVIOUS
    <3>3. Used \in Nat /\ OwnUse(s) =< Used
      BY UseType DEF TurnsInv
    <3>4. q \in [pc : {"idle", "checking", "running"}, turn : Nat, seen : Nat]
      BY <1>1, <3>3
    <3> HIDE DEF q
    <3>5. Turns < MaxTurns /\ q.turn + One(q.pc = "checking") = session[s].turn + One(session[s].pc = "checking") + 1
      BY <1>1, <1>2, <3>2 DEF Submit, One
    <3>6. SessionInv'
      BY <3>1, <3>2, <3>4, <3>5, SessionGoesOn DEF TurnsInv
    <3>7. OwnUse(s) =< q.seen /\ q.seen =< Used
      BY <3>2, <3>3
    <3>8. stop[s].pc = "none" /\ UNCHANGED <<identity, signals, guaranteed, ledger, memory, file, stop>>
      BY <1>2 DEF Submit
    <3> QED
      BY <3>1, <3>6, <3>7, <3>8, SessionStep
  <2>2. CASE identity # "local"
    BY <1>2, <2>2, RunStep DEF Submit
  <2> QED
    BY <2>1, <2>2
<1>3. CASE Check(s)
  <2>1. CASE Clamp(guaranteed - session[s].seen) = 0
    <3> DEFINE q == [pc |-> "idle", turn |-> session[s].turn, seen |-> session[s].seen]
    <3>1. session' = [session EXCEPT ![s] = q] /\ UNCHANGED <<identity, signals, guaranteed, ledger, memory, file, stop>>
      <4>1. session' = [session EXCEPT ![s] = [session[s] EXCEPT !.pc = "idle"]]
        BY <1>3, <2>1 DEF Check
      <4>2. [session[s] EXCEPT !.pc = "idle"] = q
        BY <1>1, SessionFields
      <4> QED
        BY <1>3, <4>1, <4>2 DEF Check
    <3>2. SessionInv'
      BY <1>1, <3>1, PauseStep
    <3>3. q.pc = "idle"
      OBVIOUS
    <3> HIDE DEF q
    <3> QED
      BY <3>1, <3>2, <3>3, SessionStep
  <2>2. CASE Clamp(guaranteed - session[s].seen) # 0
    BY <1>3, <2>2, RunStep DEF Check
  <2> QED
    BY <2>1, <2>2
<1>4. CASE CheckFails(s)
  BY <1>4, RunStep DEF CheckFails
<1>5. CASE Continue(s)
  <2> DEFINE q == [pc |-> "running", turn |-> session[s].turn, seen |-> session[s].seen]
  <2>1. /\ session' = [session EXCEPT ![s] = q] /\ session[s].turn > 0
        /\ UNCHANGED <<identity, signals, guaranteed, ledger, memory, file, stop>>
    <3>1. session' = [session EXCEPT ![s] = [session[s] EXCEPT !.pc = "running"]]
      BY <1>5 DEF Continue
    <3>2. [session[s] EXCEPT !.pc = "running"] = q
      BY <1>1, SessionFields
    <3> QED
      BY <1>5, <3>1, <3>2 DEF Continue
  <2>2. SessionInv'
    BY <1>1, <2>1, PauseStep
  <2>3. q.pc = "running"
    OBVIOUS
  <2> HIDE DEF q
  <2> QED
    BY <2>1, <2>2, <2>3, SessionStep
<1>6. CASE Interrupt(s)
  <2> DEFINE q == [pc |-> "idle", turn |-> session[s].turn, seen |-> 0]
  <2>1. /\ session' = [session EXCEPT ![s] = q]
        /\ UNCHANGED <<identity, signals, guaranteed, ledger, memory, file, stop>>
    <3>1. session' = [session EXCEPT ![s] = [session[s] EXCEPT !.pc = "idle", !.seen = 0]]
      BY <1>6 DEF Interrupt
    <3>2. [session[s] EXCEPT !.pc = "idle", !.seen = 0] = q
      BY <1>1, SessionFields
    <3> QED
      BY <1>6, <3>1, <3>2 DEF Interrupt
  <2>2. SessionInv'
    BY <1>1, <2>1, PauseStep
  <2>3. q.pc = "idle"
    OBVIOUS
  <2> HIDE DEF q
  <2> QED
    BY <2>1, <2>2, <2>3, SessionStep
<1> QED
  BY <1>2, <1>3, <1>4, <1>5, <1>6

-----------------------------------------------------------------------------
(* The steps of a transcript.                                              *)

\* An entry is found and charged as before when the transcript has grown.
LEMMA FoundStays ==
  ASSUME NEW entries \in Seq(Entry), NEW e \in Entry, NEW i \in UsageEntries(entries), NEW hook, Found(entries, i, hook)
  PROVE  i \in UsageEntries(Append(entries, e)) /\ Found(Append(entries, e), i, hook)
BY EntryStays DEF Found

\* See FoundStays.
LEMMA ChargedStays ==
  ASSUME NEW entries \in Seq(Entry), NEW e \in Entry, NEW i \in UsageEntries(entries), NEW k, Charged(entries, i, k)
  PROVE  i \in UsageEntries(Append(entries, e)) /\ Charged(Append(entries, e), i, k)
BY EntryStays DEF Charged

\* Claude says more: it is of the turn that runs.
LEMMA RespondStep ==
  ASSUME TurnsInv, NEW s \in Sessions, Respond(s)
  PROVE  TurnsInv'
<1>1. PICK m \in Messages :
        memory' = [memory EXCEPT ![s] = Append(@, [turn |-> session[s].turn, text |-> m.text, tokens |-> m.tokens])]
  BY DEF Respond
<1> DEFINE e == [turn |-> session[s].turn, text |-> m.text, tokens |-> m.tokens]
<1>2. session[s].turn \in 1..MaxTurns
  BY TurnsAssumption DEF Respond, TurnsInv, SessionInv, SessionStates
<1>3. e \in Entry
  BY <1>2 DEF Entry
<1>4. memory' = [memory EXCEPT ![s] = Append(memory[s], e)]
  BY <1>1
<1> HIDE DEF e
<1>5. UNCHANGED <<identity, signals, guaranteed, ledger, session, file, stop>>
  BY DEF Respond
<1>6. FilesInv'
  BY <1>3, <1>4, <1>5 DEF TurnsInv, FilesInv
<1>7. ChoicesInv' /\ SessionInv'
  BY <1>5 DEF TurnsInv, ChoicesInv, SessionInv, Turns
<1>8. StopInv'
  BY <1>5 DEF TurnsInv, StopInv, Found, Matches, PromptMatches, MessageMatches
<1>9. LedgerInv'
  BY <1>5 DEF TurnsInv, LedgerInv, Charged
<1>10. CheckInv'
  BY <1>5 DEF TurnsInv, CheckInv, Used, OwnUse
<1> QED
  BY <1>6, <1>7, <1>8, <1>9, <1>10 DEF TurnsInv

\* A line of the transcript is written: what was found and charged is still there.
LEMMA FlushStep ==
  ASSUME TurnsInv, NEW s \in Sessions, Flush(s)
  PROVE  TurnsInv'
<1> DEFINE e == Head(memory[s])
<1>1. memory[s] \in Seq(Entry) /\ memory[s] # <<>>
  BY DEF Flush, TurnsInv, FilesInv
<1>2. e \in Entry /\ Tail(memory[s]) \in Seq(Entry)
  BY <1>1
<1>3. /\ file' = [file EXCEPT ![s] = Append(file[s], e)]
      /\ memory' = [memory EXCEPT ![s] = Tail(memory[s])]
  BY DEF Flush
<1> HIDE DEF e
<1>4. UNCHANGED <<identity, signals, guaranteed, ledger, session, stop>>
  BY DEF Flush
<1>5. /\ \A r \in Sessions : file[r] \in Seq(Entry)
      /\ \A r \in Sessions : file'[r] = IF r = s THEN Append(file[s], e) ELSE file[r]
  BY <1>3 DEF TurnsInv, FilesInv
<1>6. FilesInv'
  BY <1>2, <1>3 DEF TurnsInv, FilesInv
<1>7. ChoicesInv' /\ SessionInv'
  BY <1>4 DEF TurnsInv, ChoicesInv, SessionInv, Turns
<1>8. CheckInv'
  BY <1>4 DEF TurnsInv, CheckInv, Used, OwnUse
<1>9. ASSUME NEW r \in Sessions, stop[r].pc = "reporting"
      PROVE  \E i \in UsageEntries(file'[r]) : Found(file'[r], i, stop[r])
  <2>1. PICK i \in UsageEntries(file[r]) : Found(file[r], i, stop[r])
    BY <1>9 DEF TurnsInv, StopInv
  <2>2. CASE r = s
    BY <1>2, <1>5, <2>1, <2>2, FoundStays
  <2>3. CASE r # s
    BY <1>5, <2>1, <2>3
  <2> QED
    BY <2>2, <2>3
<1>10. StopInv'
  BY <1>4, <1>9 DEF TurnsInv, StopInv, Found, Matches, PromptMatches, MessageMatches
<1>11. ASSUME NEW k \in DOMAIN ledger
       PROVE  \E i \in UsageEntries(file'[k.session]) : Charged(file'[k.session], i, k)
  <2>1. k.session \in Sessions
    BY DEF TurnsInv, LedgerInv
  <2>2. PICK i \in UsageEntries(file[k.session]) : Charged(file[k.session], i, k)
    BY DEF TurnsInv, LedgerInv
  <2>3. CASE k.session = s
    BY <1>2, <1>5, <2>2, <2>3, ChargedStays
  <2>4. CASE k.session # s
    BY <1>5, <2>1, <2>2, <2>4
  <2> QED
    BY <2>3, <2>4
<1>12. LedgerInv'
  BY <1>4, <1>11 DEF TurnsInv, LedgerInv, Charged
<1> QED
  BY <1>6, <1>7, <1>8, <1>10, <1>12 DEF TurnsInv

-----------------------------------------------------------------------------
(* The steps of a Stop hook.                                               *)

\* Only one hook goes on, and what it is about to report is in the transcript.
LEMMA StopStep ==
  ASSUME TurnsInv, NEW s \in Sessions, NEW hook \in StopStates, stop' = [stop EXCEPT ![s] = hook],
         hook.pc # "none" => hook.payload.turn > 0,
         hook.pc = "reporting" => hook.units > 0 /\ \E i \in UsageEntries(file[s]) : Found(file[s], i, hook),
         UNCHANGED <<signals, file>>
  PROVE  StopInv'
<1>1. stop' \in [Sessions -> StopStates]
  BY DEF TurnsInv, StopInv
<1>2. stop'[s] = hook /\ \A r \in Sessions : r # s => stop'[r] = stop[r]
  BY DEF TurnsInv, StopInv
<1>3. ASSUME NEW r \in Sessions
      PROVE  /\ stop'[r].pc # "none" => stop'[r].payload.turn > 0
             /\ stop'[r].pc = "reporting" =>
                  stop'[r].units > 0 /\ \E i \in UsageEntries(file[r]) : Found(file[r], i, stop'[r])
  BY <1>2 DEF TurnsInv, StopInv
<1> QED
  BY <1>1, <1>3 DEF StopInv, Found, Matches, PromptMatches, MessageMatches

\* A hook of a session whose prompt is not being checked goes on.
LEMMA HookStep ==
  ASSUME TurnsInv, StopInv', NEW s \in Sessions, NEW hook \in StopStates, stop' = [stop EXCEPT ![s] = hook],
         hook.pc = "none" \/ session[s].pc # "checking",
         UNCHANGED <<identity, signals, guaranteed, ledger, session, memory, file>>
  PROVE  TurnsInv'
<1>1. stop'[s] = hook /\ \A r \in Sessions : r # s => stop'[r] = stop[r]
  BY DEF TurnsInv, StopInv
<1>2. ChoicesInv' /\ FilesInv' /\ SessionInv'
  BY DEF TurnsInv, ChoicesInv, FilesInv, SessionInv, Turns
<1>3. LedgerInv'
  BY DEF TurnsInv, LedgerInv, Charged
<1>4. Used' = Used /\ \A r : OwnUse(r)' = OwnUse(r)
  BY DEF Used, OwnUse
<1>5. CheckInv'
  BY <1>1, <1>4 DEF TurnsInv, CheckInv
<1> QED
  BY <1>2, <1>3, <1>5 DEF TurnsInv

\* A hook is the record of its parts.
StopRecord(q) ==
  q = [pc |-> q.pc, payload |-> q.payload, index |-> q.index, units |-> q.units, fires |-> q.fires]

\* A hook that has something to report, or is done.
LEMMA StopMarks ==
  ASSUME NEW q, StopRecord(q), NEW pc, NEW index, NEW units
  PROVE  [q EXCEPT !.pc = pc, !.index = index, !.units = units]
           = [pc |-> pc, payload |-> q.payload, index |-> index, units |-> units, fires |-> q.fires]
<1> DEFINE there == [q EXCEPT !.pc = pc]
           later == [there EXCEPT !.index = index]
<1>1. there = [pc |-> pc, payload |-> q.payload, index |-> q.index, units |-> q.units, fires |-> q.fires]
  BY DEF StopRecord
<1>2. [q EXCEPT !.pc = pc, !.index = index, !.units = units] = [later EXCEPT !.units = units]
  OBVIOUS
<1> HIDE DEF there
<1>3. later = [pc |-> pc, payload |-> q.payload, index |-> index, units |-> q.units, fires |-> q.fires]
  BY <1>1
<1> HIDE DEF later
<1>4. [later EXCEPT !.units = units]
        = [pc |-> pc, payload |-> q.payload, index |-> index, units |-> units, fires |-> q.fires]
  BY <1>3
<1> QED
  BY <1>2, <1>4

\* A hook that is given a payload.
LEMMA StopPayload ==
  ASSUME NEW q, StopRecord(q), NEW pc, NEW payload
  PROVE  [q EXCEPT !.pc = pc, !.payload = payload]
           = [pc |-> pc, payload |-> payload, index |-> q.index, units |-> q.units, fires |-> q.fires]
<1> DEFINE there == [q EXCEPT !.pc = pc]
<1>1. there = [pc |-> pc, payload |-> q.payload, index |-> q.index, units |-> q.units, fires |-> q.fires]
  BY DEF StopRecord
<1>2. [q EXCEPT !.pc = pc, !.payload = payload] = [there EXCEPT !.payload = payload]
  OBVIOUS
<1> HIDE DEF there
<1>3. [there EXCEPT !.payload = payload]
        = [pc |-> pc, payload |-> payload, index |-> q.index, units |-> q.units, fires |-> q.fires]
  BY <1>1
<1> QED
  BY <1>2, <1>3

\* A hook that is invoked again.
LEMMA StopAgain ==
  ASSUME NEW q, StopRecord(q), NEW pc
  PROVE  [q EXCEPT !.pc = pc, !.fires = @ + 1]
           = [pc |-> pc, payload |-> q.payload, index |-> q.index, units |-> q.units, fires |-> q.fires + 1]
<1> DEFINE there == [q EXCEPT !.pc = pc]
<1>1. there = [pc |-> pc, payload |-> q.payload, index |-> q.index, units |-> q.units, fires |-> q.fires]
  BY DEF StopRecord
<1>2. [q EXCEPT !.pc = pc, !.fires = @ + 1] = [there EXCEPT !.fires = there.fires + 1]
  OBVIOUS
<1> HIDE DEF there
<1>3. [there EXCEPT !.fires = there.fires + 1]
        = [pc |-> pc, payload |-> q.payload, index |-> q.index, units |-> q.units, fires |-> there.fires + 1]
  BY <1>1
<1>4. there.fires = q.fires
  BY <1>1
<1> QED
  BY <1>2, <1>3, <1>4

\* A hook in its parts.
LEMMA StopParts ==
  ASSUME TurnsInv, NEW s \in Sessions
  PROVE  /\ StopRecord(stop[s])
         /\ stop[s].payload \in Payload /\ stop[s].index \in Nat /\ stop[s].units \in Nat
         /\ stop[s].fires \in 0..MaxFires
BY DEF TurnsInv, StopInv, StopStates, StopRecord

\* A hook that is done is out of everyone's way.
LEMMA DoneHook ==
  ASSUME TurnsInv, NEW s \in Sessions, Done(s), UNCHANGED <<signals, file>>
  PROVE  StopInv' /\ \E hook \in StopStates : hook.pc = "none" /\ stop' = [stop EXCEPT ![s] = hook]
<1> DEFINE hook == [pc |-> "none", payload |-> stop[s].payload, index |-> 0, units |-> 0, fires |-> stop[s].fires]
<1>1. stop' = [stop EXCEPT ![s] = hook]
  <2>1. stop' = [stop EXCEPT ![s] = [stop[s] EXCEPT !.pc = "none", !.index = 0, !.units = 0]]
    BY DEF Done
  <2>2. StopRecord(stop[s])
    BY StopParts
  <2>3. [stop[s] EXCEPT !.pc = "none", !.index = 0, !.units = 0] = hook
    BY <2>2, StopMarks
  <2> QED
    BY <2>1, <2>3
<1>2. hook \in StopStates /\ hook.pc = "none"
  BY StopParts DEF StopStates
<1> HIDE DEF hook
<1>3. StopInv'
  BY <1>1, <1>2, StopStep
<1> QED
  BY <1>1, <1>2, <1>3

\* A hook that has recorded nothing is done.
LEMMA DoneStep ==
  ASSUME TurnsInv, NEW s \in Sessions, Done(s),
         UNCHANGED <<identity, signals, guaranteed, ledger, session, memory, file>>
  PROVE  TurnsInv'
<1>1. StopInv' /\ \E hook \in StopStates : hook.pc = "none" /\ stop' = [stop EXCEPT ![s] = hook]
  BY DoneHook
<1> QED
  BY <1>1, HookStep

\* A hook that goes on to report an entry it has found.
LEMMA ReportsStep ==
  ASSUME TurnsInv, NEW s \in Sessions, stop[s].pc = "polling",
         NEW i \in CurrentTurnUsage(file[s], stop[s].payload), UnitsOf(file[s][i]) # 0, Reports(s, i),
         UNCHANGED <<identity, signals, guaranteed, ledger, session, memory, file>>
  PROVE  TurnsInv'
<1> DEFINE index == TurnIndex(file[s], i)
           units == UnitsOf(file[s][i])
           hook == [pc |-> "reporting", payload |-> stop[s].payload, index |-> index, units |-> units,
                    fires |-> stop[s].fires]
<1>1. stop' = [stop EXCEPT ![s] = hook]
  <2>1. stop' = [stop EXCEPT ![s] = [stop[s] EXCEPT !.pc = "reporting", !.index = index, !.units = units]]
    BY DEF Reports
  <2>2. StopRecord(stop[s])
    BY StopParts
  <2>3. [stop[s] EXCEPT !.pc = "reporting", !.index = index, !.units = units] = hook
    BY <2>2, StopMarks
  <2> QED
    BY <2>1, <2>3
<1>2. file[s] \in Seq(Entry)
  BY DEF TurnsInv, FilesInv
<1>3. i \in UsageEntries(file[s]) /\ Matches(file[s][i], stop[s].payload)
  BY DEF CurrentTurnUsage, Newest
<1>4. index \in Nat /\ units \in Nat /\ units # 0
  BY <1>2, <1>3, TurnIndexType, UnitsOfType
<1>5. index = TurnIndex(file[s], i) /\ units = UnitsOf(file[s][i])
  OBVIOUS
<1> HIDE DEF index, units
<1>6. hook \in StopStates
  BY <1>4, StopParts DEF StopStates
<1>7. /\ hook.pc = "reporting" /\ hook.payload = stop[s].payload /\ hook.index = index /\ hook.units = units
  OBVIOUS
<1> HIDE DEF hook
<1>8. Found(file[s], i, hook)
  BY <1>3, <1>5, <1>7 DEF Found
<1>9. hook.payload.turn > 0 /\ hook.units > 0
  BY <1>4, <1>7 DEF TurnsInv, StopInv
<1>10. session[s].pc # "checking"
  BY DEF TurnsInv, CheckInv
<1>11. StopInv'
  BY <1>1, <1>3, <1>6, <1>8, <1>9, StopStep
<1> QED
  BY <1>1, <1>6, <1>10, <1>11, HookStep

\* The turn ends: its last message is the payload's.
LEMMA FinishStep ==
  ASSUME TurnsInv, NEW s \in Sessions, Finish(s)
  PROVE  TurnsInv'
<1>1. PICK i \in EntriesOfTurn(s) :
        LET starts == identity # "none" /\ ("prompt" \in signals \/ Said(s)[i].text # NoText)
        IN stop' = [stop EXCEPT ![s].pc = IF starts THEN "polling" ELSE "none",
                                ![s].payload = [turn |-> session[s].turn, text |-> Said(s)[i].text]]
  BY DEF Finish, Newest
<1> DEFINE pc == IF identity # "none" /\ ("prompt" \in signals \/ Said(s)[i].text # NoText)
                   THEN "polling" ELSE "none"
           payload == [turn |-> session[s].turn, text |-> Said(s)[i].text]
           hook == [pc |-> pc, payload |-> payload, index |-> stop[s].index, units |-> stop[s].units,
                    fires |-> stop[s].fires]
<1>2. stop' = [stop EXCEPT ![s] = [stop[s] EXCEPT !.pc = pc, !.payload = payload]]
  BY <1>1
<1>3. pc \in {"none", "polling"}
  OBVIOUS
<1>4. payload \in Payload /\ payload.turn > 0
  <2>1. session[s].turn \in 1..MaxTurns
    BY TurnsAssumption DEF Finish, TurnsInv, SessionInv, SessionStates
  <2>2. Said(s) \in Seq(Entry)
    BY DEF TurnsInv, FilesInv, Said
  <2>3. Said(s)[i] \in Entry
    BY <2>2 DEF EntriesOfTurn
  <2>4. Said(s)[i].text \in { m.text : m \in Messages }
    BY <2>3 DEF Entry
  <2> QED
    BY <2>1, <2>4 DEF Payload
<1> HIDE DEF pc, payload
<1>5. stop' = [stop EXCEPT ![s] = hook]
  <2>1. StopRecord(stop[s])
    BY StopParts
  <2>2. [stop[s] EXCEPT !.pc = pc, !.payload = payload] = hook
    BY <2>1, StopPayload
  <2> QED
    BY <1>2, <2>2
<1>6. hook \in StopStates
  BY <1>3, <1>4, StopParts DEF StopStates
<1>7. hook.pc # "reporting" /\ hook.payload.turn > 0
  BY <1>3, <1>4
<1> HIDE DEF hook
<1>8. UNCHANGED <<identity, signals, guaranteed, ledger, memory, file>>
  BY DEF Finish
<1>9. StopInv'
  BY <1>5, <1>6, <1>7, <1>8, StopStep
<1>10. session' = [session EXCEPT ![s] = [pc |-> "idle", turn |-> session[s].turn, seen |-> 0]]
  <2>1. session' = [session EXCEPT ![s] = [session[s] EXCEPT !.pc = "idle", !.seen = 0]]
    BY DEF Finish
  <2>2. session[s] = [pc |-> session[s].pc, turn |-> session[s].turn, seen |-> session[s].seen]
    BY DEF TurnsInv, SessionInv, SessionStates
  <2>3. [session[s] EXCEPT !.pc = "idle", !.seen = 0] = [pc |-> "idle", turn |-> session[s].turn, seen |-> 0]
    BY <2>2, SessionFields
  <2> QED
    BY <2>1, <2>3
<1>11. SessionInv'
  BY <1>10, PauseStep
<1>12. ChoicesInv' /\ FilesInv' /\ LedgerInv'
  BY <1>8 DEF TurnsInv, ChoicesInv, FilesInv, LedgerInv, Charged
<1>13. CheckInv'
  <2>1. Used' = Used /\ \A r : OwnUse(r)' = OwnUse(r)
    BY <1>8 DEF Used, OwnUse
  <2>2. session'[s].pc = "idle" /\ \A r \in Sessions : r # s => session'[r] = session[r] /\ stop'[r] = stop[r]
    BY <1>5, <1>10 DEF TurnsInv, SessionInv, StopInv
  <2> QED
    BY <2>1, <2>2 DEF TurnsInv, CheckInv
<1> QED
  BY <1>9, <1>11, <1>12, <1>13 DEF TurnsInv

\* The last payload again: the hook starts over.
LEMMA RefireStep ==
  ASSUME TurnsInv, NEW s \in Sessions, Refire(s)
  PROVE  TurnsInv'
<1> DEFINE hook == [pc |-> "polling", payload |-> stop[s].payload, index |-> stop[s].index,
                    units |-> stop[s].units, fires |-> stop[s].fires + 1]
<1>1. stop' = [stop EXCEPT ![s] = hook]
  <2>1. stop' = [stop EXCEPT ![s] = [stop[s] EXCEPT !.pc = "polling", !.fires = @ + 1]]
    BY DEF Refire
  <2>2. StopRecord(stop[s])
    BY StopParts
  <2>3. [stop[s] EXCEPT !.pc = "polling", !.fires = @ + 1] = hook
    BY <2>2, StopAgain
  <2> QED
    BY <2>1, <2>3
<1>2. stop[s].fires + 1 \in 0..MaxFires
  BY StopParts, TurnsAssumption DEF Refire
<1>3. hook \in StopStates
  BY <1>2, StopParts DEF StopStates
<1>4. hook.pc = "polling" /\ hook.payload.turn > 0
  BY DEF Refire
<1> HIDE DEF hook
<1>5. session[s].pc # "checking" /\ UNCHANGED <<identity, signals, guaranteed, ledger, session, memory, file>>
  BY DEF Refire
<1>6. StopInv'
  BY <1>1, <1>3, <1>4, <1>5, StopStep
<1> QED
  BY <1>1, <1>3, <1>5, <1>6, HookStep

\* One look at the transcript: there is something to report, or nothing.
LEMMA PollStep ==
  ASSUME TurnsInv, NEW s \in Sessions, Poll(s)
  PROVE  TurnsInv'
<1>1. PICK i \in CurrentTurnUsage(file[s], stop[s].payload) :
        IF UnitsOf(file[s][i]) = 0 THEN Done(s) ELSE Reports(s, i)
  BY DEF Poll
<1>2. stop[s].pc = "polling" /\ UNCHANGED <<identity, signals, guaranteed, ledger, session, memory, file>>
  BY DEF Poll
<1>3. CASE UnitsOf(file[s][i]) = 0
  BY <1>1, <1>2, <1>3, DoneStep
<1>4. CASE UnitsOf(file[s][i]) # 0
  BY <1>1, <1>2, <1>4, ReportsStep
<1> QED
  BY <1>3, <1>4

\* What has been found is charged, if it is new and the units are there.
LEMMA ReportStep ==
  ASSUME TurnsInv, NEW s \in Sessions, Report(s)
  PROVE  TurnsInv'
<1> DEFINE key == Key(s, stop[s].payload, stop[s].index)
           units == stop[s].units
<1>1. /\ stop[s].pc = "reporting" /\ Done(s) /\ UNCHANGED <<identity, signals, guaranteed, session, memory, file>>
      /\ \/ ledger' = ledger
         \/ /\ key \notin DOMAIN ledger
            /\ ledger' = [k \in DOMAIN ledger \cup {key} |-> IF k = key THEN units ELSE ledger[k]]
  BY DEF Report
<1>2. units \in Nat \ {0}
  BY <1>1, StopParts DEF TurnsInv, StopInv
<1>3. PICK i \in UsageEntries(file[s]) : Found(file[s], i, stop[s])
  BY <1>1 DEF TurnsInv, StopInv
<1>4. stop[s].payload.turn \in 0..MaxTurns /\ stop[s].payload.turn > 0 /\ stop[s].index \in Nat
  BY <1>1, StopParts DEF TurnsInv, StopInv, Payload
<1>5. /\ key \in [session : Sessions, turn : 0..MaxTurns, index : Nat] /\ key.session = s
      /\ "prompt" \in signals => key.turn > 0 /\ key.index = 0
      /\ IF key.turn > 0 THEN file[s][i].turn = key.turn ELSE TurnIndex(file[s], i) = key.index
  <2>1. CASE "prompt" \in signals
    <3>1. key = [session |-> s, turn |-> stop[s].payload.turn, index |-> 0]
      BY <2>1 DEF Key
    <3>2. file[s][i].turn = stop[s].payload.turn
      BY <1>3, <2>1 DEF Found, Matches, PromptMatches
    <3> QED
      BY <1>4, <3>1, <3>2
  <2>2. CASE "prompt" \notin signals
    <3>1. key = [session |-> s, turn |-> 0, index |-> stop[s].index]
      BY <2>2 DEF Key
    <3>2. TurnIndex(file[s], i) = stop[s].index
      BY <1>3 DEF Found
    <3>3. 0 \in 0..MaxTurns
      BY TurnsAssumption
    <3> QED
      BY <1>4, <2>2, <3>1, <3>2, <3>3
  <2> QED
    BY <2>1, <2>2
<1>6. UnitsOf(file[s][i]) = units
  BY <1>3 DEF Found
<1> HIDE DEF key, units
<1>7. CASE ledger' = ledger
  BY <1>1, <1>7, DoneStep
<1>8. CASE /\ key \notin DOMAIN ledger
           /\ ledger' = [k \in DOMAIN ledger \cup {key} |-> IF k = key THEN units ELSE ledger[k]]
  <2>1. PICK hook \in StopStates : hook.pc = "none" /\ stop' = [stop EXCEPT ![s] = hook] /\ StopInv'
    BY <1>1, DoneHook
  <2>2. ChoicesInv' /\ SessionInv' /\ FilesInv'
    BY <1>1 DEF TurnsInv, ChoicesInv, SessionInv, Turns, FilesInv
  <2>3. /\ DOMAIN ledger' = DOMAIN ledger \cup {key} /\ ledger'[key] = units
        /\ \A k \in DOMAIN ledger : ledger'[k] = ledger[k]
        /\ ledger' = [k \in DOMAIN ledger' |-> ledger'[k]]
    BY <1>8
  <2>4. LedgerInv'
    <3>1. ledger \in [DOMAIN ledger -> Nat \ {0}] /\ IsFiniteSet(DOMAIN ledger)
      BY DEF TurnsInv, LedgerInv
    <3>2. ledger' \in [DOMAIN ledger' -> Nat \ {0}]
      BY <1>2, <2>3, <3>1
    <3>3. IsFiniteSet(DOMAIN ledger')
      BY <2>3, <3>1, FS_AddElement
    <3>4. DOMAIN ledger' \subseteq [session : Sessions, turn : 0..MaxTurns, index : Nat]
      BY <1>5, <2>3 DEF TurnsInv, LedgerInv
    <3>5. ASSUME NEW k \in DOMAIN ledger'
          PROVE  /\ \E j \in UsageEntries(file[k.session]) :
                      /\ IF k.turn > 0 THEN file[k.session][j].turn = k.turn
                                       ELSE TurnIndex(file[k.session], j) = k.index
                      /\ UnitsOf(file[k.session][j]) = ledger'[k]
                 /\ "prompt" \in signals => k.turn > 0 /\ k.index = 0
      <4>1. CASE k = key
        BY <1>3, <1>5, <1>6, <2>3, <4>1
      <4>2. CASE k # key
        <5>1. k \in DOMAIN ledger
          BY <2>3, <4>2
        <5> QED
          BY <2>3, <5>1 DEF TurnsInv, LedgerInv, Charged
      <4> QED
        BY <4>1, <4>2
    <3> QED
      BY <1>1, <3>2, <3>3, <3>4, <3>5 DEF LedgerInv, Charged
  <2>5. CheckInv'
    <3>1. Used =< Used' /\ \A r : r # s => OwnUse(r)' = OwnUse(r)
      BY <1>2, <1>5, <1>8, RecordAdds DEF TurnsInv
    <3>2. stop[s].pc # "none" /\ \A r \in Sessions : r # s => stop'[r] = stop[r]
      BY <1>1, <2>1 DEF TurnsInv, StopInv
    <3>3. Used \in Nat /\ Used' \in Nat
      <4>1. Used \in Nat
        BY UseType DEF TurnsInv
      <4>2. ledger' \in [DOMAIN ledger' -> Nat] /\ IsFiniteSet(DOMAIN ledger')
        BY <2>4 DEF LedgerInv
      <4> QED
        BY <4>1, <4>2, TotalOfType DEF Used
    <3>4. ASSUME NEW r \in Sessions, session[r].pc = "checking"
          PROVE  stop'[r].pc = "none" /\ OwnUse(r)' =< session[r].seen /\ session[r].seen =< Used'
      <4>1. r # s /\ stop[r].pc = "none" /\ OwnUse(r) =< session[r].seen /\ session[r].seen =< Used
        BY <3>2, <3>4 DEF TurnsInv, CheckInv
      <4>2. session[r].seen \in Nat
        BY DEF TurnsInv, SessionInv, SessionStates
      <4> QED
        BY <3>1, <3>2, <3>3, <4>1, <4>2
    <3> QED
      BY <1>1, <3>4 DEF CheckInv
  <2> QED
    BY <2>1, <2>2, <2>4, <2>5 DEF TurnsInv
<1> QED
  BY <1>1, <1>7, <1>8

-----------------------------------------------------------------------------
(* The invariant.                                                          *)

\* Before the first prompt.
LEMMA TurnsInit ==
  ASSUME Init
  PROVE  TurnsInv
<1>1. IsFiniteSet(Sessions) /\ MaxTurns \in Nat /\ MaxFires \in Nat
  BY TurnsAssumption
<1>2. session \in [Sessions -> SessionStates] /\ \A s \in Sessions : session[s].pc = "idle" /\ session[s].turn = 0
  BY <1>1 DEF Init, SessionStates
<1>3. Turns = 0
  <2>1. TurnCounts \in [Sessions -> Nat] /\ \A s \in Sessions : TurnCounts[s] = 0
    BY <1>2 DEF TurnCounts
  <2>2. TotalOf(TurnCounts) = 0
    BY <1>1, <2>1, TotalOfZeros
  <2>3. Checking = {}
    BY <1>2 DEF Checking
  <2>4. Cardinality(Checking) = 0
    BY <2>3, FS_EmptySet
  <2>5. Turns = TotalOf(TurnCounts) + Cardinality(Checking)
    BY DEF Turns, TurnCounts, Checking
  <2> QED
    BY <2>2, <2>4, <2>5
<1>4. SessionInv
  BY <1>1, <1>2, <1>3 DEF SessionInv
<1>5. ChoicesInv /\ FilesInv
  BY DEF Init, ChoicesInv, FilesInv
<1>6. StopInv
  <2>1. [turn |-> 0, text |-> NoText] \in Payload
    BY <1>1 DEF Payload
  <2>2. stop \in [Sessions -> StopStates] /\ \A s \in Sessions : stop[s].pc = "none"
    BY <1>1, <2>1 DEF Init, StopStates
  <2> QED
    BY <2>2 DEF StopInv
<1>7. LedgerInv
  <2>1. ledger = <<>> /\ DOMAIN ledger = {}
    BY DEF Init
  <2>2. IsFiniteSet(DOMAIN ledger)
    BY <2>1, FS_EmptySet
  <2>3. ledger \in [DOMAIN ledger -> Nat \ {0}]
    BY <2>1
  <2> QED
    BY <2>1, <2>2, <2>3 DEF LedgerInv
<1>8. CheckInv
  BY <1>2 DEF CheckInv
<1> QED
  BY <1>4, <1>5, <1>6, <1>7, <1>8 DEF TurnsInv

\* Every step keeps the invariant.
LEMMA TurnsStep ==
  ASSUME TurnsInv, [Next]_vars
  PROVE  TurnsInv'
<1>1. ASSUME NEW s \in Sessions, Submit(s) \/ Check(s) \/ CheckFails(s) \/ Continue(s) \/ Interrupt(s)
      PROVE  TurnsInv'
  BY <1>1, SessionSteps
<1>2. ASSUME NEW s \in Sessions, Respond(s) PROVE TurnsInv'
  BY <1>2, RespondStep
<1>3. ASSUME NEW s \in Sessions, Flush(s) PROVE TurnsInv'
  BY <1>3, FlushStep
<1>4. ASSUME NEW s \in Sessions, Finish(s) PROVE TurnsInv'
  BY <1>4, FinishStep
<1>5. ASSUME NEW s \in Sessions, Refire(s) PROVE TurnsInv'
  BY <1>5, RefireStep
<1>6. ASSUME NEW s \in Sessions, Poll(s) PROVE TurnsInv'
  BY <1>6, PollStep
<1>7. ASSUME NEW s \in Sessions, GiveUp(s) \/ StopFails(s) PROVE TurnsInv'
  BY <1>7, DoneStep DEF GiveUp, StopFails
<1>8. ASSUME NEW s \in Sessions, Report(s) PROVE TurnsInv'
  BY <1>8, ReportStep
<1>9. CASE Delegate
  <2>1. UNCHANGED <<identity, signals, ledger, session, memory, file, stop>> /\ guaranteed' \in Guarantees
    BY <1>9 DEF Delegate
  <2>2. ChoicesInv' /\ SessionInv' /\ FilesInv'
    BY <2>1 DEF TurnsInv, ChoicesInv, SessionInv, Turns, FilesInv
  <2>3. StopInv'
    BY <2>1 DEF TurnsInv, StopInv, Found, Matches, PromptMatches, MessageMatches
  <2>4. LedgerInv'
    BY <2>1 DEF TurnsInv, LedgerInv, Charged
  <2>5. CheckInv'
    BY <2>1 DEF TurnsInv, CheckInv, Used, OwnUse
  <2> QED
    BY <2>2, <2>3, <2>4, <2>5 DEF TurnsInv
<1>10. CASE UNCHANGED vars
  <2>1. UNCHANGED <<identity, signals, guaranteed, ledger, session, memory, file, stop>>
    BY <1>10 DEF vars
  <2>2. ChoicesInv' /\ SessionInv' /\ FilesInv'
    BY <2>1 DEF TurnsInv, ChoicesInv, SessionInv, Turns, FilesInv
  <2>3. StopInv'
    BY <2>1 DEF TurnsInv, StopInv, Found, Matches, PromptMatches, MessageMatches
  <2>4. LedgerInv'
    BY <2>1 DEF TurnsInv, LedgerInv, Charged
  <2>5. CheckInv'
    BY <2>1 DEF TurnsInv, CheckInv, Used, OwnUse
  <2> QED
    BY <2>2, <2>3, <2>4, <2>5 DEF TurnsInv
<1> QED
  BY <1>1, <1>2, <1>3, <1>4, <1>5, <1>6, <1>7, <1>8, <1>9, <1>10 DEF Next, Hook

\* The invariant holds at all times.
THEOREM TurnsInvariant == Spec => []TurnsInv
<1>1. Init => TurnsInv
  BY TurnsInit
<1>2. TurnsInv /\ [Next]_vars => TurnsInv'
  BY TurnsStep
<1> QED
  BY <1>1, <1>2, PTL DEF Spec

\* Every variable keeps its type, and no more turns run than there are.
THEOREM TypeCorrect == Spec => []TypeOK
<1>1. TurnsInv => TypeOK
  BY DEF TurnsInv, TypeOK, ChoicesInv, SessionInv, SessionStates, FilesInv, StopInv, StopStates, LedgerInv
<1> QED
  BY <1>1, TurnsInvariant, PTL

\* Every charge is the usage of one message of the turn its key stands for, and
\* with prompt ids a turn is charged once (metering.py, derive_idempotency_key).
THEOREM ChargesFit == Spec => []ChargesFitTurns
<1>1. ASSUME TurnsInv, NEW k \in DOMAIN ledger
      PROVE  \E i \in UsageEntries(file[k.session]) :
               LET e == file[k.session][i]
               IN /\ IF k.turn > 0 THEN e.turn = k.turn ELSE TurnIndex(file[k.session], i) = k.index
                  /\ UnitsOf(e) = ledger[k]
  BY <1>1 DEF TurnsInv, LedgerInv, Charged
<1>2. ASSUME TurnsInv, NEW k \in DOMAIN ledger, NEW other \in DOMAIN ledger, "prompt" \in signals,
             other.session = k.session, TurnOf(other) = TurnOf(k)
      PROVE  other = k
  <2>1. /\ k \in [session : Sessions, turn : 0..MaxTurns, index : Nat] /\ k.turn > 0 /\ k.index = 0
        /\ other \in [session : Sessions, turn : 0..MaxTurns, index : Nat] /\ other.turn > 0 /\ other.index = 0
    BY <1>2 DEF TurnsInv, LedgerInv
  <2>2. other.turn = k.turn
    BY <1>2, <2>1 DEF TurnOf
  <2> QED
    BY <1>2, <2>1, <2>2
<1>3. TurnsInv => ChargesFitTurns
  BY <1>1, <1>2 DEF ChargesFitTurns
<1> QED
  BY <1>3, TurnsInvariant, PTL

\* A check that comes to a decision blocks only what is spent, and lets through
\* only a session whose own reports have left something (hook.py, _run).
THEOREM CheckFits == Spec => CheckFitsUse
<1>1. ASSUME TurnsInv, NEW s \in Sessions, Check(s)
      PROVE  IF session'[s].pc = "idle" THEN Used >= guaranteed ELSE OwnUse(s) < guaranteed
  <2>1. /\ session[s].pc = "checking" /\ session \in [Sessions -> SessionStates]
        /\ session[s].seen \in Nat /\ OwnUse(s) =< session[s].seen /\ session[s].seen =< Used
    BY <1>1 DEF TurnsInv, CheckInv, SessionInv, SessionStates, Check
  <2>2. guaranteed \in Nat
    BY <1>1, TurnsAssumption DEF TurnsInv, ChoicesInv
  <2>3. Used \in Nat /\ OwnUse(s) \in Nat
    BY <1>1, UseType DEF TurnsInv
  <2>4. CASE Clamp(guaranteed - session[s].seen) = 0
    <3>1. guaranteed =< session[s].seen
      BY <2>1, <2>2, <2>4 DEF Clamp
    <3>2. session'[s].pc = "idle"
      BY <1>1, <2>1, <2>4 DEF Check, SessionStates
    <3> QED
      BY <2>1, <2>2, <2>3, <3>1, <3>2
  <2>5. CASE Clamp(guaranteed - session[s].seen) # 0
    <3>1. session[s].seen < guaranteed
      BY <2>1, <2>2, <2>5 DEF Clamp
    <3>2. session'[s].pc = "running"
      BY <1>1, <2>1, <2>5 DEF Check, Run, SessionStates
    <3> QED
      BY <2>1, <2>2, <2>3, <3>1, <3>2
  <2> QED
    BY <2>4, <2>5
<1>2. TurnsInv /\ [Next]_vars =>
        [\A s \in Sessions : Check(s) =>
           IF session'[s].pc = "idle" THEN Used >= guaranteed ELSE OwnUse(s) < guaranteed]_vars
  BY <1>1
<1> QED
  BY <1>2, TurnsInvariant, PTL DEF Spec, CheckFitsUse
=============================================================================
