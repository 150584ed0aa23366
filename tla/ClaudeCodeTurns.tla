-------------------------- MODULE ClaudeCodeTurns --------------------------
(***************************************************************************)
(* Claude Code sessions of one member on one machine, with the two hooks   *)
(* around every turn: hook.py checks the quota before a prompt runs,       *)
(* stop_hook.py with metering.py reads the turn's usage from the session's *)
(* transcript and reports it with consume().                               *)
(*                                                                         *)
(* Claude Code writes the transcript asynchronously, so the Stop hook      *)
(* polls a file that lags behind the turn; it may be killed at any moment  *)
(* and may be invoked again for a turn it has already handled.  consume()  *)
(* is one step (QuotaLedger has its detail); only the member's guaranteed  *)
(* units pay here, and capacity decisions move them at any time.           *)
(***************************************************************************)
EXTENDS Totals, Sequences

CONSTANTS
  Sessions,     \* the sessions open at the same time
  Messages,     \* assistant messages: a text, and a pair of input and output tokens
  NoText,       \* the text of a message that has none (tool use only)
  NoUsage,      \* in place of tokens: a sidechain entry, or one without usage
  Identities,   \* what the identity file may say: "none", "local" or "remote"
  SignalSets,   \* what a version of Claude Code tells the Stop hook of the turn
  Guarantees,   \* guaranteed units the member may hold
  MaxTurns,     \* bound: turns of all sessions
  MaxEntries,   \* bound: assistant messages of all sessions
  MaxFires      \* bound: repeated invocations of a session's Stop hook

ASSUME TurnsAssumption ==
  /\ \A m \in Messages : m.tokens = NoUsage \/ m.tokens \in Nat \X Nat
  /\ Identities \subseteq {"none", "local", "remote"}
  /\ SignalSets \subseteq (SUBSET {"prompt", "message"}) \ {{}}
  /\ Guarantees \subseteq Nat
  /\ IsFiniteSet(Sessions) /\ MaxTurns \in Nat /\ MaxFires \in Nat

VARIABLES
  identity,    \* whether and where this machine has joined a pool
  signals,     \* the identifying fields of a Stop payload
  guaranteed,  \* the member's guaranteed FIVE_HOUR units
  ledger,      \* idempotency key |-> units, on the ledger consume() reaches
  session,     \* per session: its turn, what it does, and the usage get_status() returned
  memory,      \* assistant entries Claude Code has not written yet
  file,        \* the transcript's assistant entries, in order
  stop         \* per session: the Stop hook process and the payload it was given

vars == <<identity, signals, guaranteed, ledger, session, memory, file, stop>>

-----------------------------------------------------------------------------
(* metering.py                                                             *)

Entry == { [turn |-> t, text |-> m.text, tokens |-> m.tokens] : t \in 1..MaxTurns, m \in Messages }

TokensToUnits(input, output) ==
  IF input = 0 /\ output = 0 THEN 0 ELSE
    LET weighted == (input * 1 + output * 5 + 999) \div 1000
    IN IF weighted > 1 THEN weighted ELSE 1

UnitsOf(e) == TokensToUnits(e.tokens[1], e.tokens[2])

\* The entries _parse_assistant_usage() accepts, by their places in the file.
UsageEntries(entries) == { i \in DOMAIN entries : entries[i].tokens # NoUsage }

\* turn_index: an accepted entry's number among them.
TurnIndex(entries, i) == Cardinality({ j \in UsageEntries(entries) : j =< i })

Newest(places) == { i \in places : \A j \in places : j =< i }

\* The chain of parents of an entry leads to its turn's prompt, whose own line
\* is written before.
PromptMatches(e, payload) == "prompt" \in signals => e.turn = payload.turn

\* A blank last_assistant_message is no signal.
MessageMatches(e, payload) == "message" \in signals /\ payload.text # NoText => e.text = payload.text

Matches(e, payload) == PromptMatches(e, payload) /\ MessageMatches(e, payload)

\* read_current_turn_usage(): the newest that matches, if one does.
CurrentTurnUsage(entries, payload) ==
  Newest({ i \in UsageEntries(entries) : Matches(entries[i], payload) })

\* Slip: always the fallback key, which another entry of the turn changes.
KeyOfEntry(s, payload, index) == [session |-> s, turn |-> 0, index |-> index]

\* derive_idempotency_key(): the prompt's id, or the session and the entry's index.
Key(s, payload, index) ==
  IF "prompt" \in signals THEN [session |-> s, turn |-> payload.turn, index |-> 0]
                          ELSE [session |-> s, turn |-> 0, index |-> index]

Used == TotalOf(ledger)

-----------------------------------------------------------------------------
Payload == [turn : 0..MaxTurns, text : {NoText} \cup { m.text : m \in Messages }]

TypeOK ==
  /\ identity \in Identities
  /\ signals \in SignalSets
  /\ guaranteed \in Guarantees
  /\ DOMAIN ledger \subseteq [session : Sessions, turn : 0..MaxTurns, index : Nat]
  /\ \A k \in DOMAIN ledger : ledger[k] \in Nat \ {0}
  /\ session \in [Sessions -> [pc : {"idle", "checking", "running"}, turn : 0..MaxTurns, seen : Nat]]
  /\ memory \in [Sessions -> Seq(Entry)] /\ file \in [Sessions -> Seq(Entry)]
  /\ stop \in [Sessions -> [pc : {"none", "polling", "reporting"}, payload : Payload,
                            index : Nat, units : Nat, fires : 0..MaxFires]]

Init ==
  /\ identity \in Identities
  /\ signals \in SignalSets
  /\ guaranteed \in Guarantees
  /\ ledger = <<>>
  /\ session = [s \in Sessions |-> [pc |-> "idle", turn |-> 0, seen |-> 0]]
  /\ memory = [s \in Sessions |-> <<>>] /\ file = [s \in Sessions |-> <<>>]
  /\ stop = [s \in Sessions |-> [pc |-> "none", payload |-> [turn |-> 0, text |-> NoText],
                                 index |-> 0, units |-> 0, fires |-> 0]]

\* Prompts that run or are being checked.
Turns ==
  TotalOf([s \in Sessions |-> session[s].turn]) + Cardinality({ s \in Sessions : session[s].pc = "checking" })

Run(s) == session' = [session EXCEPT ![s].pc = "running", ![s].turn = @ + 1]

\* A prompt is submitted; Claude Code has waited for the Stop hook of the last
\* turn.  hook.py reads the member's usage from the local database, whichever
\* ledger the identity reports to.  With a remote identity the member is
\* unknown there, and the hook fails open.
Submit(s) ==
  /\ session[s].pc = "idle" /\ Turns < MaxTurns
  /\ stop[s].pc = "none"
  /\ IF identity = "local"
       THEN session' = [session EXCEPT ![s].pc = "checking", ![s].seen = Used]
       ELSE Run(s)
  /\ UNCHANGED <<identity, signals, guaranteed, ledger, memory, file, stop>>

\* Slip: the guaranteed units left, not rounded up to zero, are compared with -1.
CheckTooLate(s) ==
  /\ session[s].pc = "checking"
  /\ IF guaranteed - session[s].seen < 0
       THEN session' = [session EXCEPT ![s].pc = "idle"]
       ELSE Run(s)
  /\ UNCHANGED <<identity, signals, guaranteed, ledger, memory, file, stop>>

\* The second read, the effective capacity, and the decision: exit 2 or 0.
Check(s) ==
  /\ session[s].pc = "checking"
  /\ IF Clamp(guaranteed - session[s].seen) = 0
       THEN session' = [session EXCEPT ![s].pc = "idle"]
       ELSE Run(s)
  /\ UNCHANGED <<identity, signals, guaranteed, ledger, memory, file, stop>>

\* Any error in the hook, or its death, lets the prompt through.
CheckFails(s) ==
  /\ session[s].pc = "checking"
  /\ Run(s)
  /\ UNCHANGED <<identity, signals, guaranteed, ledger, memory, file, stop>>

\* What Claude has said in the turn, written or not.
Said(s) == file[s] \o memory[s]
EntriesOfTurn(s) == { i \in DOMAIN Said(s) : Said(s)[i].turn = session[s].turn }

\* Claude answers, in one message or in several around its use of tools.
Respond(s) ==
  /\ session[s].pc = "running"
  /\ TotalOf([r \in Sessions |-> Len(Said(r))]) < MaxEntries
  /\ \E m \in Messages :
       memory' = [memory EXCEPT ![s] =
                    Append(@, [turn |-> session[s].turn, text |-> m.text, tokens |-> m.tokens])]
  /\ UNCHANGED <<identity, signals, guaranteed, ledger, session, file, stop>>

\* A line of the transcript is complete; before that it does not parse.
Flush(s) ==
  /\ memory[s] # <<>>
  /\ file' = [file EXCEPT ![s] = Append(@, Head(memory[s]))]
  /\ memory' = [memory EXCEPT ![s] = Tail(@)]
  /\ UNCHANGED <<identity, signals, guaranteed, ledger, session, stop>>

\* The turn ends and Stop fires.  Without an identity or a signal the hook is
\* done at once.
Finish(s) ==
  /\ session[s].pc = "running"
  /\ session' = [session EXCEPT ![s].pc = "idle", ![s].seen = 0]
  /\ \E i \in Newest(EntriesOfTurn(s)) :
       LET last == Said(s)[i].text
           starts == identity # "none" /\ ("prompt" \in signals \/ last # NoText)
       IN stop' = [stop EXCEPT ![s].pc = IF starts THEN "polling" ELSE "none",
                               ![s].payload = [turn |-> session[s].turn, text |-> last]]
  /\ UNCHANGED <<identity, signals, guaranteed, ledger, memory, file>>

\* Another Stop hook blocks the stop: the turn goes on, and Stop fires again.
Continue(s) ==
  /\ session[s].pc = "idle" /\ stop[s].pc = "none"
  /\ session[s].turn > 0 /\ stop[s].payload.turn = session[s].turn
  /\ session' = [session EXCEPT ![s].pc = "running"]
  /\ UNCHANGED <<identity, signals, guaranteed, ledger, memory, file, stop>>

\* The user interrupts the turn: no Stop.
Interrupt(s) ==
  /\ session[s].pc = "running"
  /\ session' = [session EXCEPT ![s].pc = "idle", ![s].seen = 0]
  /\ UNCHANGED <<identity, signals, guaranteed, ledger, memory, file, stop>>

\* The last payload is delivered again: a replay of the session, or of the hook.
Refire(s) ==
  /\ session[s].pc = "idle" /\ stop[s].pc = "none"
  /\ identity # "none" /\ stop[s].payload.turn > 0
  /\ "prompt" \in signals \/ stop[s].payload.text # NoText
  /\ stop[s].fires < MaxFires
  /\ stop' = [stop EXCEPT ![s].pc = "polling", ![s].fires = @ + 1]
  /\ UNCHANGED <<identity, signals, guaranteed, ledger, session, memory, file>>

Done(s) == stop' = [stop EXCEPT ![s].pc = "none", ![s].index = 0, ![s].units = 0]

\* It goes on to report the i-th entry of the file.
Reports(s, i) ==
  stop' = [stop EXCEPT ![s].pc = "reporting", ![s].index = TurnIndex(file[s], i), ![s].units = UnitsOf(file[s][i])]

\* Slip: a turn without tokens is reported too.
PollReportsNothing(s) ==
  /\ stop[s].pc = "polling"
  /\ \E i \in CurrentTurnUsage(file[s], stop[s].payload) : Reports(s, i)
  /\ UNCHANGED <<identity, signals, guaranteed, ledger, session, memory, file>>

\* One look at the transcript that finds the turn's usage.
Poll(s) ==
  /\ stop[s].pc = "polling"
  /\ \E i \in CurrentTurnUsage(file[s], stop[s].payload) :
       IF UnitsOf(file[s][i]) = 0 THEN Done(s) ELSE Reports(s, i)
  /\ UNCHANGED <<identity, signals, guaranteed, ledger, session, memory, file>>

\* Slip: the deadline is looked at only if there are entries at all.
GiveUpLate(s) ==
  /\ stop[s].pc = "polling" /\ file[s] # <<>>
  /\ CurrentTurnUsage(file[s], stop[s].payload) = {}
  /\ Done(s)
  /\ UNCHANGED <<identity, signals, guaranteed, ledger, session, memory, file>>

\* The deadline has passed, and the last look found nothing either.
GiveUp(s) ==
  /\ stop[s].pc = "polling"
  /\ CurrentTurnUsage(file[s], stop[s].payload) = {}
  /\ Done(s)
  /\ UNCHANGED <<identity, signals, guaranteed, ledger, session, memory, file>>

\* consume(): a known key is answered from the record or is a conflict; a new
\* one is recorded if the units are there.  The hook ignores the answer.
Report(s) ==
  LET key == Key(s, stop[s].payload, stop[s].index)
      admitted == key \notin DOMAIN ledger /\ stop[s].units =< Clamp(guaranteed - Used)
  IN /\ stop[s].pc = "reporting"
     /\ ledger' = IF admitted
                    THEN [k \in DOMAIN ledger \cup {key} |-> IF k = key THEN stop[s].units ELSE ledger[k]]
                    ELSE ledger
     /\ Done(s)
     /\ UNCHANGED <<identity, signals, guaranteed, session, memory, file>>

\* The hook is killed, or an error ends it, before its call has an effect.
StopFails(s) ==
  /\ stop[s].pc \in {"polling", "reporting"}
  /\ Done(s)
  /\ UNCHANGED <<identity, signals, guaranteed, ledger, session, memory, file>>

\* A SOLID grant to or from the member is approved, revoked or expires.
Delegate ==
  /\ guaranteed' \in Guarantees
  /\ UNCHANGED <<identity, signals, ledger, session, memory, file, stop>>

Hook(s) == Check(s) \/ CheckFails(s) \/ Poll(s) \/ GiveUp(s) \/ Report(s) \/ StopFails(s)

Next ==
  \/ \E s \in Sessions : Submit(s) \/ Respond(s) \/ Flush(s) \/ Finish(s) \/ Continue(s)
                          \/ Interrupt(s) \/ Refire(s) \/ Hook(s)
  \/ Delegate

\* A hook process goes on until it exits; nothing else need ever happen.
Spec ==
  /\ Init /\ [][Next]_vars
  /\ \A s \in Sessions :
       WF_vars(Check(s)) /\ WF_vars(Poll(s)) /\ WF_vars(GiveUp(s)) /\ WF_vars(Report(s))

-----------------------------------------------------------------------------
\* The turn a key stands for: that of its prompt, or of the entry it has the index of.
TurnOf(k) ==
  IF k.turn > 0 THEN k.turn
  ELSE file[k.session][CHOOSE i \in UsageEntries(file[k.session]) : TurnIndex(file[k.session], i) = k.index].turn

\* Every record is the usage of one message of the turn its key stands for, and
\* with prompt ids a turn has one record, however often its Stop hook is invoked,
\* whatever it finds in the transcript and wherever it is killed (metering.py,
\* derive_idempotency_key and read_current_turn_usage).
ChargesFitTurns ==
  \A k \in DOMAIN ledger :
    /\ \E i \in UsageEntries(file[k.session]) :
         LET e == file[k.session][i]
         IN /\ IF k.turn > 0 THEN e.turn = k.turn ELSE TurnIndex(file[k.session], i) = k.index
            /\ UnitsOf(e) = ledger[k]
    /\ "prompt" \in signals =>
         \A other \in DOMAIN ledger :
           other.session = k.session /\ TurnOf(other) = TurnOf(k) => other = k

OwnUse(s) == TotalOf([k \in { r \in DOMAIN ledger : r.session = s } |-> ledger[k]])

\* A check that comes to a decision blocks only if the guaranteed units are used
\* up at its second read, although its first read is older; and it passes only
\* if the session's own reports have left some (hook.py, _run).
CheckFitsUse ==
  [][\A s \in Sessions : Check(s) =>
       IF session'[s].pc = "idle" THEN Used >= guaranteed ELSE OwnUse(s) < guaranteed]_vars

\* A Stop hook ends, whether or not its turn ever reaches the transcript
\* (metering.py, wait_for_current_turn_usage).
StopHookEnds == \A s \in Sessions : stop[s].pc # "none" ~> stop[s].pc = "none"

\* What docs/architecture.md says of the check: a prompt that runs had guaranteed
\* units left on the ledger its turn is reported to, unless the check failed.
BlocksWhenSpent ==
  [][\A s \in Sessions :
       session[s].pc # "running" /\ session'[s].turn = session[s].turn + 1 /\ identity # "none"
         => OwnUse(s) < guaranteed \/ CheckFails(s)]_vars
=============================================================================
