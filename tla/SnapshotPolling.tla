--------------------------- MODULE SnapshotPolling ---------------------------
(***************************************************************************)
(* Where the browser extension's snapshots come from: the service worker   *)
(* background.ts with api.ts and quota.ts, for one claude.ai page, one     *)
(* member and the popup.                                                   *)
(*                                                                         *)
(* pollQuota() is started by the alarm, by the popup, by a page that finds *)
(* nothing cached and by every start of the worker; nothing keeps two      *)
(* calls from overlapping.  Each is a chain of awaited steps, and the      *)
(* browser may end the worker between any two of them.  chrome.storage     *)
(* outlives the worker.  What the page does with a snapshot is module      *)
(* ContentScript; here the page only remembers the last one it was given.  *)
(***************************************************************************)
EXTENDS Integers

CONSTANTS
  Polls,      \* the calls of pollQuota() that may overlap
  MaxUnits,   \* bound: units a member may own or use
  MaxFaults   \* bound: how often the worker is ended in the middle of its work, or a
              \* storage or tab call of its fails

ASSUME PollingAssumption == MaxUnits \in Nat \ {0} /\ MaxFaults \in Nat

VARIABLES
  used, guaranteed,   \* the server: the member's units in the five-hour window
  online,             \* requests reach the server and are answered without an error
  configured,         \* storage: claudeShareConfig is complete
  stored,             \* storage: claudeShareLastSnapshot
  awake, faults,      \* the worker runs; how often it was ended at work or failed
  polls,              \* the calls of pollQuota()
  shown,              \* the page: the last snapshot given to it
  answer              \* the page: how far its get-quota request has come

server == <<used, guaranteed, online>>
worker == <<awake, faults>>
page   == <<shown, answer>>
vars   == <<server, configured, stored, worker, polls, page>>

Snapshots == {"ok", "exhausted", "error"}

\* A call not under way; at: the await it stands at; seen: used units of the
\* status response; rolled: the window has ended since; asked: the page waits for it.
Idle == [at |-> "idle", seen |-> 0, rolled |-> FALSE, snap |-> "error", asked |-> FALSE]

Calls == [at : {"idle", "config", "status", "capacity", "save", "save_only", "broadcast", "respond"},
          seen : 0..MaxUnits, rolled : BOOLEAN, snap : Snapshots, asked : BOOLEAN]

TypeOK ==
  /\ used \in 0..MaxUnits /\ guaranteed \in 0..MaxUnits
  /\ online \in BOOLEAN /\ configured \in BOOLEAN /\ awake \in BOOLEAN
  /\ stored \in Snapshots \cup {"none"}
  /\ faults \in 0..MaxFaults
  /\ polls \in [Polls -> Calls]
  /\ shown \in Snapshots \cup {"none"}
  /\ answer \in Snapshots \cup {"none", "asked", "polled"}
  /\ ~awake => \A p \in Polls : polls[p] = Idle
  /\ (\E p \in Polls : polls[p].asked) <=> answer = "polled"

\* Slip: the last prompt the member can pay for is refused.
DecisionEarly(units, use) == IF units - use <= 1 THEN "exhausted" ELSE "ok"

\* computeQuotaDecision(): a prompt costs one unit; a warning is not told from "ok".
Decision(units, use) == IF units - use < 1 THEN "exhausted" ELSE "ok"

Started(p, asked) == polls' = [polls EXCEPT ![p] = [Idle EXCEPT !.at = "config", !.asked = asked]]

Free(p) == awake /\ polls[p] = Idle

\* The first poll is the worker's own, when the extension is installed.
Init ==
  /\ used = 0 /\ guaranteed \in 1..MaxUnits /\ online = TRUE
  /\ configured = FALSE /\ stored = "none"
  /\ awake = FALSE /\ faults = 0
  /\ polls = [p \in Polls |-> Idle]
  /\ shown = "none" /\ answer = "none"
-----------------------------------------------------------------------------
(* The server.                                                             *)

\* Use is recorded, lending moves the guarantee, connections come and go.
Serve ==
  /\ \/ /\ used' \in used..MaxUnits
        /\ UNCHANGED <<guaranteed, online>>
     \/ /\ guaranteed' \in 0..MaxUnits
        /\ UNCHANGED <<used, online>>
     \/ /\ online' = ~online
        /\ UNCHANGED <<used, guaranteed>>
  /\ UNCHANGED <<configured, stored, worker, polls, page>>

\* The window ends: use starts again at zero.
Roll ==
  /\ used' = 0
  /\ polls' = [p \in Polls |-> [polls[p] EXCEPT !.rolled = @ \/ polls[p].at = "capacity"]]
  /\ UNCHANGED <<guaranteed, online, configured, stored, worker, page>>
-----------------------------------------------------------------------------
(* What starts a poll.                                                     *)

\* Any event wakes the worker, whose script ends with a poll of its own.
Wake(p) ==
  /\ ~awake
  /\ awake' = TRUE
  /\ Started(p, FALSE)
  /\ UNCHANGED <<server, configured, stored, faults, page>>

\* Slip: the alarm is content with a cached snapshot, as get-quota is.
AlarmIfNothingStored(p) ==
  /\ Free(p) /\ stored = "none"
  /\ Started(p, FALSE)
  /\ UNCHANGED <<server, configured, stored, worker, page>>

\* onAlarm, once a minute.
Alarm(p) ==
  /\ Free(p)
  /\ Started(p, FALSE)
  /\ UNCHANGED <<server, configured, stored, worker, page>>

\* The popup: "refresh-quota", on opening it, from its button and after saving a
\* configuration, which stays complete from then on.
Refresh(p) ==
  /\ Free(p)
  /\ configured' \in {configured, TRUE}
  /\ Started(p, FALSE)
  /\ UNCHANGED <<server, stored, worker, page>>

\* Slip: no return after the cached snapshot was sent.
GetQuotaBoth(p) ==
  /\ Free(p) /\ answer = "asked"
  /\ answer' = IF stored = "none" THEN "polled" ELSE stored
  /\ Started(p, TRUE)
  /\ UNCHANGED <<server, configured, stored, worker, shown>>

\* "get-quota": the cached snapshot, or a poll when there is none.
GetQuota(p) ==
  /\ answer = "asked"
  /\ \/ awake /\ stored # "none" /\ answer' = stored /\ UNCHANGED polls
     \/ Free(p) /\ stored = "none" /\ answer' = "polled" /\ Started(p, TRUE)
  /\ UNCHANGED <<server, configured, stored, worker, shown>>
-----------------------------------------------------------------------------
(* pollQuota().                                                            *)

GoesOn(p, at, snap) ==
  polls' = [polls EXCEPT ![p] = [Idle EXCEPT !.at = at, !.snap = snap, !.asked = polls[p].asked]]

\* loadConfig(): without one the poll ends with an error that is not broadcast.
LoadConfig(p) ==
  /\ polls[p].at = "config"
  /\ IF configured THEN GoesOn(p, "status", "error") ELSE GoesOn(p, "save_only", "error")
  /\ UNCHANGED <<server, configured, stored, worker, page>>

\* fetchQuotaSnapshot(), first request: GET /members/{id}/status.
FetchStatus(p) ==
  /\ polls[p].at = "status" /\ online
  /\ polls' = [polls EXCEPT ![p].at = "capacity", ![p].seen = used]
  /\ UNCHANGED <<server, configured, stored, worker, page>>

\* Second request: GET /members/{id}/capacity, and the decision from both.
FetchCapacity(p) ==
  /\ polls[p].at = "capacity" /\ online
  /\ GoesOn(p, "save", Decision(guaranteed, polls[p].seen))
  /\ UNCHANGED <<server, configured, stored, worker, page>>

\* Either request fails, or gets an error for an answer: pollQuota() makes it an
\* error snapshot.
FetchFails(p) ==
  /\ polls[p].at \in {"status", "capacity"} /\ ~online
  /\ GoesOn(p, "save", "error")
  /\ UNCHANGED <<server, configured, stored, worker, page>>

\* saveSnapshot().
Save(p) ==
  /\ polls[p].at \in {"save", "save_only"}
  /\ stored' = polls[p].snap
  /\ GoesOn(p, IF polls[p].at = "save" THEN "broadcast" ELSE "respond", polls[p].snap)
  /\ UNCHANGED <<server, configured, worker, page>>

\* broadcastSnapshot(), and applySnapshot() in the page.
Broadcast(p) ==
  /\ polls[p].at = "broadcast"
  /\ shown' = polls[p].snap
  /\ GoesOn(p, "respond", polls[p].snap)
  /\ UNCHANGED <<server, configured, stored, worker, answer>>

\* The call returns; its snapshot goes to the page if that is who asked.
Respond(p) ==
  /\ polls[p].at = "respond"
  /\ answer' = IF polls[p].asked THEN polls[p].snap ELSE answer
  /\ polls' = [polls EXCEPT ![p] = Idle]
  /\ UNCHANGED <<server, configured, stored, worker, shown>>

\* A storage or tab call fails: inside the try block the error becomes a snapshot of
\* its own, elsewhere the call is rejected and whoever asked gets no answer.
BrowserFails(p) ==
  /\ polls[p].at \in {"config", "save", "save_only", "broadcast"}
  /\ faults < MaxFaults /\ faults' = faults + 1
  /\ IF polls[p].snap # "error" THEN GoesOn(p, "save", "error") /\ UNCHANGED answer
     ELSE /\ polls' = [polls EXCEPT ![p] = Idle]
          /\ answer' = IF polls[p].asked THEN "none" ELSE answer
  /\ UNCHANGED <<server, configured, stored, awake, shown>>

PollStep(p) ==
  \/ LoadConfig(p) \/ FetchStatus(p) \/ FetchCapacity(p) \/ FetchFails(p)
  \/ Save(p) \/ Broadcast(p) \/ Respond(p)
-----------------------------------------------------------------------------
(* The page and the browser.                                               *)

\* A claude.ai page is loaded: its script knows nothing yet and asks.  A poll that
\* still works for the page it replaces answers nobody.
LoadPage ==
  /\ shown' = "none" /\ answer' = "asked"
  /\ polls' = [p \in Polls |-> [polls[p] EXCEPT !.asked = FALSE]]
  /\ UNCHANGED <<server, configured, stored, worker>>

\* The answer to get-quota is applied, at any moment after it was sent.
ReceiveAnswer ==
  /\ answer \in Snapshots
  /\ shown' = answer /\ answer' = "none"
  /\ UNCHANGED <<server, configured, stored, worker, polls>>

\* The browser ends the worker, idle or at work.  A request it still owed an
\* answer fails with lastError, which the page ignores.
EndWorker ==
  /\ awake
  /\ awake' = FALSE
  /\ faults' = IF \A p \in Polls : polls[p] = Idle THEN faults ELSE faults + 1
  /\ faults' <= MaxFaults
  /\ polls' = [p \in Polls |-> Idle]
  /\ answer' = IF answer = "polled" THEN "none" ELSE answer
  /\ UNCHANGED <<server, configured, stored, shown>>

Next ==
  \/ Serve \/ Roll
  \/ \E p \in Polls : \/ Wake(p) \/ Alarm(p) \/ Refresh(p) \/ GetQuota(p)
                      \/ PollStep(p) \/ BrowserFails(p)
  \/ LoadPage \/ ReceiveAnswer \/ EndWorker

\* The alarm goes off again and again, waking the worker when it must; fetches and
\* storage calls end; messages arrive.  Nothing is assumed of the server's numbers,
\* of the user, or of when the worker is ended.
Fairness ==
  /\ WF_vars(\E p \in Polls : Wake(p))
  /\ WF_vars(\E p \in Polls : Alarm(p))
  /\ \A p \in Polls : WF_vars(PollStep(p))
  /\ WF_vars(\E p \in Polls : GetQuota(p))
  /\ WF_vars(ReceiveAnswer)

Spec == Init /\ [][Next]_vars /\ Fairness
-----------------------------------------------------------------------------
(* Correctness.                                                            *)

Spent == guaranteed - used < 1

\* fetchQuotaSnapshot() puts two responses of two moments together and may so miss
\* that units have just run out, but never claims it wrongly: if it says exhausted,
\* the member has nothing left when the second response is made, whatever was used
\* and lent meanwhile, unless the window ended between the two.
NoFalseExhaustion ==
  [][\A p \in Polls :
       polls[p].at = "capacity" /\ polls'[p].snap = "exhausted" => Spent \/ polls[p].rolled]_vars

\* Overlapping polls, a cached answer that comes late and a worker that is ended
\* may show the page an old snapshot, but not for good: once the member's
\* situation stays as it is, no page, reloaded or not, goes on showing another.
PageFollowsServer ==
  <>[][FALSE]_server /\ <>[](configured /\ online) =>
    <>[](shown \in {"none", Decision(guaranteed, used)})
=============================================================================
