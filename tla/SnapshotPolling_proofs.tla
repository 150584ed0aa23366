----------------------- MODULE SnapshotPolling_proofs -----------------------
(***************************************************************************)
(* What the service worker may tell the page, for any number of            *)
(* overlapping polls, units and worker deaths.                             *)
(***************************************************************************)
EXTENDS SnapshotPolling, TLAPS

\* Until the second response is there a call has no verdict, and what it has
\* read of the use is not more than the use by now, unless the window ended.
Sound(c, use) ==
  /\ c \in Calls
  /\ c.at \in {"config", "status", "capacity"} => c.snap = "error"
  /\ c.at = "capacity" => c.rolled \/ c.seen =< use

\* The page waits for one call at most.
PollingInv ==
  /\ TypeOK
  /\ \A p \in Polls : Sound(polls[p], used)
  /\ \A p, q \in Polls : polls[p].asked /\ polls[q].asked => p = q

-----------------------------------------------------------------------------
(* Calls.                                                                  *)

\* A call is the record of its parts.
CallRecord(c) == c = [at |-> c.at, seen |-> c.seen, rolled |-> c.rolled, snap |-> c.snap, asked |-> c.asked]

\* Every call is.
LEMMA CallParts ==
  ASSUME NEW c \in Calls
  PROVE  CallRecord(c)
BY DEF Calls, CallRecord

\* Nothing is at work, and nobody waits for it.
LEMMA IdleSound ==
  /\ Idle \in Calls /\ \A use \in Nat : Sound(Idle, use)
  /\ ~Idle.asked /\ Idle.at = "idle" /\ Idle.snap = "error" /\ Idle.rolled = FALSE /\ Idle.seen = 0
BY PollingAssumption DEF Idle, Calls, Snapshots, Sound

\* A call that begins.
LEMMA BegunCall ==
  ASSUME NEW c, CallRecord(c), NEW at, NEW asked
  PROVE  [c EXCEPT !.at = at, !.asked = asked]
           = [at |-> at, seen |-> c.seen, rolled |-> c.rolled, snap |-> c.snap, asked |-> asked]
<1> DEFINE there == [c EXCEPT !.at = at]
<1>1. there = [at |-> at, seen |-> c.seen, rolled |-> c.rolled, snap |-> c.snap, asked |-> c.asked]
  BY DEF CallRecord
<1>2. [c EXCEPT !.at = at, !.asked = asked] = [there EXCEPT !.asked = asked]
  OBVIOUS
<1> HIDE DEF there
<1>3. [there EXCEPT !.asked = asked]
        = [at |-> at, seen |-> c.seen, rolled |-> c.rolled, snap |-> c.snap, asked |-> asked]
  BY <1>1
<1> QED
  BY <1>2, <1>3

\* A call that has its first response.
LEMMA ReadCall ==
  ASSUME NEW c, CallRecord(c), NEW at, NEW seen
  PROVE  [c EXCEPT !.at = at, !.seen = seen]
           = [at |-> at, seen |-> seen, rolled |-> c.rolled, snap |-> c.snap, asked |-> c.asked]
<1> DEFINE there == [c EXCEPT !.at = at]
<1>1. there = [at |-> at, seen |-> c.seen, rolled |-> c.rolled, snap |-> c.snap, asked |-> c.asked]
  BY DEF CallRecord
<1>2. [c EXCEPT !.at = at, !.seen = seen] = [there EXCEPT !.seen = seen]
  OBVIOUS
<1> HIDE DEF there
<1>3. [there EXCEPT !.seen = seen]
        = [at |-> at, seen |-> seen, rolled |-> c.rolled, snap |-> c.snap, asked |-> c.asked]
  BY <1>1
<1> QED
  BY <1>2, <1>3

\* A window that ends is noted in a call, a page that goes is forgotten by it.
LEMMA MarkedCall ==
  ASSUME NEW c, CallRecord(c), NEW rolled
  PROVE  [c EXCEPT !.rolled = rolled]
           = [at |-> c.at, seen |-> c.seen, rolled |-> rolled, snap |-> c.snap, asked |-> c.asked]
BY DEF CallRecord

\* See MarkedCall.
LEMMA ForgottenCall ==
  ASSUME NEW c, CallRecord(c), NEW asked
  PROVE  [c EXCEPT !.asked = asked]
           = [at |-> c.at, seen |-> c.seen, rolled |-> c.rolled, snap |-> c.snap, asked |-> asked]
BY DEF CallRecord

-----------------------------------------------------------------------------
(* The steps of one call.                                                  *)

\* One call goes on, for the page only if nobody else works for it.
LEMMA CallStep ==
  ASSUME PollingInv, NEW p \in Polls, NEW c, polls' = [polls EXCEPT ![p] = c], Sound(c, used), UNCHANGED used,
         c.asked => polls[p].asked \/ answer # "polled"
  PROVE  /\ polls' \in [Polls -> Calls]
         /\ \A q \in Polls : Sound(polls'[q], used')
         /\ \A q, r \in Polls : polls'[q].asked /\ polls'[r].asked => q = r
         /\ (\E q \in Polls : polls'[q].asked) <=> (IF polls[p].asked THEN c.asked ELSE c.asked \/ answer = "polled")
<1>1. /\ polls \in [Polls -> Calls] /\ c \in Calls
      /\ (\E q \in Polls : polls[q].asked) <=> answer = "polled"
      /\ \A q \in Polls : Sound(polls[q], used)
      /\ \A q, r \in Polls : polls[q].asked /\ polls[r].asked => q = r
  BY DEF PollingInv, TypeOK, Sound
<1>2. /\ polls' \in [Polls -> Calls] /\ polls'[p] = c
      /\ \A q \in Polls : q # p => polls'[q] = polls[q]
  BY <1>1
<1>3. \A q \in Polls : Sound(polls'[q], used')
  BY <1>1, <1>2
<1>4. \A q, r \in Polls : polls'[q].asked /\ polls'[r].asked => q = r
  BY <1>1, <1>2
<1>5. (\E q \in Polls : polls'[q].asked) <=> (IF polls[p].asked THEN c.asked ELSE c.asked \/ answer = "polled")
  BY <1>1, <1>2
<1> QED
  BY <1>2, <1>3, <1>4, <1>5

\* A call that begins leaves nothing of the one before.
LEMMA IdleBegins ==
  ASSUME NEW at, NEW asked
  PROVE  [Idle EXCEPT !.at = at, !.asked = asked]
           = [at |-> at, seen |-> Idle.seen, rolled |-> Idle.rolled, snap |-> Idle.snap, asked |-> asked]
<1>1. CallRecord(Idle)
  BY IdleSound, CallParts
<1> QED
  BY <1>1, BegunCall

\* So does one that goes on, but for its verdict.
LEMMA IdleGoesOn ==
  ASSUME NEW at, NEW snap, NEW asked
  PROVE  [Idle EXCEPT !.at = at, !.snap = snap, !.asked = asked]
           = [at |-> at, seen |-> Idle.seen, rolled |-> Idle.rolled, snap |-> snap, asked |-> asked]
<1> DEFINE there == [Idle EXCEPT !.at = at]
           later == [there EXCEPT !.snap = snap]
<1>1. CallRecord(Idle)
  BY IdleSound, CallParts
<1>2. there = [at |-> at, seen |-> Idle.seen, rolled |-> Idle.rolled, snap |-> Idle.snap, asked |-> Idle.asked]
  BY <1>1 DEF CallRecord
<1>3. [Idle EXCEPT !.at = at, !.snap = snap, !.asked = asked] = [later EXCEPT !.asked = asked]
  OBVIOUS
<1> HIDE DEF there
<1>4. later = [at |-> at, seen |-> Idle.seen, rolled |-> Idle.rolled, snap |-> snap, asked |-> Idle.asked]
  BY <1>2
<1> HIDE DEF later
<1>5. [later EXCEPT !.asked = asked]
        = [at |-> at, seen |-> Idle.seen, rolled |-> Idle.rolled, snap |-> snap, asked |-> asked]
  BY <1>4
<1> QED
  BY <1>3, <1>5

\* A call begins: the page waits for it if it has asked and nobody works for it.
LEMMA StartStep ==
  ASSUME PollingInv, NEW p \in Polls, NEW asked \in BOOLEAN, polls[p] = Idle, Started(p, asked), UNCHANGED used,
         asked => answer # "polled"
  PROVE  /\ polls' \in [Polls -> Calls]
         /\ \A q \in Polls : Sound(polls'[q], used')
         /\ \A q, r \in Polls : polls'[q].asked /\ polls'[r].asked => q = r
         /\ (\E q \in Polls : polls'[q].asked) <=> (asked \/ answer = "polled")
<1> DEFINE c == [at |-> "config", seen |-> Idle.seen, rolled |-> Idle.rolled, snap |-> Idle.snap, asked |-> asked]
<1>1. polls' = [polls EXCEPT ![p] = c]
  <2>1. polls' = [polls EXCEPT ![p] = [Idle EXCEPT !.at = "config", !.asked = asked]]
    BY DEF Started
  <2>2. [Idle EXCEPT !.at = "config", !.asked = asked] = c
    BY IdleBegins, ZenonT(30)
  <2> QED
    BY <2>1, <2>2
<1>2. c.asked = asked /\ Sound(c, used)
  BY IdleSound DEF Sound, Calls
<1> HIDE DEF c
<1>3. ~polls[p].asked
  BY IdleSound
<1> QED
  BY <1>1, <1>2, <1>3, CallStep

\* A call goes on with a verdict that fits.
LEMMA GoesOnStep ==
  ASSUME PollingInv, NEW p \in Polls, NEW at \in {"status", "save", "save_only", "broadcast", "respond"},
         NEW snap \in Snapshots, at = "status" => snap = "error",
         GoesOn(p, at, snap), UNCHANGED used
  PROVE  /\ polls' \in [Polls -> Calls]
         /\ \A q \in Polls : Sound(polls'[q], used')
         /\ \A q, r \in Polls : polls'[q].asked /\ polls'[r].asked => q = r
         /\ (\E q \in Polls : polls'[q].asked) <=> answer = "polled"
<1> DEFINE c == [at |-> at, seen |-> Idle.seen, rolled |-> Idle.rolled, snap |-> snap, asked |-> polls[p].asked]
<1>1. polls' = [polls EXCEPT ![p] = c]
  <2>1. polls' = [polls EXCEPT ![p] = [Idle EXCEPT !.at = at, !.snap = snap, !.asked = polls[p].asked]]
    BY DEF GoesOn
  <2>2. [Idle EXCEPT !.at = at, !.snap = snap, !.asked = polls[p].asked] = c
    BY IdleGoesOn
  <2> QED
    BY <2>1, <2>2
<1>2. polls[p].asked \in BOOLEAN
  BY DEF PollingInv, TypeOK, Calls
<1>3. c.asked = polls[p].asked /\ Sound(c, used)
  BY <1>2, IdleSound DEF Sound, Calls
<1> HIDE DEF c
<1>4. polls[p].asked => answer = "polled"
  BY DEF PollingInv, TypeOK
<1> QED
  BY <1>1, <1>2, <1>3, <1>4, CallStep

-----------------------------------------------------------------------------
(* The invariant.                                                          *)

\* When the extension is installed nothing is at work.
LEMMA PollingInit ==
  ASSUME Init
  PROVE  PollingInv
<1>1. used = 0 /\ used \in Nat /\ 0 \in 0..MaxUnits /\ 0 \in 0..MaxFaults
  BY PollingAssumption DEF Init
<1>2. \A p \in Polls : polls[p] = Idle
  BY DEF Init
<1>3. TypeOK
  <2>1. polls \in [Polls -> Calls] /\ ~ \E p \in Polls : polls[p].asked
    BY <1>2, IdleSound DEF Init
  <2>2. guaranteed \in 0..MaxUnits
    BY PollingAssumption DEF Init
  <2> QED
    BY <1>1, <1>2, <2>1, <2>2 DEF Init, TypeOK
<1>4. (\A p \in Polls : Sound(polls[p], used)) /\ \A p, q \in Polls : polls[p].asked /\ polls[q].asked => p = q
  BY <1>1, <1>2, IdleSound
<1> QED
  BY <1>3, <1>4 DEF PollingInv

\* What starts a call keeps the invariant.
LEMMA StartSteps ==
  ASSUME PollingInv, NEW p \in Polls, Wake(p) \/ Alarm(p) \/ Refresh(p) \/ GetQuota(p)
  PROVE  PollingInv'
<1> USE DEF PollingInv
<1>1. CASE Wake(p) \/ Alarm(p) \/ Refresh(p)
  <2>1. /\ polls[p] = Idle /\ Started(p, FALSE) /\ awake'
        /\ UNCHANGED <<used, guaranteed, online, stored, faults, shown, answer>>
        /\ awake' = TRUE /\ configured' \in BOOLEAN
    BY <1>1 DEF Wake, Alarm, Refresh, Free, TypeOK, server, page, worker
  <2>2. /\ polls' \in [Polls -> Calls]
        /\ \A q \in Polls : Sound(polls'[q], used')
        /\ \A q, r \in Polls : polls'[q].asked /\ polls'[r].asked => q = r
        /\ (\E q \in Polls : polls'[q].asked) <=> (FALSE \/ answer = "polled")
    BY <2>1, StartStep
  <2> QED
    BY <2>1, <2>2 DEF TypeOK
<1>2. CASE GetQuota(p)
  <2>1. /\ answer = "asked"
        /\ UNCHANGED <<used, guaranteed, online, configured, stored, awake, faults, shown>>
        /\ \/ awake /\ stored # "none" /\ answer' = stored /\ UNCHANGED polls
           \/ Free(p) /\ answer' = "polled" /\ Started(p, TRUE)
    BY <1>2 DEF GetQuota, server, worker
  <2>2. CASE awake /\ stored # "none" /\ answer' = stored /\ UNCHANGED polls
    BY <2>1, <2>2 DEF TypeOK, Snapshots
  <2>3. CASE Free(p) /\ answer' = "polled" /\ Started(p, TRUE)
    <3>1. polls[p] = Idle /\ awake
      BY <2>3 DEF Free
    <3>2. /\ polls' \in [Polls -> Calls]
          /\ \A q \in Polls : Sound(polls'[q], used')
          /\ \A q, r \in Polls : polls'[q].asked /\ polls'[r].asked => q = r
          /\ (\E q \in Polls : polls'[q].asked) <=> (TRUE \/ answer = "polled")
      BY <2>1, <2>3, <3>1, StartStep
    <3> QED
      BY <2>1, <2>3, <3>1, <3>2 DEF TypeOK
  <2> QED
    BY <2>1, <2>2, <2>3
<1> QED
  BY <1>1, <1>2

\* A call that goes on with a verdict keeps the invariant, whatever it stores or shows.
LEMMA GoneOnStep ==
  ASSUME PollingInv, NEW p \in Polls, NEW at \in {"status", "save", "save_only", "broadcast", "respond"},
         NEW snap \in Snapshots, at = "status" => snap = "error",
         GoesOn(p, at, snap), polls[p].at # "idle",
         UNCHANGED <<used, guaranteed, online, configured, awake, faults, answer>>,
         stored' \in Snapshots \cup {"none"}, shown' \in Snapshots \cup {"none"}
  PROVE  PollingInv'
<1>1. /\ polls' \in [Polls -> Calls]
      /\ \A q \in Polls : Sound(polls'[q], used')
      /\ \A q, r \in Polls : polls'[q].asked /\ polls'[r].asked => q = r
      /\ (\E q \in Polls : polls'[q].asked) <=> answer = "polled"
  BY GoesOnStep
<1>2. awake
  BY IdleSound DEF PollingInv, TypeOK
<1> QED
  BY <1>1, <1>2 DEF PollingInv, TypeOK

\* A verdict is one of the two that the page is told apart.
LEMMA DecisionType ==
  \A units, use : Decision(units, use) \in Snapshots
BY DEF Decision, Snapshots

\* The first response says what is used at that moment.
LEMMA FetchStatusStep ==
  ASSUME PollingInv, NEW p \in Polls, FetchStatus(p)
  PROVE  PollingInv'
<1> DEFINE c == [at |-> "capacity", seen |-> used, rolled |-> polls[p].rolled, snap |-> polls[p].snap,
                 asked |-> polls[p].asked]
<1>1. polls' = [polls EXCEPT ![p] = c]
  <2>1. polls' = [polls EXCEPT ![p] = [polls[p] EXCEPT !.at = "capacity", !.seen = used]]
    BY DEF FetchStatus
  <2>2. CallRecord(polls[p])
    BY CallParts DEF PollingInv, TypeOK
  <2>3. [polls[p] EXCEPT !.at = "capacity", !.seen = used] = c
    BY <2>2, ReadCall
  <2> QED
    BY <2>1, <2>3
<1>2. /\ polls[p].at = "status" /\ polls[p] \in Calls /\ used \in 0..MaxUnits /\ polls[p].snap = "error"
      /\ UNCHANGED <<used, guaranteed, online, configured, stored, awake, faults, shown, answer>>
  BY DEF FetchStatus, PollingInv, TypeOK, Sound, server, worker, page
<1>3. c \in Calls
  BY <1>2 DEF Calls
<1>4. c.at = "capacity" /\ c.snap = "error" /\ c.seen = used /\ c.asked = polls[p].asked
  BY <1>2
<1> HIDE DEF c
<1>5. Sound(c, used)
  BY <1>2, <1>3, <1>4, PollingAssumption DEF Sound
<1>6. awake
  BY <1>2, IdleSound DEF PollingInv, TypeOK
<1>7. c.asked => polls[p].asked
  BY <1>4
<1>8. /\ polls' \in [Polls -> Calls]
      /\ \A q \in Polls : Sound(polls'[q], used')
      /\ \A q, r \in Polls : polls'[q].asked /\ polls'[r].asked => q = r
      /\ (\E q \in Polls : polls'[q].asked) <=> (IF polls[p].asked THEN c.asked ELSE c.asked \/ answer = "polled")
  BY <1>1, <1>2, <1>5, <1>7, CallStep
<1>9. polls[p].asked => answer = "polled"
  BY DEF PollingInv, TypeOK
<1> QED
  BY <1>2, <1>4, <1>6, <1>8, <1>9 DEF PollingInv, TypeOK

\* The call returns, and the page, if it has asked, has its answer.
LEMMA RespondStep ==
  ASSUME PollingInv, NEW p \in Polls, Respond(p)
  PROVE  PollingInv'
<1>1. /\ polls[p].at = "respond" /\ polls' = [polls EXCEPT ![p] = Idle]
      /\ answer' = IF polls[p].asked THEN polls[p].snap ELSE answer
      /\ UNCHANGED <<used, guaranteed, online, configured, stored, awake, faults, shown>>
  BY DEF Respond, server, worker
<1>2. Sound(Idle, used) /\ ~Idle.asked /\ awake
  BY <1>1, IdleSound, PollingAssumption DEF PollingInv, TypeOK
<1>3. /\ polls' \in [Polls -> Calls]
      /\ \A q \in Polls : Sound(polls'[q], used')
      /\ \A q, r \in Polls : polls'[q].asked /\ polls'[r].asked => q = r
      /\ (\E q \in Polls : polls'[q].asked)
           <=> (IF polls[p].asked THEN Idle.asked ELSE Idle.asked \/ answer = "polled")
  BY <1>1, <1>2, CallStep
<1>4. polls[p].snap \in Snapshots /\ polls[p].snap # "polled"
  BY DEF PollingInv, TypeOK, Calls, Snapshots
<1> QED
  BY <1>1, <1>2, <1>3, <1>4 DEF PollingInv, TypeOK

\* Every step of a call keeps the invariant.
LEMMA PollSteps ==
  ASSUME PollingInv, NEW p \in Polls, PollStep(p)
  PROVE  PollingInv'
<1>1. polls[p].snap \in Snapshots /\ stored \in Snapshots \cup {"none"} /\ shown \in Snapshots \cup {"none"}
  BY DEF PollingInv, TypeOK, Calls
<1>2. "error" \in Snapshots
  BY DEF Snapshots
<1>3. CASE LoadConfig(p)
  <2>1. UNCHANGED <<used, guaranteed, online, configured, stored, awake, faults, shown, answer>> /\ polls[p].at # "idle"
    BY <1>3 DEF LoadConfig, server, worker, page
  <2>2. CASE configured
    BY <1>1, <1>2, <1>3, <2>1, <2>2, GoneOnStep DEF LoadConfig
  <2>3. CASE ~configured
    BY <1>1, <1>2, <1>3, <2>1, <2>3, GoneOnStep DEF LoadConfig
  <2> QED
    BY <2>2, <2>3
<1>4. CASE FetchCapacity(p)
  <2>1. /\ UNCHANGED <<used, guaranteed, online, configured, stored, awake, faults, shown, answer>> /\ polls[p].at # "idle"
        /\ GoesOn(p, "save", Decision(guaranteed, polls[p].seen))
    BY <1>4 DEF FetchCapacity, server, worker, page
  <2>2. Decision(guaranteed, polls[p].seen) \in Snapshots
    BY DecisionType
  <2> QED
    BY <1>1, <2>1, <2>2, GoneOnStep
<1>5. CASE FetchFails(p)
  <2>1. /\ UNCHANGED <<used, guaranteed, online, configured, stored, awake, faults, shown, answer>> /\ polls[p].at # "idle"
        /\ GoesOn(p, "save", "error")
    BY <1>5 DEF FetchFails, server, worker, page
  <2> QED
    BY <1>1, <1>2, <2>1, GoneOnStep
<1>6. CASE Save(p)
  <2>1. /\ UNCHANGED <<used, guaranteed, online, configured, awake, faults, shown, answer>> /\ polls[p].at # "idle"
        /\ stored' = polls[p].snap
        /\ GoesOn(p, IF polls[p].at = "save" THEN "broadcast" ELSE "respond", polls[p].snap)
    BY <1>6 DEF Save, server, worker, page
  <2>2. CASE polls[p].at = "save"
    BY <1>1, <2>1, <2>2, GoneOnStep
  <2>3. CASE polls[p].at # "save"
    BY <1>1, <2>1, <2>3, GoneOnStep
  <2> QED
    BY <2>2, <2>3
<1>7. CASE Broadcast(p)
  <2>1. /\ UNCHANGED <<used, guaranteed, online, configured, stored, awake, faults, answer>> /\ polls[p].at # "idle"
        /\ shown' = polls[p].snap
        /\ GoesOn(p, "respond", polls[p].snap)
    BY <1>7 DEF Broadcast, server, worker
  <2> QED
    BY <1>1, <2>1, GoneOnStep
<1> QED
  BY <1>3, <1>4, <1>5, <1>6, <1>7, FetchStatusStep, RespondStep DEF PollStep

\* So does a storage or tab call that fails, inside the try block or outside.
LEMMA BrowserFailsStep ==
  ASSUME PollingInv, NEW p \in Polls, BrowserFails(p)
  PROVE  PollingInv'
<1>1. /\ polls[p].at \in {"config", "save", "save_only", "broadcast"}
      /\ faults < MaxFaults /\ faults' = faults + 1
      /\ UNCHANGED <<used, guaranteed, online, configured, stored, awake, shown>>
  BY DEF BrowserFails, server
<1>2. faults' \in 0..MaxFaults /\ awake /\ "error" \in Snapshots
  <2>1. faults' \in 0..MaxFaults
    BY <1>1, PollingAssumption DEF PollingInv, TypeOK
  <2> QED
    BY <1>1, <2>1, IdleSound DEF PollingInv, TypeOK, Snapshots
<1>3. CASE polls[p].snap # "error"
  <2>1. GoesOn(p, "save", "error") /\ UNCHANGED answer
    BY <1>3 DEF BrowserFails
  <2>2. /\ polls' \in [Polls -> Calls]
        /\ \A q \in Polls : Sound(polls'[q], used')
        /\ \A q, r \in Polls : polls'[q].asked /\ polls'[r].asked => q = r
        /\ (\E q \in Polls : polls'[q].asked) <=> answer = "polled"
    BY <1>1, <1>2, <2>1, GoesOnStep
  <2> QED
    BY <1>1, <1>2, <2>1, <2>2 DEF PollingInv, TypeOK
<1>4. CASE polls[p].snap = "error"
  <2>1. /\ polls' = [polls EXCEPT ![p] = Idle]
        /\ answer' = IF polls[p].asked THEN "none" ELSE answer
    BY <1>4 DEF BrowserFails
  <2>2. Sound(Idle, used) /\ ~Idle.asked
    BY IdleSound, PollingAssumption DEF PollingInv, TypeOK
  <2>3. /\ polls' \in [Polls -> Calls]
        /\ \A q \in Polls : Sound(polls'[q], used')
        /\ \A q, r \in Polls : polls'[q].asked /\ polls'[r].asked => q = r
        /\ (\E q \in Polls : polls'[q].asked)
             <=> (IF polls[p].asked THEN Idle.asked ELSE Idle.asked \/ answer = "polled")
    BY <1>1, <2>1, <2>2, CallStep
  <2> QED
    BY <1>1, <1>2, <2>1, <2>2, <2>3 DEF PollingInv, TypeOK
<1> QED
  BY <1>3, <1>4

\* What the server, the page and the browser do keeps the invariant.
LEMMA OtherSteps ==
  ASSUME PollingInv, Serve \/ Roll \/ LoadPage \/ ReceiveAnswer \/ EndWorker
  PROVE  PollingInv'
<1> USE DEF PollingInv
<1>1. \A p \in Polls : polls[p] \in Calls /\ CallRecord(polls[p])
  BY CallParts DEF TypeOK
<1>2. CASE Serve
  <2>1. UNCHANGED <<configured, stored, awake, faults, polls, shown, answer>>
    BY <1>2 DEF Serve, worker, page
  <2>2. used' \in 0..MaxUnits /\ guaranteed' \in 0..MaxUnits /\ online' \in BOOLEAN /\ used =< used' /\ used \in Nat
    <3>1. used \in 0..MaxUnits /\ guaranteed \in 0..MaxUnits /\ online \in BOOLEAN /\ MaxUnits \in Nat
      BY PollingAssumption DEF TypeOK
    <3>2. online' = online \/ online' = ~online
      BY <1>2 DEF Serve
    <3>3. online' \in BOOLEAN
      BY <3>1, <3>2
    <3>4. (used' \in used..MaxUnits \/ used' = used) /\ (guaranteed' \in 0..MaxUnits \/ guaranteed' = guaranteed)
      BY <1>2, <3>1 DEF Serve
    <3>5. used' \in 0..MaxUnits /\ guaranteed' \in 0..MaxUnits /\ used =< used' /\ used \in Nat
      BY <3>1, <3>4
    <3> QED
      BY <3>3, <3>5
  <2>3. \A p \in Polls : Sound(polls'[p], used')
    BY <1>1, <2>1, <2>2 DEF Sound, Calls
  <2> QED
    BY <2>1, <2>2, <2>3 DEF TypeOK
<1>3. CASE Roll
  <2>1. /\ used' = 0 /\ UNCHANGED <<guaranteed, online, configured, stored, awake, faults, shown, answer>>
        /\ polls' = [p \in Polls |-> [polls[p] EXCEPT !.rolled = polls[p].rolled \/ polls[p].at = "capacity"]]
    BY <1>3 DEF Roll, worker, page
  <2>2. ASSUME NEW p \in Polls
        PROVE  /\ polls'[p] \in Calls /\ polls'[p].at = polls[p].at /\ polls'[p].snap = polls[p].snap
               /\ polls'[p].asked = polls[p].asked /\ (polls[p].at = "capacity" => polls'[p].rolled)
               /\ polls[p] = Idle => polls'[p] = Idle
    <3> DEFINE rolled == polls[p].rolled \/ polls[p].at = "capacity"
               c == [at |-> polls[p].at, seen |-> polls[p].seen, rolled |-> rolled, snap |-> polls[p].snap,
                     asked |-> polls[p].asked]
    <3>1. rolled \in BOOLEAN /\ (polls[p].at = "capacity" => rolled)
          /\ (polls[p] = Idle => rolled = polls[p].rolled)
      BY <1>1, IdleSound DEF Calls
    <3>2. polls'[p] = [polls[p] EXCEPT !.rolled = rolled]
      BY <2>1
    <3> HIDE DEF rolled
    <3>3. polls'[p] = c
      BY <1>1, <3>2, MarkedCall
    <3>4. c \in Calls
      BY <1>1, <3>1 DEF Calls
    <3>5. polls[p] = Idle => c = polls[p]
      BY <1>1, <3>1 DEF CallRecord
    <3> QED
      BY <3>1, <3>3, <3>4, <3>5
  <2>3. \A p \in Polls : Sound(polls'[p], used')
    BY <2>2 DEF Sound
  <2>4. 0 \in 0..MaxUnits
    BY PollingAssumption
  <2>5. polls' \in [Polls -> Calls]
    BY <2>1, <2>2
  <2>6. \A p, q \in Polls : polls'[p].asked /\ polls'[q].asked => p = q
    BY <2>2
  <2> QED
    <3>1. UNCHANGED <<guaranteed, online, configured, stored, awake, faults, shown, answer>> /\ used' = 0
      BY <2>1
    <3>2. ~awake' => \A p \in Polls : polls'[p] = Idle
      BY <2>2, <3>1 DEF TypeOK
    <3>3. \A p \in Polls : polls'[p].asked = polls[p].asked
      BY <2>2
    <3>4. (\E p \in Polls : polls'[p].asked) <=> answer' = "polled"
      BY <3>1, <3>3 DEF TypeOK
    <3>5. TypeOK'
      BY <2>4, <2>5, <3>1, <3>2, <3>4 DEF TypeOK
    <3> QED
      BY <2>3, <2>6, <3>5
<1>4. CASE LoadPage
  <2>1. /\ shown' = "none" /\ answer' = "asked"
        /\ polls' = [p \in Polls |-> [polls[p] EXCEPT !.asked = FALSE]]
        /\ UNCHANGED <<used, guaranteed, online, configured, stored, awake, faults>>
    BY <1>4 DEF LoadPage, server, worker
  <2>2. ASSUME NEW p \in Polls
        PROVE  /\ polls'[p] \in Calls /\ polls'[p].at = polls[p].at /\ polls'[p].snap = polls[p].snap
               /\ polls'[p].seen = polls[p].seen /\ polls'[p].rolled = polls[p].rolled
               /\ ~polls'[p].asked
               /\ polls[p] = Idle => polls'[p] = Idle
    <3>1. ASSUME NEW asked, asked = FALSE
          PROVE  polls'[p] = [at |-> polls[p].at, seen |-> polls[p].seen, rolled |-> polls[p].rolled,
                              snap |-> polls[p].snap, asked |-> asked]
      <4>1. polls'[p] = [polls[p] EXCEPT !.asked = asked]
        BY <2>1, <3>1
      <4> QED
        BY <1>1, <4>1, ForgottenCall
    <3>2. polls'[p] = [at |-> polls[p].at, seen |-> polls[p].seen, rolled |-> polls[p].rolled,
                       snap |-> polls[p].snap, asked |-> FALSE]
      BY <3>1
    <3>3. polls[p] = Idle => polls[p].asked = FALSE
      BY <1>1, IdleSound DEF Calls
    <3>4. polls[p] = Idle => polls'[p] = polls[p]
      BY <1>1, <3>2, <3>3 DEF CallRecord
    <3> QED
      BY <1>1, <3>2, <3>4 DEF Calls
  <2>3. \A p \in Polls : Sound(polls'[p], used')
    BY <2>1, <2>2 DEF Sound
  <2>4. polls' \in [Polls -> Calls]
    BY <2>1, <2>2
  <2> QED
    BY <2>1, <2>2, <2>3, <2>4 DEF TypeOK
<1>5. CASE ReceiveAnswer
  BY <1>5 DEF ReceiveAnswer, TypeOK, Sound, Snapshots, server, worker
<1>6. CASE EndWorker
  <2>1. /\ awake' = FALSE /\ polls' = [p \in Polls |-> Idle]
        /\ answer' = IF answer = "polled" THEN "none" ELSE answer
        /\ faults' \in {faults, faults + 1} /\ faults' =< MaxFaults
        /\ UNCHANGED <<used, guaranteed, online, configured, stored, shown>>
    BY <1>6 DEF EndWorker, server
  <2>2. faults' \in 0..MaxFaults
    BY <2>1, PollingAssumption DEF TypeOK
  <2>3. used \in Nat
    BY PollingAssumption DEF TypeOK
  <2>4. /\ \A p \in Polls : polls'[p] = Idle /\ Sound(polls'[p], used') /\ ~polls'[p].asked
        /\ polls' \in [Polls -> Calls]
    BY <2>1, <2>3, IdleSound
  <2> QED
    BY <2>1, <2>2, <2>4 DEF TypeOK
<1> QED
  BY <1>2, <1>3, <1>4, <1>5, <1>6

\* Every step keeps the invariant.
LEMMA PollingNext ==
  ASSUME PollingInv, [Next]_vars
  PROVE  PollingInv'
<1>1. CASE UNCHANGED vars
  BY <1>1 DEF vars, server, worker, page, PollingInv, TypeOK, Sound
<1>2. CASE Next
  BY <1>2, StartSteps, PollSteps, BrowserFailsStep, OtherSteps DEF Next
<1> QED
  BY <1>1, <1>2

\* The invariant holds at all times.
THEOREM PollingInvariant == Spec => []PollingInv
<1>1. Init => PollingInv
  BY PollingInit
<1>2. PollingInv /\ [Next]_vars => PollingInv'
  BY PollingNext
<1> QED
  BY <1>1, <1>2, PTL DEF Spec

\* Every variable keeps its type, no call outlives the worker, and the page waits
\* for an answer exactly as long as a call will give it one.
THEOREM TypeCorrect == Spec => []TypeOK
<1>1. PollingInv => TypeOK
  BY DEF PollingInv
<1> QED
  BY <1>1, PollingInvariant, PTL

\* A call that has its first response gets no verdict but from the second.
LEMMA OtherVerdicts ==
  ASSUME PollingInv, Next, NEW p \in Polls, polls[p].at = "capacity", ~FetchCapacity(p)
  PROVE  polls'[p].snap = "error"
<1>1. /\ polls \in [Polls -> Calls] /\ polls[p].snap = "error" /\ CallRecord(polls[p]) /\ polls[p] # Idle
      /\ awake
  BY CallParts, IdleSound DEF PollingInv, TypeOK, Sound
<1>2. ASSUME NEW q \in Polls, NEW c, polls' = [polls EXCEPT ![q] = c], q # p
      PROVE  polls'[p].snap = "error"
  BY <1>1, <1>2
<1>3. ASSUME NEW q \in Polls, Wake(q) \/ Alarm(q) \/ Refresh(q) \/ GetQuota(q)
      PROVE  polls'[p].snap = "error"
  <2>1. UNCHANGED polls \/ (polls[q] = Idle /\ \E c : polls' = [polls EXCEPT ![q] = c])
    BY <1>1, <1>3 DEF Wake, Alarm, Refresh, GetQuota, Free, Started
  <2> QED
    BY <1>1, <1>2, <2>1
<1>4. ASSUME NEW q \in Polls, PollStep(q)
      PROVE  polls'[p].snap = "error"
  <2>1. CASE q # p
    <3>1. \E c : polls' = [polls EXCEPT ![q] = c]
      <4>1. CASE FetchStatus(q)
        <5>1. polls' = [polls EXCEPT ![q] = [polls[q] EXCEPT !.at = "capacity", !.seen = used]]
          BY <4>1 DEF FetchStatus
        <5> QED
          BY <5>1
      <4>2. CASE ~FetchStatus(q)
        BY <1>4, <4>2 DEF PollStep, LoadConfig, FetchCapacity, FetchFails, Save, Broadcast, Respond, GoesOn
      <4> QED
        BY <4>1, <4>2
    <3> QED
      BY <1>2, <2>1, <3>1
  <2>2. CASE q = p
    <3>1. GoesOn(p, "save", "error")
      BY <1>4, <2>2 DEF PollStep, LoadConfig, FetchStatus, FetchFails, Save, Broadcast, Respond
    <3>2. polls'[p] = [Idle EXCEPT !.at = "save", !.snap = "error", !.asked = polls[p].asked]
      BY <1>1, <3>1 DEF GoesOn
    <3>3. polls'[p] = [at |-> "save", seen |-> Idle.seen, rolled |-> Idle.rolled, snap |-> "error",
                       asked |-> polls[p].asked]
      BY <3>2, IdleGoesOn
    <3> QED
      BY <3>3
  <2> QED
    BY <2>1, <2>2
<1>5. CASE Serve \/ ReceiveAnswer
  BY <1>1, <1>5 DEF Serve, ReceiveAnswer
<1>6. CASE Roll
  <2>1. polls'[p] = [polls[p] EXCEPT !.rolled = polls[p].rolled \/ polls[p].at = "capacity"]
    BY <1>6 DEF Roll
  <2>2. ASSUME NEW rolled
        PROVE  [polls[p] EXCEPT !.rolled = rolled].snap = "error"
    <3>1. [polls[p] EXCEPT !.rolled = rolled]
            = [at |-> polls[p].at, seen |-> polls[p].seen, rolled |-> rolled, snap |-> polls[p].snap,
               asked |-> polls[p].asked]
      BY <1>1, MarkedCall
    <3> QED
      BY <1>1, <3>1
  <2> QED
    BY <2>1, <2>2
<1>7. CASE LoadPage
  <2>1. polls'[p] = [polls[p] EXCEPT !.asked = FALSE]
    BY <1>7 DEF LoadPage
  <2>2. ASSUME NEW asked
        PROVE  [polls[p] EXCEPT !.asked = asked].snap = "error"
    <3>1. [polls[p] EXCEPT !.asked = asked]
            = [at |-> polls[p].at, seen |-> polls[p].seen, rolled |-> polls[p].rolled, snap |-> polls[p].snap,
               asked |-> asked]
      BY <1>1, ForgottenCall
    <3> QED
      BY <1>1, <3>1
  <2> QED
    BY <2>1, <2>2
<1>8. CASE EndWorker
  BY <1>8, IdleSound DEF EndWorker
<1>9. ASSUME NEW q \in Polls, BrowserFails(q)
      PROVE  polls'[p].snap = "error"
  <2>1. q # p /\ \E c : polls' = [polls EXCEPT ![q] = c]
    BY <1>9 DEF BrowserFails, GoesOn
  <2> QED
    BY <1>2, <2>1
<1> QED
  BY <1>3, <1>4, <1>5, <1>6, <1>7, <1>8, <1>9 DEF Next

\* A snapshot put together from two responses never says exhausted of a member
\* that has units left when the second is made, unless the window ended between
\* the two (quota.ts, fetchQuotaSnapshot).
THEOREM ExhaustionIsReal == Spec => NoFalseExhaustion
<1>1. ASSUME PollingInv, Next, NEW p \in Polls, polls[p].at = "capacity", polls'[p].snap = "exhausted"
      PROVE  Spent \/ polls[p].rolled
  <2>1. /\ polls \in [Polls -> Calls] /\ polls[p].snap = "error" /\ (polls[p].rolled \/ polls[p].seen =< used)
        /\ used \in Nat /\ guaranteed \in Nat /\ polls[p].seen \in Nat /\ CallRecord(polls[p])
    BY <1>1, PollingAssumption, CallParts DEF PollingInv, TypeOK, Sound, Calls
  <2>2. CASE FetchCapacity(p)
    <3>1. polls' = [polls EXCEPT ![p] = [Idle EXCEPT !.at = "save", !.snap = Decision(guaranteed, polls[p].seen),
                                                   !.asked = polls[p].asked]]
      BY <2>2 DEF FetchCapacity, GoesOn
    <3> DEFINE verdict == Decision(guaranteed, polls[p].seen)
    <3>2. [Idle EXCEPT !.at = "save", !.snap = verdict, !.asked = polls[p].asked]
            = [at |-> "save", seen |-> Idle.seen, rolled |-> Idle.rolled, snap |-> verdict, asked |-> polls[p].asked]
      BY IdleGoesOn
    <3>3. polls'[p] = [Idle EXCEPT !.at = "save", !.snap = verdict, !.asked = polls[p].asked]
      BY <2>1, <3>1
    <3> HIDE DEF verdict
    <3>4. verdict = "exhausted"
      BY <1>1, <3>2, <3>3
    <3>5. guaranteed - polls[p].seen < 1
      BY <3>4 DEF verdict, Decision
    <3> QED
      BY <2>1, <3>5 DEF Spent
  <2>3. CASE ~FetchCapacity(p)
    <3>1. polls'[p].snap = "error"
      BY <1>1, <2>1, <2>3, OtherVerdicts
    <3> QED
      BY <1>1, <3>1
  <2> QED
    BY <2>2, <2>3
<1>2. PollingInv /\ [Next]_vars =>
        [\A p \in Polls :
           polls[p].at = "capacity" /\ polls'[p].snap = "exhausted" => Spent \/ polls[p].rolled]_vars
  BY <1>1
<1> QED
  BY <1>2, PollingInvariant, PTL DEF Spec, NoFalseExhaustion
=============================================================================
