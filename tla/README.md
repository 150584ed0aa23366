# Claude Share in TLA+

Claude Share lets a group split one Claude subscription: a *pool* has *members*, each
with an allocation of units per quota window; members may hand units to one another,
and every member's use is metered and charged. This directory holds a TLA+ model of
that system, the TLC runs that check it on small instances, and theorems about it that
TLAPS proves for every instance. `PROJECT.json` maps every definition to the source
lines it models; paths below are relative to `src/src/claude_share/` unless they say
otherwise.

Commands, from this directory:

    tlc -workers 2 -config MCQuotaLedger.cfg MCQuotaLedger
    tlapm QuotaLedger_proofs.tla

## 1. The system

### 1.1 Components

| Component | State it keeps | Operations | Status |
|---|---|---|---|
| Quota service, `application/quota_service.py` | tables `quota_windows`, `usage_records`, `shared_consumption_records` | `create_pool`, `check_quota`, `consume`, `get_status`, `list_members` | modelled |
| Capacity service, `application/capacity_service.py` | tables `capacity_requests`, `capacity_grants` | `request_capacity`, `approve_request`, `reject_request`, `revoke_grant`, `list_active_grants`, `get_effective_capacity`, `list_pending_requests_for_target` | modelled |
| Grant queries and rules, `application/capacity_queries.py`, `domain/capacity.py` | none; `active_grants_as_of` stores expiries as a side effect of reading | summaries, guaranteed units, lifetime use of a grant | modelled |
| Domain model and ports, `domain/` | the row types | constructors and their checks | partly |
| Equal split, `domain/allocation.py` | none | 10000 basis points over n members | modelled |
| SQLite persistence, `infrastructure/sqlite/` | the database file | one `BEGIN IMMEDIATE` transaction per call, 30 s lock timeout | partly |
| PostgreSQL persistence, `infrastructure/postgres/` | the database; locks held by open transactions | `READ COMMITTED` transactions, advisory and row locks | partly |
| Devices and tokens, `application/agent_service.py`, `tokens.py` | table `devices` | register, verify, list | modelled |
| HTTP server, `server/` | none of its own | token check, membership checks, a route per service call, errors to status codes | partly |
| Remote client, `agent/remote_client.py` | none | the services' calls over HTTP, 10 s timeout | modelled |
| Identity and agent commands, `agent/identity.py`, `commands.py` | the identity file | login, join, locally and remotely | modelled |
| Claude Code hooks, `integrations/claude_code/` | the transcript (written by Claude Code) | check before a prompt; meter and charge at the end of a turn | modelled |
| Hook installation, `integrations/claude_code/settings.py` | Claude Code's settings file | install, uninstall | modelled |
| Browser extension, `src/extension/src/` | last snapshot in storage; per page the snapshot, the one-shot override, the installed listeners | poll, broadcast, block a send, allow one | modelled |
| Dashboard, `src/dashboard/src/` | session and the visible view | poll and draw | not modelled |
| Command line, `cli/main.py` | none | parse, call a service, print | partly |

### 1.2 How they interact

Everything ends in a *service call*. A service opens a unit of work, which is one
database transaction; it reads windows, requests and grants through repositories,
decides, writes, and commits. An exception leaves the block and rolls back. The command
line and the local agent call services directly; the server calls them for its HTTP
clients (remote agents, the dashboard, the extension), after a token check and a
membership check that are transactions of their own. Claude Code calls two hooks, each
a fresh process: `UserPromptSubmit` asks `check_quota` and may stop the prompt, `Stop`
meters the turn from the transcript and calls `consume` with a key derived from the
turn. There is no background job in the system: a grant expires because some call reads
it, and no window is ever rolled over after its `reset_at`.

### 1.3 What is hard

* **The clock is read before the lock.** Every call captures `now` and only then waits
  for its transaction. Calls take effect in an order other than that of their readings.
* **Reads write.** Summarising a member stores its expired grants. A refused call rolls
  these writes back with everything else.
* **Three limits on every draw.** `consume` takes the member's own units, then units of
  SHARED grants in order of age: each limited by the grant's lifetime ceiling, by what
  its source has left after this call's earlier draws, and by the open shortfall.
* **Two checks that see different things.** Approval compares a request with the
  allocation less what is promised; consumption compares a report with guaranteed units
  less usage. Neither sees what the other does.
* **Retries.** A hook, or a client that saw a timeout, sends the same report again.
* **PostgreSQL.** A call is a sequence of statements that interleave with those of other
  calls. Advisory locks protect windows, requests, single grants and keys that have no
  row yet; the grant *lists* are read without a lock and their rows overwritten by id.
  Windows and grant rows are locked in orders that cross.
* **A transcript that lags behind.** The Stop hook polls a file Claude Code is still
  writing, with several entries per turn, some without text or usage; the hook may be
  killed, time out, or be invoked again for the same turn.
* **Half-done work outside the database.** HTTP calls time out after the server acted,
  and the user enters the command again; the identity file and the settings file are
  read and written without a lock by processes that may be killed between the steps, and
  may be found truncated, which the one reader refuses and the other takes for no settings.
* **Snapshots that overtake each other.** Polls of the extension's service worker overlap,
  are put together from two requests, and end when the browser ends the worker.

### 1.4 What makes each part correct

* *Quota and capacity services*: usage equals the audit trail; nothing is promised away
  twice; a lender never pays more than a grant's amount, nor more than it has left;
  decisions are final; a report is charged at most once and in full; no report is
  refused that the member's own units and its lenders could have covered.
* *PostgreSQL persistence*: the same, however the statements of concurrent calls
  interleave, and no call waits for ever.
* *SQLite persistence*: a call takes effect at once or not at all; a lock timeout
  changes nothing.
* *Hooks*: a turn is charged once and with its own tokens; the check before a prompt
  looks at the ledger that is charged after it.
* *Server and remote client*: an actor only acts for itself; a lost answer and a retry
  do not carry a call out twice.
* *Extension*: an exhausted member's send is stopped unless that very send was allowed;
  an allowance covers one send.
* *Hook installation*: other hooks in the file survive, in their groups and their order;
  installing is idempotent. (The code keeps the first only while no edit finds the file
  truncated by another: section 3.2.)
* *Equal split*: the shares add up to 10000 and differ by at most one.

## 2. Modules

| Module | Role |
|---|---|
| `Totals` | sums over table rows, as cardinalities of disjoint units, so that they need no recursion |
| `TotalsTheorems` | lemmas on those sums: type, subset, union, images, pointwise bounds; and the equal split, for every total and number of members |
| `QuotaPromise` | the abstract specification: what the engine promises, without requests, statuses or clock |
| `QuotaLedger` | the quota engine, one atomic action per service call |
| `QuotaLedger_proofs` | the theorems about it, first those that rest on `LedgerInv`, then those that need the larger `AuditInv`, and the refinement |
| `MCQuotaLedger` | its instance for TLC |
| `PostgresLocking` | the same calls as PostgreSQL transactions, statement by statement |
| `PostgresLocking_proofs` | the theorems about its locks |
| `PostgresBalance_proofs` | the theorems about its tables, which rest on those |
| `MCPostgresLocking` | its instance for TLC |
| `Allocation` | the equal split, and dealing as its reference |
| `ClaudeCodeTurns` | Claude Code sessions with the two hooks and the transcript |
| `MCClaudeCodeTurns` | its instance for TLC |
| `ClaudeCodeTurns_proofs` | the theorems about it |
| `RemoteServer` | the server's answer to a request, as operators on its database |
| `HookSettings` | install and uninstall, as operators on Claude Code's settings |
| `AgentMachine` | machines that run commands against the server: composes the two above with the identity file, processes and the network |
| `MCAgentMachine` | its instance for TLC |
| `AgentMachine_proofs` | the theorems about it |
| `SnapshotPolling` | the extension's service worker and what it feeds a page |
| `SnapshotPolling_proofs` | the theorems about it |
| `ContentScript` | the browser extension inside one claude.ai page |
| `ContentScript_proofs` | the theorems about it |

### 2.1 QuotaLedger

The variables are the tables (`usage` is the `usage_units` column of `quota_windows`)
and a clock. Each service call that changes state is one action, because on SQLite a
call is one transaction that holds the write lock from its first statement on:

| Action | Code |
|---|---|
| `RequestCapacity` | `request_capacity` |
| `ApproveRequest` | `approve_request`, with the expiries its summary of the target stores |
| `RejectRequest`, `RevokeGrant` | `reject_request`, `revoke_grant` |
| `Consume` | `consume` of a new key that is admitted |
| `ConsumeReplay` | `consume` of a key recorded for the same member and amount |
| `Summarise` | `get_effective_capacity`, `list_active_grants` |
| `Tick` | time passes |

A call that raises rolls back and leaves no trace: it is a stuttering step, and so are
`check_quota`, `get_status` and the other pure reads. The clock reading of a call is any
value of `CallTimes`: the present or up to `LockWait` ticks older.

The draw loop of `consume` is not written as a loop. `GreedyDraw` is the equation its
result satisfies: what a grant gives is the least of its three limits, two of which
mention what earlier grants gave. A draw's row has the
call's clock reading, as in the code. `DrawOrders` are the orders that sorting by
`created_at` can yield. `Visited` are the sources the loop summarises before the
shortfall is covered; their expired grants are stored too.

`FIVE_HOUR` and `WEEKLY` windows share nothing but the table of idempotency keys, so one
window type is modelled. Pools, members and allocations do not change after
`create_pool` and are constants.

### 2.2 PostgresLocking

`txn[c]` is the program counter of call `c` with what it has read and written so far,
`held[c]` its locks; the tables hold what is committed. A statement is one action
(`FindKey`, `GetRequest`, `GetGrant`, `GetWindow`, `ListSent`, `ListReceived`,
`ExpireNext`, `Revoke`), the decisions in between are actions too (`Approve`, `TakeOwn`,
`Draw`, `Refuse`, `FinishRead`), and `Commit` publishes the writes. `Wanted(c)` is the
lock the next statement takes; `Granted(c)` holds once no other call has it. A lock and
the read it protects are one step, which loses nothing: between the two nobody can
change the row. The lock manager, the deadlock detector and `READ COMMITTED` are not
code of this repository and are marked external: a detector step rolls back some call
that is in a cycle, `LoseConnection` rolls back any call at any point. A call that ended
in `deadlock` is one the server answers with 409 (`server/app.py:54-57`).

`StagesOf` says which stages an operation passes through. The constants have four
assumptions: allocations are natural numbers and there are finitely many calls
(`PoolAssumption`); requests are between
different members and for a natural amount, which `request_capacity` checks
(`TermsAssumption`); calls name members and requests there are (`WorkloadAssumption`);
and a behaviour starts from grants with distinct ids, to somebody else, that fit the
allocation of their source (`OpeningAssumption`), which every earlier approval has seen to.

All grants of a pool and window type expire at the pool's one `reset_at`, so the clock
is the flag `overdue` and a call's reading is its value when the call began.

### 2.3 The promise

`QuotaPromise` has the units charged to each member, the receipts and the consents to
lend. `QuotaLedger` implements it (`PromiseSpec`, checked as a refinement, with `usage`,
`records` and the source-recipient pairs of `grants` for its variables). For
`PostgresLocking`, where a behaviour may start with grants already there, every commit
is shown to be a step of it (`PromiseSteps`).

### 2.4 ContentScript

The module state of `src/extension/src/content.ts` with the listeners of `intercept.ts`.
`page` is what the selectors find, `gate` what has listeners now, with the button's
`disabled` flag and the value that `installSendInterceptors` saved of it; `wants` is what
the page itself wants of that flag, `unspent` a history variable. JavaScript runs one
event at a time, so an action is one event with everything it triggers before the next:
a step that changes child nodes (the banner and the indicator included) ends with the
observer's `reinstallInterceptors()`, a step that changes attributes only does not.
`ApplySnapshot` and `ApplyError` take any snapshot at any time, whatever the background
worker does (what it really does is `SnapshotPolling`); `Mutate`, `Relabel` and `Toggle` are the page, which is not ours;
`ArmOverride`, `LetThrough` and `Stop` are the user; `SyncDisabled` is the 500 ms timer.

### 2.5 ClaudeCodeTurns

`session` is what Claude Code does, `memory` and `file` the assistant entries it has not
yet written and those it has, `stop` the Stop hook process of a session, `ledger` the
units recorded under each key. `Submit` and `Check` are the prompt hook's two reads, and
`CheckFails` is every way in which it fails open. `Finish` fires Stop; `Poll` is a look
at the transcript that finds the turn, `GiveUp` the deadline, `Report` the call of
`consume`, `StopFails` the hook's death. `Matches` is `_entry_matches`: by the prompt's
id, by the last message, or both, as `signals` says of the version of Claude Code.
`consume` is reduced to what matters here, a key and the units left; its detail is
`QuotaLedger`. In particular a turn is admitted on the member's guaranteed units alone:
draws on SHARED grants, and what borrowers charge to the member's window, are left out, so
that the member's use is the total of `ledger` by construction. `CheckFitsUse` is claimed
within that restriction: with SHARED grants a session's own reports would count with the
part charged to the member itself only. Claude Code itself is external, and does what its documentation of hooks
allows: it flushes late, blocks a stop and goes on, interrupts, and fires Stop again.

### 2.6 RemoteServer, HookSettings, AgentMachine

`RemoteServer` says for a database, a token and a request whether the request is carried
out (`Allowed`, `Answered`) and the database that leaves (`Outcome`). The three
transactions of a request are one step: devices, members and pools are only ever
added, so what the first two have read stays true.

`AgentMachine` has, per machine, the identity file and the settings file; per process,
the command and how far it is: `Join` and `JoinLoads` are the two reads of the identity
file (`cli/main.py:555` and `agent/commands.py`), `Truncate` and `Fill` the two halves of
`write_text`, `GiveUp` the timeout, a dead connection or a killed process. A file between the
halves is `Empty`; if two writers overlap, the second half of the one may leave the end of
the other's longer text behind it (`Torn`). Neither parses as an identity, and commands that
need one end in an error. Of the settings only the second does not parse: `Loaded` is
`_load_settings`, which takes an empty file for settings without hooks. `network` holds
requests; one whose sender has given up may still be carried out, and one that is
refused stands for a lost or rolled-back one as well. `trail` is a history variable: what
was carried out, for which device's user. A device's token is its place in the table.

`HookSettings` has the file's two event lists as `settings.py` sees them, groups of
commands, some without a `hooks` list; commands other than ours are model values. The two
list filters of `_uninstall_hook_event` are one operator, `Selected`: the elements at given
positions, in their order. `Places` are the positions of the commands, which `SameOthers`
matches. Other keys of the settings are not modelled; they go the way of the other hooks.

### 2.7 SnapshotPolling

Each call of `pollQuota()` is a chain of awaited steps (`LoadConfig`, `FetchStatus`,
`FetchCapacity`, `FetchFails`, `Save`, `Broadcast`, `Respond`); `Wake`, `Alarm`, `Refresh` and
`GetQuota` start one. `EndWorker` ends all of them at any await, and storage survives.
`BrowserFails` is a call of the storage or tabs API that fails: inside the `try` block the
poll goes on with an error snapshot, elsewhere its promise is rejected and who asked gets no
answer. `Serve` and `Roll` move the server's numbers between any two steps; `online` is
whether its requests are answered, and answered without an error status.

### 2.8 Allocation

`EqualAllocations` is `compute_equal_allocations_bps`; the reference deals the total
round by round. `MCQuotaLedger` compares the two (`SplitIsDealt`).

## 3. Runs

| Run | Question | Result |
|---|---|---|
| `quota_ledger` | Does the serial engine keep its accounts, its limits and the promise, with clock readings that are out of date? | passes, 265 830 states |
| `postgres_locking` | Do the locks keep that when three calls interleave? | passes |
| `postgres_progress` | Does every transaction end, with windows and rows locked in crossing orders? | passes |
| `content_script` | Does the extension stop the sends it should, and only those? | passes |
| `claude_code_turns` | Is each turn charged once with its own usage, and each prompt judged by what is spent? | passes, 382 550 states |
| `agent_machine` | Do files, repeated commands and tokens stay sound over a bad network? | passes, 559 973 states |
| `snapshot_polling` | Does the page end up with what the server says, never wrongly exhausted? | passes, 665 844 states |
| `ledger_oversold` | Is the pool never charged more than it was allotted? | violated |
| `postgres_revocation_lost` | Does a revoked grant stay revoked on PostgreSQL? | violated |
| `content_script_trap` | Is the send button left alone after an error? | violated |
| `turns_remote_unchecked` | Does the prompt hook look at the ledger that is charged? | violated |
| `hook_settings_lost` | Do the hooks of others survive an installation of ours? | violated |

### 3.1 What the passing runs show

`quota_ledger`, over the serial engine:

* `LedgerBalance`: a member's usage is what it reported, less what others lent for that,
  plus what it lent.
* `OffersWithinBase`: neither what a member has given away under SOLID grants nor what it
  offers under SHARED ones exceeds its allocation, for *every* clock reading a call may
  hold; so guaranteed units are never negative (`GuaranteedNonNegative`, which is proved
  and needs no run). This is the delicate one: a call with an old reading still counts a grant that another call has seen
  expire. It holds because the approval that reuses the units stores the expiry first.
* `GuaranteeConserved`: SOLID grants move guaranteed units and create none.
* `LifetimeCeiling`: a SHARED grant gives at most its amount over all calls.
* `UsageWithinEntitlement`: what bounds a member's usage when SOLID grants end while
  their units are already used.
* `GrantsMatchApprovals`, `DecisionsFinal`: one grant per approval; no second decision.
* `OnlyLiveGrantsPay`: a draw is on a grant that is stored as ACTIVE, by a call whose own
  reading, stored with the draw, is before the grant's expiry.
* `OwnerPriority`: who pays for a shortfall, and only then.
* `NoNeedlessRefusal`: taking the grants one by one never strands units that another
  order would have used, so a refusal means there really is not enough.
* `AuditInv`: the invariant of section 5. `PromiseSpec`: the refinement.

`postgres_locking` checks the counterparts on the committed tables and adds
`NoIntegrityError` (a concurrent retry never ends in the UNIQUE violation that no caller
handles), `OneGrantPerApproval`, and `BooksInv`, the invariant of section 5, with the
types and the mutual exclusion of locks in it. `WaitsKnown` is about waiting: as long as a
call is under way, one can go on or is in a cycle that the database breaks (no lock is left
behind by a call that has ended), and in a cycle are only charges that already have a
window and want a lender's, and calls that began after the reset and store grants as
expired. So rejecting and revoking never deadlock, approving only after the reset, and
two retries of one report never with each other. `postgres_progress` checks
`EveryCallEnds`.

`content_script`: `OneSendPerOverride` (every send that passes the listeners of an
exhausted page had a "Send anyway" of its own), `WarningFitsSnapshot` (the warning and
the armed override exclude each other and neither outlives its snapshot),
`ButtonFollowsSnapshot` (the button is disabled, or enabled, again and again as the
snapshot says, against a page that keeps setting it otherwise).

`claude_code_turns`: `ChargesFitTurns` (every record is the usage of one message of the
turn its key stands for, and with prompt ids a turn has one record, whatever the
transcript had reached and however often the hook ran), `CheckFitsUse` (the prompt hook's
two reads come from different moments; it still blocks only if nothing is left, and
passes only if the session's own reports left something), `StopHookEnds`.

`agent_machine`: `SavedIdentityHolds` (an identity file that can be read holds a token
the server knows as that user's, and a member of that user, whichever logins and joins
raced for it), `RetryHarmless` (a command entered again has no second effect, except
`request`, which has no key and creates a second request), `OnlyOwnersAct` (whatever
tokens, identities and `--member` arguments are mixed, the server acts in a member's name
for its own user only), `HooksAllOrNone` (however installations and removals overlap or are
cut short, settings hold the commands of others one to one as in the first file, in the same
groups and order and for both events, or none of them at all; ours is never there twice).
That "none" happens is what `hook_settings_lost` shows.
`TypeOK` has that approved requests and grants belong together.

`snapshot_polling`: `NoFalseExhaustion` (usage is read before the capacity and only
grows within a window, so an exhausted snapshot was true when its second response was
made), `PageFollowsServer` (old snapshots may be shown, but not for good).

### 3.2 What the violations show

1. **Used units can be sent away** (`NeverOversold`). Approval does not look at usage. A
   member uses its units, then sends them under a SOLID grant, and the recipient uses
   them again. `docs/architecture.md:270-271` and `:404-406` say the consume-time check
   prevents this.
2. **A revocation is lost** (`RevocationKept`). On PostgreSQL a summary lists a grant,
   `revoke_grant` commits, and the summary's `UPDATE ... WHERE id` turns the row into
   EXPIRED with no `revoked_at` (`infrastructure/postgres/repositories.py:469-479`).
3. **Other hooks are lost** (`OtherHooksKept`). An installation truncates the settings file;
   another reads it, empty, as `{}` (`integrations/claude_code/settings.py:43-44`) and builds
   settings with our hooks only; if it is the last to write, that is what stays. A process
   that is killed after truncating leaves the same file to the next installation. The
   docstrings say that every other hook is left untouched (`settings.py:3-6`, `:117-118`).
4. **A send button left disabled** (`NoTrapOnError`). Cleaning up restores the flag's value
   from when the listeners were installed. If the page had the button disabled then and
   enables it since, an error disables it; with no indicator to remove, nothing wakes the
   observer that would set it right (`src/extension/src/intercept.ts:99-107`, against
   `src/extension/README.md:37-39`).
5. **Remote members are not checked** (`BlocksWhenSpent`). `hook.py:131-137` opens the local
   database also when the identity is remote; the member is unknown there, the hook fails
   open, and no prompt is ever blocked, while `stop_hook.py:62-72` reports to the server
   (`docs/architecture.md:829`).

More observations have no run of their own. After the reset, two members who lend to each
other and read their capacity update the two grant rows in opposite orders and deadlock
(`capacity_queries.py:46-48`), while `docs/architecture.md:1054-1059` knows only of two
`consume` calls; `WaitsKnown` counts such readers among the calls a cycle may have. The
detector ends the cycle and the caller sees a 409, so this costs a retry and no data. A `consume` that waited for the database may draw
on a grant whose `expires_at` has passed since it read the clock, and on PostgreSQL on a
grant that was revoked since it listed its grants. With a version of Claude Code that sends
`last_assistant_message` without `prompt_id`, a turn that ends with the same words as the
one before may be metered by that one's entry, which is charged once all the same.

### 3.3 Bounds, and why they are enough

* Three members: a borrower, two lenders, or a chain in which a lender has itself lent.
  The code never looks at more than one member and one source at a time.
* Two ids per table: two requests and two grants are enough to over-commit a source,
  to draw from two lenders, to draw twice from one, and to send on what was received.
  `CanAdd` keeps a table within `Ids`; the code's ids are UUIDs and never run out.
* Two keys: a first report, a retry, a report under the same key for someone else, and a
  second report. Amounts 1 and 2 with shares of 2: a report can need less than a share,
  all of it, or more than is left.
* `MaxClock` 1 with `LockWait` 1: before and after the reset, and a call that still holds
  the earlier reading. All grants expire at 1, so that the two readings lie on the two sides
  of the expiry: at time 1 a call with reading 1 must not draw, one with reading 0 still may.
  Nothing in the code compares more than one expiry with `now`.
* PostgreSQL: three calls at once (two that race and one that holds, revokes or expires
  something between them), two members, two requests, and two grants: one each way, for
  charges that want each other's window, or two one way, for a charge that comes back to a
  window it has read. `Mixed` and `Waiting` name the calls; each of them can be made by any
  of the three.
* Content script: two buttons, so that the send button can be swapped for another and
  back, and one composer. Listeners are on one button at most, so a third shows nothing.
  Deadlock is checked.
* `claude_code_turns`: two sessions, two turns and two messages in all, so that a turn may
  have two messages, or two turns or two sessions one each; messages of one unit, of two,
  of none, without text and without usage. One repeated Stop per session.
* `agent_machine`: two processes on two machines and three commands, which is enough for
  two to race on one file and for a third to use what they leave, or for a request to
  be repeated after its answer was lost. One unit to consume and to offer; databases and
  files start as some earlier use left them; the settings have our command in one group with
  another, a group without a list, one more hook behind it, and nothing for the other event.
* `snapshot_polling`: two polls at a time, two units, one fault (`MaxFaults`): an end of the
  worker at work, or a failed call of the browser (ends of an idle worker are unbounded).
* Symmetry over members and keys, or over calls, is used in runs that check safety only.
  `postgres_progress` uses none. Deadlock is checked in `quota_ledger`; the PostgreSQL runs
  switch the check off because each call is made once and the behaviour then ends.

### 3.4 Fairness

`PostgresLocking` assumes `WF_vars(Serve)`, where `Serve` is *some* statement
that can run or *some* deadlock that can be broken. It says that the database does not
stop; it does not say which call is served. No fairness is assumed of callers, of the
clock or of lost connections. That is enough because every call is finite and every
lock is released when its call ends: if no statement can run, the waiting calls form a
cycle, and the detector runs. With locks of the session's scope in place
of the transaction's (`pg_advisory_lock` for `pg_advisory_xact_lock`) the run fails.

`ClaudeCodeTurns` assumes that a hook process that runs goes on to its next step, weak
fairness of `Check`, `Poll`, `GiveUp` and `Report`: each is a loop with a sleep or a call with a
timeout. Nothing is assumed of Claude Code, which may never flush an entry.

`SnapshotPolling` assumes that the alarm keeps going off and wakes the worker, that awaited
calls come back (with an answer or an error), and that messages arrive. Nothing is
assumed of the user, of the server's numbers or of the ends of the worker; the property
itself asks for a server that has come to rest, since otherwise nothing settles.

`AgentMachine` has no fairness: a command may never be answered and only safety is
claimed.

`ContentScript` assumes `WF_vars(SyncDisabled)`: `window.setInterval` keeps firing while
the listeners are installed. Nothing is assumed of the page, the user or the worker.

## 4. Mutants

Every property of a passing run has a mutant: an operator beside the one it replaces,
marked `Slip` in the modules, that is a plausible mistake in that code (a forgotten
lock, a ceiling taken per call, an expiry not stored). TLC finds the property violated
with the slip in place.

## 5. Proofs

### 5.1 The serial engine

`QuotaLedger_proofs` proves, for any finite set of members and
ids, any allocations, amounts, reset times and lock wait:

| Theorem | Statement |
|---|---|
| `LedgerInvariant` | `Spec => []LedgerInv` |
| `TypeCorrect` | `Spec => []TypeOK` |
| `CeilingHolds` | `Spec => []LifetimeCeiling` |
| `OffersBounded` | `Spec => []OffersWithinBase` |
| `GuaranteeNeverNegative` | `Spec => []GuaranteedNonNegative` |
| `DecisionsNeverChange` | `Spec => DecisionsFinal` |
| `OnlyLiveGrantsAreDrawn` | `Spec => OnlyLiveGrantsPay` |
| `AuditInvariant` | `Spec => []AuditInv` |
| `BooksBalance` | `Spec => []LedgerBalance` |
| `ChargesWithinEntitlement` | `Spec => []UsageWithinEntitlement` |
| `OneGrantPerApproval` | `Spec => []GrantsMatchApprovals` |
| `OwnersComeFirst` | `Spec => OwnerPriority` |
| `GuaranteesConserved` | `Spec => []GuaranteeConserved` |
| `RefusalsJustified` | `Spec => []NoNeedlessRefusal` |
| `PromiseKept` | `Spec => PromiseSpec` |

The assumptions are those of `QuotaLedger`: `Members`, `Ids` and `Keys` are finite, the
allocations and reset times are natural numbers, amounts are positive.

*Limits.* Neither `OffersWithinBase` nor `GuaranteedNonNegative` is inductive: both
speak of the grants that are usable at some clock reading, and `ApproveRequest` compares
with one reading while another call may hold an older one, for which more grants are
usable. What is inductive is a statement without a clock: the grants *stored* as ACTIVE,
expired or not, fit the allocation of their source (`CommittedWithinBase`). Approval
preserves it because it stores the expiry of everything its reading has overtaken, so
that what remains ACTIVE is exactly what its check summed up. The usable grants of any
reading are a subset, which gives the two properties. `LifetimeCeiling` needs that a
draw is at most the grant's amount less its earlier draws (`GreedyDrawBounds`, from the
equation of the draw loop) and that one call writes at most one row per grant, for which
ids must be unique (`GrantIdsUnique`) and draws must name grants (`DrawsOnGrants`).
Sums are cardinalities of sets of units; the lemmas of `TotalsTheorems` reduce the
arithmetic on them to the finite-set theorems.

*Accounts.* `LedgerBalance` needs more than `LedgerInv`: one record per key, so that a
charge's draws are counted to one borrower; a record for every draw; and no loan to
oneself, so that own and lent units are different ones. `AuditInv` adds these, with the
balance, the entitlement and the match of grants and approvals themselves. Storing an
expiry or a revocation replaces rows; the lemmas say that the old and the new grants are
in a bijection that keeps everything but the status (`Carries`), so that every sum over
them is the same. What a source pays in one call is bounded at the last of its grants that
gives anything. `GuaranteeConserved` is a partition of the live SOLID grants, once by
source and once by recipient. `NoNeedlessRefusal`: if the loop stops short, every lender
visited is drained or every one of its grants is, so that no other order finds more. That
the equation of the loop has a solution at all, for every number of grants, is
`GreedyDrawExists`.

*Refinement.* An approval is a `Consent`; an admitted report is a `Charge`, whose split is
the own units and the draws summed by lender; every other step stutters.

### 5.2 The interleaved engine

`PostgresLocking_proofs` and `PostgresBalance_proofs` prove, for any number of calls at
once, any workload, requests and opening grants, and any pattern of lost connections and
deadlocks:

| Theorem | Statement | Module |
|---|---|---|
| `LocksHold` | `Spec => []LockInv` | `PostgresLocking_proofs` |
| `TypeCorrect` | `Spec => []TypeOK` | |
| `RetriesNeverCollide` | `Spec => []NoIntegrityError` | |
| `ApprovalsGrantOnce` | `Spec => []OneGrantPerApproval` | |
| `DecidedForGood` | `Spec => DecisionsFinal` | |
| `WaitsAreKnown` | `Spec => []WaitsKnown` | |
| `BooksHold` | `Spec => []BooksInv` | `PostgresBalance_proofs` |
| `BooksBalance` | `Spec => []LedgerBalance` | |
| `OffersWithinBase` | `Spec => []CommittedWithinBase` | |
| `DrawsWithinGrant` | `Spec => []LifetimeCeiling` | |
| `ChargesWithinEntitlement` | `Spec => []UsageWithinEntitlement` | |
| `PromiseKeptByCommits` | `Spec => PromiseSteps` | |

*Locks.* `LockInv` says, of each call under way: it is at a stage of its own operation
(`InStage`); it holds the lock of everything it relies on, its key, its request, the windows
it has read and the rows it has written (`HoldsLocks`); it writes nothing but ends of
grants, and one new grant if it approves (`WritesEnds`); and what it has read is still so
(`ReadsStand`): its request is pending, its key has no record, the grants it lists exist. No
lock has two holders. A commit by one call cannot disturb another's part: the
requests, keys and windows it changes are under locks the other does not have, and grants
are never deleted. That a grant row can be overwritten by two calls one after the other
(the lost revocation of section 3.2) is allowed for: `ReadsStand` says nothing of a status.

*Waiting.* `NeverStuck` follows from `LockInv` alone. Suppose every call under way waits.
What a call waits for is held by a call under way, since one that has ended holds nothing
(`AtRest`); so the calls under way are a set in which everyone waits for someone of the
set. There are finitely many calls, so there is a least set of that kind, and it is a
cycle: a call that nobody in it waits for could be left out. `CyclesKnown` needs the order
in which a call takes its locks (`LocksInOrder`): a call that wants its key, its request or
its grant holds nothing; one that wants its first window holds a key or a request; and only
a call that began after the reset has rows to store. In a cycle everyone holds something
that another wants. Nobody who wants a key, a request or a grant holds anything, so nobody
in a cycle wants one; so a member of it must hold a window or a row, which leaves the
charges that want a second window and the calls that store rows.

*Books.* A charge writes absolute values that it computed from what it read, one
statement at a time. `BooksInv` relates the two: at any moment the value that a charge
has computed for a window is the committed usage, plus what it has drawn from that member
so far, plus its own portion if the member is the one who reports (`Accounts`). The
committed usage cannot move, since the window is locked. Each grant is drawn on once, from a
window that is locked, so that the ceiling it was compared with stays what it was, although
the grants themselves are read without a lock (`Draws`). What the call may take is
`Available`, which is within the entitlement by the grants it found; that these are real
although some may have ended since is `Summarised`. An approval holds the window of its
target, which is what every approval of that target waits for: so what it listed and not
expired is all that the target offers until it commits (`Approving`), and what it adds
fits. Commits of other calls leave all this as it is, because they add a grant or a draw
only under a window they hold (`CommitSparesCharges`, `CommitSparesApprovals`), and SOLID
grants are only added to the sum that bounds the entitlement (`SolidGrows`). At its own
commit the shortfall is nothing, so the computed values make the balance again
(`CommitKeepsBalance`) and are a split of the promise's `Charge` (`SplitOfCharge`).

### 5.3 The other components

| Theorem | Statement | Module |
|---|---|---|
| `IdentityStaysSound` | `Spec => []SavedIdentityHolds` | `AgentMachine_proofs` |
| `TypeCorrect` | `Spec => []TypeOK` | |
| `OwnersActOnly` | `Spec => []OnlyOwnersAct` | |
| `RetriesHarmless` | `Spec => []RetryHarmless` | |
| `SettingsAllOrNone` | `Spec => []HooksAllOrNone` | |
| `TurnsInvariant` | `Spec => []TurnsInv` | `ClaudeCodeTurns_proofs` |
| `TypeCorrect` | `Spec => []TypeOK` | |
| `ChargesFit` | `Spec => []ChargesFitTurns` | |
| `CheckFits` | `Spec => CheckFitsUse` | |
| `PollingInvariant` | `Spec => []PollingInv` | `SnapshotPolling_proofs` |
| `TypeCorrect` | `Spec => []TypeOK` | |
| `ExhaustionIsReal` | `Spec => NoFalseExhaustion` | |
| `OverrideCoversSend` | `Spec => [](TypeOK /\ OneSendPerOverride)` | `ContentScript_proofs` |
| `TypeCorrect` | `Spec => []TypeOK` | |
| `WarningIsCurrent` | `Spec => []WarningFitsSnapshot` | |
| `EqualSplit` | the shares of any total over any number of members add up to it | `TotalsTheorems` |
| `EqualSplitIsDealt` | each share is what dealing the total round by round gives that member | |

*Agents and the server*, for any machines, processes, members and commands. The
assumptions: local and remote users are different (`MachineAssumption`); the database,
the settings and the identity files present at the start are ones that an earlier use can
have left (`InitialAssumption`), the settings with any groups of any commands and ours once
at most; our commands are commands, and a group without a list is not a list
(`HookAssumption`); allocations are natural numbers (`ServerAssumption`).

What can be read of an identity file is not inductive alone: the file is written from
what a process has in hand, which an earlier answer gave it. `MachineInv` therefore says
that whatever a process is about to write already holds; that an answer to a registration
carries a token of the user who is named in the command, for which a waiting process and
the request with its number have to belong together; that no two commands have one
number; and that devices are only added, so that what held for the server's tables at the
answer still holds when the file is written.

`RetryHarmless` speaks of a history, the trail, and the code keeps no history. What makes
it inductive is that the tables remember (`TrailInv`): everything in the trail is
`Settled`, that is, its key has a record, its request is decided or its grant has ended;
no step makes it unsettled; and what is settled is not carried out again. `TypeOK` of the
server says that the approved requests are those that have a grant, for which the rows
must keep their form and their places (`TablesHold`). `CountInv` counts: a device more is
a registration less on its way, and a registration is a command, so that there are no
more tokens than the model has (`MaxCommands`).

`HooksAllOrNone` speaks of a file; its inductive form (`SettingsKept`) also speaks of what
every process has loaded and is about to write, so that it does not matter whose write
comes last. Each of these contents is `KeptSince` one of two others: the first file, or the
empty one, from which an edit starts when it finds the file truncated. An edit keeps either
(`EditKeeps`), truncation leaves the empty one, and what matches the empty file has no
command of others (`NoOthersLeft`). The edits are list filters, and induction over lists is not to be had; instead
`Nth(P, k)` is the position of a set `P` up to which `P` has `k` elements, and what a
filter does follows from cardinalities alone (`NthEnumerates`, with a least element where
one would use induction). The match of `UninstallKeeps` takes a command at its new place to
the place of its group among the groups that stay, and to its own among the commands that
are not ours; both are monotone. Matches compose (`SameOthersTransitive`), which is what
makes the statement, which refers to an earlier file, inductive.

*Turns*, for any sessions, messages and versions of Claude Code, under
`TurnsAssumption`: tokens are natural numbers, a version has some signal, and the
guarantees are natural numbers. `ChargesFitTurns` needs
to know what a Stop hook has in hand between its look at the transcript and its call of
`consume`: `StopInv` says that what it is about to report is still what some entry says
that matches its payload, because a transcript only grows and an entry keeps its place
among those with usage (`EntryStays`). With prompt ids the key is the turn, so that a
second record of a turn would have the first one's key. Without them the key is the
entry's index, which the transcript's growth leaves alone as well. `CheckFitsUse`
relates two reads at different moments: while a prompt is checked no hook of its session
runs, so the first read saw all that the session has reported, and recorded use only
grows, so it saw no more than there is at the second (`CheckInv`). Both directions are
needed: one for the prompts that pass, one for those that are blocked.

*Polls*, for any number of calls at a time and any numbers of units
(`PollingAssumption`). Between the two responses of a poll, use is only added or the window
ends; so what a call saw of the use is at most the use by now, or it is marked `rolled`
(`Sound`). A verdict of "exhausted" on an old use and the present guarantee is then one on
the present use as well. That the page waits for one call exactly, whatever the worker's
ends and the overlaps, is part of `TypeOK`, and needs that no two calls are asked.

*Content script*, for any buttons and composers and without assumptions. The inductive
invariant adds that an armed override has not been spent yet: without it, letting a send
through could take `unspent` below zero.

*Equal split.* Unit `k` of member `i` is card `n * (k - 1) + i` of the total; that is a
bijection, by the uniqueness of quotient and remainder (`DivisionUnique`) and because a
member's share has as many rounds as reach it (`RoundsOfShare`). The same for one member
alone gives its share; so no two shares differ by more than one unit, and the members that
come first have the remainder.

### 5.4 What is only model-checked

* Liveness under fairness, which is beyond the prover, as is `ENABLED`: `EveryCallEnds`,
  `ButtonFollowsSnapshot`, `StopHookEnds`, `PageFollowsServer`. Their runs use the bounds of
  section 3.3.

Every safety invariant and every action property of the passing runs is a theorem.

## 6. Not modelled, and why

* Wording, layout, argument parsing, request schemas and display: no property is about
  them. The dashboard is nothing else, apart from late responses, which are listed as a
  hazard.
* `POST /pools` and `pool create`, locally and remotely: what they create is the initial
  state, and pools do not share anything.
* The routes, commands and service calls that only read, apart from the two that the
  hooks and `join` depend on (`status`, `members`): they answer and change nothing.
* Token generation and hashing: a token is known to whoever received it.
* Two machines' local databases: they hold what `QuotaLedger` has, and a local identity's
  quota commands are its actions.
* `compute_potential_units`, a figure that is displayed and never decided upon.
* Rolling a window over: the code has no such operation.
* Two window types at once, beyond the key table they share.
* On SQLite: the lock timeout. The timed-out call changes nothing, and waiting shows in
  the age of a call's clock reading. `request_capacity` under PostgreSQL: it inserts a row
  under a new id and takes no lock.

## 7. Plan

All the modules planned have been written, and every safety invariant and action property
that a run checks is proved. What could still be added:

1. The steps of the liveness arguments that are safety: `NeverStuck` is such a step for
   `EveryCallEnds`; that each statement of a call lowers a measure, so that a call that is
   served ends, is another.
2. The dashboard, if it is ever given operations that change state.
3. The tables of pools, members and devices under PostgreSQL, which only calls outside the
   quota engine insert into.
