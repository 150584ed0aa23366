---------------------------- MODULE AgentMachine ----------------------------
(***************************************************************************)
(* The agent on the members' machines: claude-share commands (cli/main.py, *)
(* agent/commands.py), the identity file and the hook settings they write, *)
(* and the central server they call over HTTP (agent/remote_client.py).    *)
(*                                                                         *)
(* Commands run as processes of their own, several on one machine.  Each   *)
(* file is read and written without a lock, and written in two steps: it   *)
(* is truncated, then filled.  A process may be killed at any point, and   *)
(* another may find the file empty.  A request may be lost, or carried out *)
(* after its sender gave up, and its answer may be lost; a user may enter  *)
(* the same command again.                                                 *)
(* Commands that end in an error at their first step are no step, and so   *)
(* are those of a local identity on quotas, which QuotaLedger has.         *)
(***************************************************************************)
EXTENDS RemoteServer, HookSettings

CONSTANTS
  Machines,
  Processes,        \* command processes that may run at one time
  LocalOwner,       \* member |-> user, in the machines' local databases
  Commands,         \* what may be entered
  None,             \* no member, no identity
  Empty,            \* the content of a file that is truncated,
  Torn,             \* and of one with the end of another text behind its own
  InitialDb,        \* the server's database, the identity files and the hook
  InitialConfig,    \* settings after some earlier use
  InitialSettings,
  MaxCommands       \* bound: commands entered

ASSUME MachineAssumption ==
  /\ DOMAIN LocalOwner \cap Members = {} /\ Range(LocalOwner) \cap Users = {}
  /\ MaxCommands \in Nat

VARIABLES
  db,         \* the server's database
  config,     \* per machine: its identity file
  settings,   \* per machine: Claude Code's settings file
  process,    \* per process: the command it runs and how far it is
  network,    \* requests on their way to the server
  entered,    \* how many commands have been entered
  trail       \* history: what the server has carried out, and for which device's user

vars == <<db, config, settings, process, network, entered, trail>>

Identity(remote, user, member, token) ==
  [remote |-> remote, user |-> user, member |-> member, token |-> token]

Identities ==
  [remote : BOOLEAN, user : Users \cup Range(LocalOwner),
   member : Members \cup DOMAIN LocalOwner \cup {None}, token : 0..(MaxCommands + Len(InitialDb.devices))]

\* An identity's token is known to the server as its user's, and its member is
\* that user's.
IdentityHolds(identity, base) ==
  /\ identity.remote => DeviceOf(base, identity.token) = {identity.user}
  /\ identity.member # None =>
       identity.user = IF identity.remote THEN Owner[identity.member] ELSE LocalOwner[identity.member]

\* What some earlier use has left.
ASSUME InitialAssumption ==
  /\ InitialDb \in [devices : Seq(Users), requests : Seq(RequestRows),
                    grants : Seq(GrantRows), usage : Seq(Range(InitialDb.usage))]
  /\ GrantsAnswerRequests(InitialDb)
  /\ InitialSettings \in [Events -> Groups]
  /\ \A e \in Events : AtMostOnce(InitialSettings[e], Own[e])
  /\ InitialConfig \in [Machines -> Identities \cup {None, Empty, Torn}]
  /\ \A m \in Machines : InitialConfig[m] \notin {None, Empty, Torn} =>
       /\ IdentityHolds(InitialConfig[m], InitialDb)
       /\ ~InitialConfig[m].remote => InitialConfig[m].user \in Range(LocalOwner) /\ InitialConfig[m].token = 0

Idle == [pc |-> "idle"]

TypeOK ==
  /\ Range(db.devices) \subseteq Users
  /\ GrantsAnswerRequests(db)
  /\ \A m \in Machines : config[m] \in Identities \cup {None, Empty, Torn}
  /\ \A m \in Machines : settings[m] \notin {Empty, Torn} => settings[m] \in [Events -> Groups]
  /\ \A p \in Processes : process[p].pc \in {"idle", "loaded", "waiting", "ready", "saving"}
  /\ \A r \in network : r.id \in 1..entered /\ r.token \in Nat
  /\ entered \in 0..MaxCommands

Init ==
  /\ db = InitialDb /\ config = InitialConfig
  /\ settings = [m \in Machines |-> InitialSettings]
  /\ process = [p \in Processes |-> Idle]
  /\ network = {} /\ entered = 0 /\ trail = <<>>

-----------------------------------------------------------------------------
(* The steps of a process.                                                 *)

\* main(): a command is entered on a machine; the process goes on as `next`.
Enter(p, m, next) ==
  /\ process[p].pc = "idle" /\ entered < MaxCommands
  /\ entered' = entered + 1
  /\ process' = [process EXCEPT ![p] = next]

\* The file is about to be written.
Saving(m, file, content) == [pc |-> "ready", machine |-> m, file |-> file, content |-> content]

\* The process waits for the answer to its one HTTP call.
Waiting(m, c, identity, id) ==
  [pc |-> "waiting", machine |-> m, command |-> c, identity |-> identity, id |-> id, answer |-> "none", token |-> 0]

\* _request(): the call, with the token of an identity.
Send(id, token, body) == network' = network \cup {[id |-> id, token |-> token, body |-> body]}

\* A member that is given wins over the identity's.
ActsAs(c, identity) == IF c.as = None THEN identity.member ELSE c.as

\* What RemoteQuotaService and RemoteCapacityService make of a command.
Request(c, identity) == [c EXCEPT !.as = ActsAs(c, identity)]

\* login, without a server: the local database knows the user.
Login(p, m, c) ==
  /\ c.op = "login" /\ c.of \in Range(LocalOwner)
  /\ Enter(p, m, Saving(m, "config", Identity(FALSE, c.of, None, 0)))
  /\ UNCHANGED <<db, config, settings, network, trail>>

\* login --server: the device is registered, without a token.
LoginRemote(p, m, c) ==
  /\ c.op = "register"
  /\ Enter(p, m, Waiting(m, c, None, entered + 1))
  /\ Send(entered + 1, 0, c)
  /\ UNCHANGED <<db, config, settings, trail>>

\* join: main() loads the identity, and builds the services it calls for.
Join(p, m, c) ==
  /\ c.op = "join" /\ config[m] \notin {Empty, Torn}
  /\ Enter(p, m, [pc |-> "loaded", machine |-> m, command |-> c, identity |-> config[m], id |-> entered + 1])
  /\ UNCHANGED <<db, config, settings, network, trail>>

\* Slip: any member that exists may be joined.
CanJoinAny(owner, member, identity) == member \in DOMAIN owner

\* The pool is the member's; naming another is refused as an unknown member is.
CanJoin(owner, member, identity) == member \in DOMAIN owner /\ owner[member] = identity.user

\* join_pool() and join_pool_remote() load it once more; the one asks the local
\* database, the other the server, with the token of the first.
JoinLoads(p) ==
  LET q == process[p]
      current == config[q.machine]
  IN /\ q.pc = "loaded"
     /\ IF current \in {None, Empty, Torn} THEN process' = [process EXCEPT ![p] = Idle] /\ UNCHANGED network
        ELSE IF q.identity # None /\ q.identity.remote
          THEN /\ Send(q.id, q.identity.token, Body("members", None, q.command.of, 0))
               /\ process' = [process EXCEPT ![p] = Waiting(q.machine, q.command, current, q.id)]
          ELSE /\ process' = [process EXCEPT ![p] =
                    IF CanJoin(LocalOwner, q.command.of, current)
                      THEN Saving(q.machine, "config", [current EXCEPT !.member = q.command.of]) ELSE Idle]
               /\ UNCHANGED network
     /\ UNCHANGED <<db, config, settings, entered, trail>>

\* A command on quotas or capacity, if it has a member to act as.
Call(p, m, c) ==
  LET identity == config[m]
  IN /\ c.op \in {"consume", "request", "approve", "reject", "revoke", "status"}
     /\ identity \notin {None, Empty, Torn} /\ identity.remote /\ ActsAs(c, identity) # None
     /\ Enter(p, m, Waiting(m, c, identity, entered + 1))
     /\ Send(entered + 1, identity.token, Request(c, identity))
     /\ UNCHANGED <<db, config, settings, trail>>

\* _load_settings(): an empty file is taken for settings without any hooks.
Loaded(file) == IF file = Empty THEN [e \in Events |-> <<>>] ELSE file

\* hook install, hook uninstall: nothing is written when nothing changes.
EditHooks(p, m, c) ==
  LET loaded == Loaded(settings[m])
      edited == IF c.op = "install" THEN Installed(loaded) ELSE Uninstalled(loaded)
  IN /\ c.op \in {"install", "uninstall"} /\ settings[m] # Torn
     /\ Enter(p, m, Saving(m, "settings", edited))
     /\ edited # loaded
     /\ UNCHANGED <<db, config, settings, network, trail>>

-----------------------------------------------------------------------------
(* The server, and what becomes of its answers.                            *)

Answer(r, answer, token) ==
  /\ network' = network \ {r}
  /\ process' = [p \in Processes |->
       IF process[p].pc = "waiting" /\ process[p].id = r.id
         THEN [process[p] EXCEPT !.answer = answer, !.token = token] ELSE process[p]]

Register(r) ==
  /\ r.body.op = "register" /\ CanRegister(r.body.of)
  /\ db' = Registered(db, r.body.of)
  /\ Answer(r, "ok", Len(db'.devices))
  /\ UNCHANGED <<config, settings, entered, trail>>

CarryOut(r) ==
  /\ Allowed(db, r.token, r.body)
  /\ db' = Outcome(db, r.body)
  /\ trail' = Append(trail, [user |-> db.devices[r.token], body |-> r.body])
  /\ Answer(r, "ok", 0)
  /\ UNCHANGED <<config, settings, entered>>

Reply(r) ==
  /\ Answered(db, r.token, r.body)
  /\ Answer(r, "ok", 0)
  /\ UNCHANGED <<db, config, settings, entered, trail>>

\* A refusal; or, to any request, an error for a transaction that is rolled back.
Refuse(r) ==
  /\ Answer(r, "error", 0)
  /\ UNCHANGED <<db, config, settings, entered, trail>>

\* Success, for a command that has a file to write.
Receive(p) ==
  LET q == process[p]
  IN /\ q.pc = "waiting" /\ q.answer # "none"
     /\ process' = [process EXCEPT ![p] =
          IF q.answer = "ok" /\ q.command.op = "register"
            THEN Saving(q.machine, "config", Identity(TRUE, q.command.of, None, q.token))
          ELSE IF q.answer = "ok" /\ q.command.op = "join" /\ CanJoin(Owner, q.command.of, q.identity)
            THEN Saving(q.machine, "config", [q.identity EXCEPT !.member = q.command.of])
          ELSE Idle]
     /\ UNCHANGED <<db, config, settings, network, entered, trail>>

Write(m, file, content) ==
  IF file = "config" THEN config' = [config EXCEPT ![m] = content] /\ UNCHANGED settings
                     ELSE settings' = [settings EXCEPT ![m] = content] /\ UNCHANGED config

\* write_text(): open truncates the file,
Truncate(p) ==
  LET q == process[p]
  IN /\ q.pc = "ready"
     /\ Write(q.machine, q.file, Empty)
     /\ process' = [process EXCEPT ![p].pc = "saving"]
     /\ UNCHANGED <<db, network, entered, trail>>

\* and its content follows.  Over what another process has written since, it may
\* leave the end of a longer text behind, which does not parse.
Fill(p) ==
  LET q == process[p]
      there == IF q.file = "config" THEN config[q.machine] ELSE settings[q.machine]
  IN /\ q.pc = "saving"
     /\ \/ Write(q.machine, q.file, q.content)
        \/ there # Empty /\ Write(q.machine, q.file, Torn)
     /\ process' = [process EXCEPT ![p] = Idle]
     /\ UNCHANGED <<db, network, entered, trail>>

\* The call has taken ten seconds, the connection fails, or the process is killed.
GiveUp(p) ==
  /\ process[p].pc # "idle"
  /\ process' = [process EXCEPT ![p] = Idle]
  /\ UNCHANGED <<db, config, settings, network, entered, trail>>

Next ==
  \/ \E p \in Processes :
       \/ \E m \in Machines, c \in Commands :
            Login(p, m, c) \/ LoginRemote(p, m, c) \/ Join(p, m, c) \/ Call(p, m, c) \/ EditHooks(p, m, c)
       \/ JoinLoads(p) \/ Receive(p) \/ Truncate(p) \/ Fill(p) \/ GiveUp(p)
  \/ \E r \in network : Register(r) \/ CarryOut(r) \/ Reply(r) \/ Refuse(r)

Spec == Init /\ [][Next]_vars

-----------------------------------------------------------------------------
\* Whatever was lost, repeated or overtaken, and whichever commands raced for the
\* file: an identity that can be read has a token the server knows as the user's,
\* and a member of that user (agent/identity.py, agent/commands.py).
SavedIdentityHolds == \A m \in Machines : config[m] \notin {None, Empty, Torn} => IdentityHolds(config[m], db)

\* A command that is entered again because its answer was lost has no second
\* effect, unless it asks for capacity, which has no key (server/routes.py).
RetryHarmless ==
  \A i, j \in DOMAIN trail : trail[i].body = trail[j].body /\ i # j => trail[i].body.op = "request"

\* The server does nothing in a member's name for a device of another user,
\* however machines, identities and explicit --member arguments are mixed
\* (server/auth.py, require_member).
OnlyOwnersAct == \A i \in DOMAIN trail : Owner[trail[i].body.as] = trail[i].user

\* The settings files that can be read and are not empty.
WrittenSettings == {settings[m] : m \in Machines} \ {Empty, Torn}

\* Whichever installs and uninstalls overlapped or were cut short, settings hold
\* either every command of others, in its order and its groups, or none of them,
\* for all events alike; and no command of ours twice (settings.py).
HooksAllOrNone ==
  \A content \in WrittenSettings :
    /\ \A e \in Events : AtMostOnce(content[e], Own[e])
    /\ \/ \A e \in Events : SameOthers(content[e], InitialSettings[e], Own[e])
       \/ \A e \in Events : Others(content[e], Own[e]) = {}

\* As the docstrings of install_hook() and uninstall_hook() say: every other hook
\* is left as it was.  The code breaks it, as an edit that finds the file empty
\* between another's truncation and its write goes on from no hooks at all.
OtherHooksKept ==
  \A content \in WrittenSettings, e \in Events : SameOthers(content[e], InitialSettings[e], Own[e])
=============================================================================
