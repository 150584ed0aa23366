---------------------------- MODULE HookSettings ----------------------------
(***************************************************************************)
(* settings.py: Claude Share's entries in Claude Code's settings.json.     *)
(*                                                                         *)
(* The file's "hooks" key holds, for every event, a list of groups; a      *)
(* group holds a list of commands, or has no such list at all.  An event   *)
(* or a "hooks" key with nothing in it is the same as a missing one.       *)
(***************************************************************************)
EXTENDS Integers, Sequences, FiniteSets

CONSTANTS
  HookCommands,   \* the commands there may be, others' and ours
  NoHooks         \* a group without a "hooks" list

\* HOOK_INSTALLATIONS: the events and the commands of ours they call.
Own == [UserPromptSubmit |-> "claude-share-hook", Stop |-> "claude-share-stop-hook"]

Events == DOMAIN Own

ASSUME HookAssumption ==
  (\A e \in Events : Own[e] \in HookCommands) /\ NoHooks \notin Seq(HookCommands)

Groups == Seq(Seq(HookCommands) \cup {NoHooks})

\* The places of an event's commands: a group, and a position in it.
HooksOf(group) == IF group = NoHooks THEN <<>> ELSE group
Places(groups) == UNION {{i} \X DOMAIN HooksOf(groups[i]) : i \in DOMAIN groups}
At(groups, p) == groups[p[1]][p[2]]
Precedes(p, q) == p[1] < q[1] \/ (p[1] = q[1] /\ p[2] < q[2])

Ours(groups, command) == {p \in Places(groups) : At(groups, p) = command}
Others(groups, command) == Places(groups) \ Ours(groups, command)

HasEntry(groups, command) == Ours(groups, command) # {}

\* Slip: appended without looking for an entry that is there.
InstallAgain(groups, command) == Append(groups, <<command>>)

InstallHookEvent(groups, command) ==
  IF HasEntry(groups, command) THEN groups ELSE Append(groups, <<command>>)

\* The elements of a list at some of its positions, in order.
Nth(P, k) == CHOOSE i \in P : Cardinality({j \in P : j =< i}) = k
Selected(list, P) == [k \in 1..Cardinality(P) |-> list[Nth(P, k)]]

\* Slip: a group with our command in it goes as a whole.
UninstallGroup(groups, command) ==
  LET with == {p[1] : p \in Ours(groups, command)}
  IN Selected(groups, DOMAIN groups \ with)

\* Our command leaves every group; a group that is empty then goes with it.
UninstallHookEvent(groups, command) ==
  LET left == [i \in DOMAIN groups |->
                 IF groups[i] = NoHooks THEN NoHooks
                 ELSE Selected(groups[i], {j \in DOMAIN groups[i] : groups[i][j] # command})]
  IN IF HasEntry(groups, command) THEN Selected(left, {i \in DOMAIN left : left[i] # <<>>}) ELSE groups

\* install_hook() and uninstall_hook() on the settings they have loaded.
Installed(settings) == [e \in Events |-> InstallHookEvent(settings[e], Own[e])]
Uninstalled(settings) == [e \in Events |-> UninstallHookEvent(settings[e], Own[e])]

\* The commands of others match one to one, in one order and in the same groups.
SameOthers(groups, were, command) ==
  LET here  == Others(groups, command)
      there == Others(were, command)
  IN  \E match \in [here -> there] :
        /\ {match[p] : p \in here} = there
        /\ \A p \in here : At(groups, p) = At(were, match[p])
        /\ \A p, q \in here : Precedes(p, q) => Precedes(match[p], match[q])
        /\ \A p, q \in here : p[1] = q[1] <=> match[p][1] = match[q][1]

\* Our command is there once, if at all.
AtMostOnce(groups, command) == \A p, q \in Ours(groups, command) : p = q
=============================================================================
