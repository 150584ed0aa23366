------------------------- MODULE AgentMachine_proofs -------------------------
(***************************************************************************)
(* The agents and the server, for any machines, processes, members and     *)
(* commands: what identity files hold, whom the server lets act, and that  *)
(* what was carried out once is not carried out again.                     *)
(***************************************************************************)
EXTENDS AgentMachine, FiniteSetTheorems, TLAPS

\* An identity as login and join write it, in which a local user is one of the
\* local database and has no token.
Sound(identity, base) ==
  /\ identity = Identity(identity.remote, identity.user, identity.member, identity.token)
  /\ identity.remote \in BOOLEAN
  /\ identity.member \in Members \cup DOMAIN LocalOwner \cup {None}
  /\ IdentityHolds(identity, base)
  /\ ~identity.remote => identity.user \in Range(LocalOwner) /\ identity.token = 0

\* Settings in which our commands came and went since they were `were`, and
\* nothing else did.
KeptSince(were, content) ==
  /\ content \in [Events -> Groups]
  /\ \A e \in Events : SameOthers(content[e], were[e], Own[e]) /\ AtMostOnce(content[e], Own[e])

\* What an empty file is taken for.
NoSettings == [e \in Events |-> <<>>]

\* Edits have gone on from the first settings ever since, or from an empty file.
SettingsKept(content) == KeptSince(InitialSettings, content) \/ KeptSince(NoSettings, content)

SavingInv(q, base) ==
  /\ q = [pc |-> q.pc, machine |-> q.machine, file |-> q.file, content |-> q.content]
  /\ q.file = "config" => Sound(q.content, base)
  /\ q.file # "config" => SettingsKept(q.content)

WaitingInv(q, base) ==
  /\ q = [pc |-> "waiting", machine |-> q.machine, command |-> q.command, identity |-> q.identity,
          id |-> q.id, answer |-> q.answer, token |-> q.token]
  /\ q.command.op = "join" => Sound(q.identity, base)
  /\ q.command.op = "register" /\ q.answer = "ok" => DeviceOf(base, q.token) = {q.command.of}

\* What a process will write is sound already, and stays so.
ProcessInv(q, base) ==
  /\ q.pc \in {"idle", "loaded", "waiting", "ready", "saving"}
  /\ q.pc \in {"ready", "saving"} => SavingInv(q, base)
  /\ q.pc = "loaded" =>
       /\ q.machine \in Machines /\ q.command.op = "join"
       /\ q.identity # None => Sound(q.identity, base)
  /\ q.pc = "waiting" => WaitingInv(q, base)

Numbered(q) == q.pc \in {"loaded", "waiting"}

ServerInv ==
  /\ db = [devices |-> db.devices, requests |-> db.requests, grants |-> db.grants, usage |-> db.usage]
  /\ db.devices \in Seq(Users)

FilesInv ==
  /\ config = [m \in Machines |-> config[m]]
  /\ \A m \in Machines : config[m] \notin {None, Empty, Torn} => Sound(config[m], db)
  /\ settings = [m \in Machines |-> settings[m]]
  /\ \A m \in Machines : settings[m] \notin {Empty, Torn} => SettingsKept(settings[m])

ProcessesInv ==
  /\ process = [p \in Processes |-> process[p]]
  /\ \A p \in Processes : ProcessInv(process[p], db)

\* No two commands have one number, and the request of a registration is its own.
NumbersInv ==
  /\ entered \in Nat
  /\ \A p \in Processes : Numbered(process[p]) => process[p].id \in 1..entered
  /\ \A p, q \in Processes :
       Numbered(process[p]) /\ Numbered(process[q]) /\ process[p].id = process[q].id => p = q
  /\ \A r \in network :
       /\ r.id \in 1..entered /\ r.token \in Nat
       /\ \A p \in Processes :
            process[p].pc = "waiting" /\ process[p].id = r.id /\ process[p].command.op = "register"
              => r.body = process[p].command

MachineInv == ServerInv /\ FilesInv /\ ProcessesInv /\ NumbersInv

-----------------------------------------------------------------------------
(* Hook settings: both edits leave the commands of others as they were.    *)

\* Nth lists a finite set of positions in order, each once.
LEMMA NthEnumerates ==
  ASSUME NEW P, IsFiniteSet(P), P \subseteq Nat
  PROVE  /\ Cardinality(P) \in Nat
         /\ \A k \in 1..Cardinality(P) : Nth(P, k) \in P
         /\ \A k, l \in 1..Cardinality(P) : k < l => Nth(P, k) < Nth(P, l)
         /\ \A i \in P : \E k \in 1..Cardinality(P) : Nth(P, k) = i
<1> DEFINE UpTo(i) == {j \in P : j =< i}
           rank == [i \in P |-> Cardinality(UpTo(i))]
           n == Cardinality(P)
<1>1. n \in Nat
  BY FS_CardinalityType
<1>2. \A i \in P : IsFiniteSet(UpTo(i)) /\ Cardinality(UpTo(i)) \in 1..n
  <2> TAKE i \in P
  <2>1. UpTo(i) \in SUBSET P /\ i \in UpTo(i)
    BY SMT
  <2>2. IsFiniteSet(UpTo(i)) /\ Cardinality(UpTo(i)) =< n
    BY <2>1, FS_Subset
  <2>3. Cardinality(UpTo(i)) \in Nat
    BY <2>2, FS_CardinalityType
  <2>4. Cardinality(UpTo(i)) # 0
    BY <2>1, <2>2, FS_EmptySet
  <2> QED
    BY <1>1, <2>2, <2>3, <2>4
<1>3. \A i, j \in P : i < j => Cardinality(UpTo(i)) < Cardinality(UpTo(j))
  <2> SUFFICES ASSUME NEW i \in P, NEW j \in P, i < j
               PROVE  Cardinality(UpTo(i)) < Cardinality(UpTo(j))
    OBVIOUS
  <2>1. UpTo(i) \in SUBSET UpTo(j) /\ j \in UpTo(j) /\ j \notin UpTo(i)
    <3>1. i \in Nat /\ j \in Nat
      OBVIOUS
    <3>2. \A m \in P : m =< i => m =< j
      BY <3>1
    <3>3. j =< j /\ ~(j =< i)
      BY <3>1
    <3> QED
      BY <3>2, <3>3
  <2>2. UpTo(i) # UpTo(j)
    BY <2>1
  <2>3. Cardinality(UpTo(i)) =< Cardinality(UpTo(j)) /\ Cardinality(UpTo(i)) # Cardinality(UpTo(j))
    BY <1>2, <2>1, <2>2, FS_Subset
  <2> QED
    BY <1>1, <1>2, <2>3
<1>4. rank \in [P -> 1..n]
  BY <1>2
<1>5. \A i, j \in P : rank[i] = rank[j] => i = j
  <2> SUFFICES ASSUME NEW i \in P, NEW j \in P, rank[i] = rank[j], i # j
               PROVE  FALSE
    OBVIOUS
  <2>1. i < j \/ j < i
    OBVIOUS
  <2>2. rank[i] < rank[j] \/ rank[j] < rank[i]
    BY <1>3, <2>1
  <2> HIDE DEF rank
  <2> QED
    BY <1>1, <1>4, <2>2
<1>6. rank \in Injection(P, 1..n)
  BY <1>4, <1>5 DEF Injection, IsInjective
<1>7. IsFiniteSet(1..n) /\ Cardinality(1..n) = n
  BY <1>1, FS_Interval
<1>8. rank \in Surjection(P, 1..n)
  BY <1>6, <1>7, FS_Injection
<1>9. \A k \in 1..n : \E i \in P : Cardinality(UpTo(i)) = k
  BY <1>8 DEF Surjection
<1>10. \A k \in 1..n : Nth(P, k) \in P /\ Cardinality(UpTo(Nth(P, k))) = k
  BY <1>9 DEF Nth
<1>11. \A k, l \in 1..n : k < l => Nth(P, k) < Nth(P, l)
  <2> SUFFICES ASSUME NEW k \in 1..n, NEW l \in 1..n, k < l
               PROVE  Nth(P, k) < Nth(P, l)
    OBVIOUS
  <2>1. PICK i \in P : i = Nth(P, k) /\ Cardinality(UpTo(i)) = k
    BY <1>10
  <2>2. PICK j \in P : j = Nth(P, l) /\ Cardinality(UpTo(j)) = l
    BY <1>10
  <2> HIDE DEF UpTo
  <2>3. i # j /\ ~(j < i)
    BY <1>1, <1>3, <2>1, <2>2
  <2>4. i \in Nat /\ j \in Nat
    OBVIOUS
  <2>5. i < j
    BY <2>3, <2>4
  <2> QED
    BY <2>1, <2>2, <2>5
<1>12. \A i \in P : \E k \in 1..n : Nth(P, k) = i
  <2> TAKE i \in P
  <2>1. rank[i] \in 1..n /\ rank[i] = Cardinality(UpTo(i))
    BY <1>4
  <2>2. Nth(P, rank[i]) \in P /\ rank[Nth(P, rank[i])] = rank[i]
    BY <1>10, <2>1
  <2> QED
    BY <1>5, <2>1, <2>2
<1> QED
  BY <1>1, <1>10, <1>11, <1>12

\* A selection holds the elements at the positions that are selected.
LEMMA SelectedElements ==
  ASSUME NEW S, NEW list \in Seq(S), NEW P \in SUBSET (DOMAIN list)
  PROVE  /\ Selected(list, P) \in Seq(S)
         /\ DOMAIN Selected(list, P) = 1..Cardinality(P)
         /\ \A k \in 1..Cardinality(P) : Nth(P, k) \in P /\ Selected(list, P)[k] = list[Nth(P, k)]
         /\ \A k, l \in 1..Cardinality(P) : k < l => Nth(P, k) < Nth(P, l)
         /\ \A i \in P : \E k \in 1..Cardinality(P) : Nth(P, k) = i
         /\ P \subseteq Nat
<1>1. DOMAIN list = 1..Len(list) /\ Len(list) \in Nat
  OBVIOUS
<1>2. IsFiniteSet(DOMAIN list)
  BY <1>1, FS_Interval
<1>3. IsFiniteSet(P) /\ P \subseteq Nat
  <2>1. P \subseteq Nat
    BY <1>1
  <2> QED
    BY <1>2, <2>1, FS_Subset
<1>4. /\ Cardinality(P) \in Nat
      /\ \A k \in 1..Cardinality(P) : Nth(P, k) \in P
      /\ \A k, l \in 1..Cardinality(P) : k < l => Nth(P, k) < Nth(P, l)
      /\ \A i \in P : \E k \in 1..Cardinality(P) : Nth(P, k) = i
  BY <1>3, NthEnumerates
<1>5. \A i \in P : list[i] \in S
  BY <1>1
<1>6. Selected(list, P) \in [1..Cardinality(P) -> S]
  BY <1>4, <1>5 DEF Selected
<1>7. Selected(list, P) \in Seq(S)
  BY <1>4, <1>6
<1> QED
  BY <1>3, <1>4, <1>6, <1>7 DEF Selected

\* The places of an event's commands are pairs of a group and a position in it.
LEMMA PlacesArePairs ==
  ASSUME NEW groups
  PROVE  /\ \A p \in Places(groups) :
              /\ p = <<p[1], p[2]>> /\ p[1] \in DOMAIN groups /\ p[2] \in DOMAIN HooksOf(groups[p[1]])
         /\ \A i \in DOMAIN groups : \A j \in DOMAIN HooksOf(groups[i]) : <<i, j>> \in Places(groups)
<1>1. ASSUME NEW p \in Places(groups)
      PROVE  p = <<p[1], p[2]>> /\ p[1] \in DOMAIN groups /\ p[2] \in DOMAIN HooksOf(groups[p[1]])
  <2>1. PICK i \in DOMAIN groups : p \in {i} \X DOMAIN HooksOf(groups[i])
    BY DEF Places
  <2> QED
    BY <2>1
<1>2. ASSUME NEW i \in DOMAIN groups, NEW j \in DOMAIN HooksOf(groups[i])
      PROVE  <<i, j>> \in Places(groups)
  <2>1. <<i, j>> \in {i} \X DOMAIN HooksOf(groups[i])
    OBVIOUS
  <2> QED
    BY <2>1 DEF Places
<1> QED
  BY <1>1, <1>2

\* A list of one element.
LEMMA OneElement ==
  ASSUME NEW S, NEW x \in S
  PROVE  <<x>> \in Seq(S) /\ Len(<<x>>) = 1 /\ DOMAIN <<x>> = {1} /\ <<x>>[1] = x
  OBVIOUS

\* A list with one more element.
LEMMA OneMore ==
  ASSUME NEW S, NEW list \in Seq(S), NEW x \in S
  PROVE  /\ Append(list, x) \in Seq(S)
         /\ Len(list) \in Nat /\ DOMAIN list = 1..Len(list) /\ DOMAIN Append(list, x) = 1..(Len(list) + 1)
         /\ \A i \in 1..Len(list) : Append(list, x)[i] = list[i]
         /\ Append(list, x)[Len(list) + 1] = x
  OBVIOUS

\* Nothing changed, nothing moved.
LEMMA SameOthersReflexive ==
  ASSUME NEW groups, NEW command
  PROVE  SameOthers(groups, groups, command)
<1> DEFINE match == [p \in Others(groups, command) |-> p]
<1>1. match \in [Others(groups, command) -> Others(groups, command)]
  OBVIOUS
<1>2. {match[p] : p \in Others(groups, command)} = Others(groups, command)
  OBVIOUS
<1>3. \A p \in Others(groups, command) : match[p] = p
  OBVIOUS
<1> HIDE DEF match
<1> QED
  BY <1>1, <1>2, <1>3 DEF SameOthers

\* What is left in its order by one change and by the next is so by both.
LEMMA SameOthersTransitive ==
  ASSUME NEW new, NEW groups, NEW were, NEW command,
         SameOthers(new, groups, command), SameOthers(groups, were, command)
  PROVE  SameOthers(new, were, command)
<1> DEFINE N == Others(new, command)
           G == Others(groups, command)
           W == Others(were, command)
<1>1. PICK f \in [N -> G] : /\ {f[p] : p \in N} = G
                            /\ \A p \in N : At(new, p) = At(groups, f[p])
                            /\ \A p, q \in N : Precedes(p, q) => Precedes(f[p], f[q])
                            /\ \A p, q \in N : p[1] = q[1] <=> f[p][1] = f[q][1]
  BY DEF SameOthers
<1>2. PICK g \in [G -> W] : /\ {g[p] : p \in G} = W
                            /\ \A p \in G : At(groups, p) = At(were, g[p])
                            /\ \A p, q \in G : Precedes(p, q) => Precedes(g[p], g[q])
                            /\ \A p, q \in G : p[1] = q[1] <=> g[p][1] = g[q][1]
  BY DEF SameOthers
<1> DEFINE match == [p \in N |-> g[f[p]]]
<1> HIDE DEF N, G, W
<1>3. match \in [N -> W]
  BY <1>1, <1>2
<1>4. \A p \in N : match[p] = g[f[p]] /\ f[p] \in G
  BY <1>1
<1>5. {match[p] : p \in N} = W
  <2>1. \A w \in W : \E p \in N : match[p] = w
    <3> TAKE w \in W
    <3>1. PICK x \in G : g[x] = w
      BY <1>2
    <3>2. PICK p \in N : f[p] = x
      BY <1>1
    <3> QED
      BY <1>4, <3>1, <3>2
  <2>2. \A p \in N : match[p] \in W
    BY <1>3
  <2> HIDE DEF match
  <2> QED
    BY <2>1, <2>2
<1> HIDE DEF match
<1>6. \A p \in N : At(new, p) = At(were, match[p])
  BY <1>1, <1>2, <1>4
<1>7. \A p, q \in N : Precedes(p, q) => Precedes(match[p], match[q])
  BY <1>1, <1>2, <1>4
<1>8. \A p, q \in N : p[1] = q[1] <=> match[p][1] = match[q][1]
  BY <1>1, <1>2, <1>4
<1> QED
  BY <1>3, <1>5, <1>6, <1>7, <1>8 DEF SameOthers, N, W

\* Install leaves the commands of others where they are, and ours is there once.
LEMMA InstallKeeps ==
  ASSUME NEW groups \in Groups, NEW command \in HookCommands, AtMostOnce(groups, command)
  PROVE  /\ InstallHookEvent(groups, command) \in Groups
         /\ SameOthers(InstallHookEvent(groups, command), groups, command)
         /\ AtMostOnce(InstallHookEvent(groups, command), command)
<1>1. CASE HasEntry(groups, command)
  BY <1>1, SameOthersReflexive DEF InstallHookEvent
<1>2. CASE ~HasEntry(groups, command)
  <2> DEFINE new == Append(groups, <<command>>)
             n == Len(groups)
             last == <<n + 1, 1>>
             G == Seq(HookCommands) \cup {NoHooks}
  <2>1. InstallHookEvent(groups, command) = new
    BY <1>2 DEF InstallHookEvent
  <2>2. <<command>> \in Seq(HookCommands) /\ <<command>> # NoHooks /\ DOMAIN <<command>> = {1} /\ <<command>>[1] = command
    <3>1. <<command>> \in Seq(HookCommands) /\ DOMAIN <<command>> = {1} /\ <<command>>[1] = command
      BY OneElement
    <3> QED
      BY <3>1, HookAssumption
  <2>3. new \in Groups
    <3>1. groups \in Seq(G) /\ <<command>> \in G
      BY <2>2 DEF Groups
    <3>2. new \in Seq(G)
      BY <3>1, OneMore
    <3> QED
      BY <3>2 DEF Groups
  <2>4. /\ n \in Nat /\ DOMAIN groups = 1..n /\ DOMAIN new = 1..(n + 1)
        /\ \A i \in 1..n : new[i] = groups[i]
        /\ new[n + 1] = <<command>>
    <3>1. groups \in Seq(G) /\ <<command>> \in G
      BY <2>2 DEF Groups
    <3> DEFINE added == <<command>>
    <3>2. added \in G
      BY <3>1
    <3> HIDE DEF G, added
    <3>3. /\ Len(groups) \in Nat /\ DOMAIN groups = 1..Len(groups)
          /\ DOMAIN Append(groups, added) = 1..(Len(groups) + 1)
          /\ \A i \in 1..Len(groups) : Append(groups, added)[i] = groups[i]
          /\ Append(groups, added)[Len(groups) + 1] = added
      BY <3>1, <3>2, OneMore
    <3> QED
      BY <3>3, Zenon DEF added
  <2> HIDE DEF new, n, G
  <2>5. DOMAIN HooksOf(new[n + 1]) = {1}
    BY <2>2, <2>4 DEF HooksOf
  <2>6. Places(new) = Places(groups) \cup {last}
    <3>1. ASSUME NEW p \in Places(new)
          PROVE  p \in Places(groups) \cup {last}
      <4>1. p = <<p[1], p[2]>> /\ p[1] \in 1..(n + 1) /\ p[2] \in DOMAIN HooksOf(new[p[1]])
        BY <2>4, PlacesArePairs
      <4>2. CASE p[1] \in 1..n
        <5>1. p[1] \in DOMAIN groups /\ p[2] \in DOMAIN HooksOf(groups[p[1]])
          BY <2>4, <4>1, <4>2
        <5>2. <<p[1], p[2]>> \in Places(groups)
          BY <5>1, PlacesArePairs
        <5> QED
          BY <4>1, <5>2
      <4>3. CASE p[1] = n + 1
        <5>1. p[2] = 1
          BY <2>5, <4>1, <4>3
        <5>2. <<p[1], p[2]>> = last
          BY <4>3, <5>1
        <5> QED
          BY <4>1, <5>2
      <4> QED
        BY <2>4, <4>1, <4>2, <4>3
    <3>2. ASSUME NEW p \in Places(groups)
          PROVE  p \in Places(new)
      <4>1. p = <<p[1], p[2]>> /\ p[1] \in 1..n /\ p[2] \in DOMAIN HooksOf(groups[p[1]])
        BY <2>4, PlacesArePairs
      <4>2. p[1] \in DOMAIN new /\ p[2] \in DOMAIN HooksOf(new[p[1]])
        BY <2>4, <4>1
      <4>3. <<p[1], p[2]>> \in Places(new)
        BY <4>2, PlacesArePairs
      <4> QED
        BY <4>1, <4>3
    <3>3. last \in Places(new)
      <4>1. n + 1 \in DOMAIN new /\ 1 \in DOMAIN HooksOf(new[n + 1])
        BY <2>4, <2>5
      <4> QED
        BY <4>1, PlacesArePairs
    <3> QED
      BY <3>1, <3>2, <3>3
  <2>7. At(new, last) = command
    BY <2>2, <2>4 DEF At
  <2>8. \A p \in Places(groups) : At(new, p) = At(groups, p) /\ At(groups, p) # command
    <3> TAKE p \in Places(groups)
    <3>1. p[1] \in 1..n
      BY <2>4, PlacesArePairs
    <3>2. At(groups, p) # command
      BY <1>2 DEF HasEntry, Ours
    <3> QED
      BY <2>4, <3>1, <3>2 DEF At
  <2>9. Ours(new, command) = {last} /\ Others(new, command) = Places(groups) /\ Others(groups, command) = Places(groups)
    <3>1. Ours(new, command) = {last}
      BY <2>6, <2>7, <2>8 DEF Ours
    <3>2. last \notin Places(groups)
      BY <2>7, <2>8
    <3>3. Ours(groups, command) = {}
      BY <2>8 DEF Ours
    <3> QED
      BY <2>6, <3>1, <3>2, <3>3 DEF Others
  <2>10. AtMostOnce(new, command)
    BY <2>9 DEF AtMostOnce
  <2>11. SameOthers(new, groups, command)
    <3> DEFINE match == [p \in Places(groups) |-> p]
    <3>1. match \in [Places(groups) -> Places(groups)] /\ {match[p] : p \in Places(groups)} = Places(groups)
      OBVIOUS
    <3>2. \A p \in Places(groups) : match[p] = p
      OBVIOUS
    <3> HIDE DEF match
    <3>3. \A p \in Places(groups) : At(new, p) = At(groups, match[p])
      BY <2>8, <3>2
    <3> QED
      BY <2>9, <3>1, <3>2, <3>3 DEF SameOthers
  <2> QED
    BY <2>1, <2>3, <2>10, <2>11
<1> QED
  BY <1>1, <1>2

\* Uninstall takes ours out of every group, and every other command stays, in
\* its order: the match is from its new place to the one it had.
LEMMA UninstallKeeps ==
  ASSUME NEW groups \in Groups, NEW command \in HookCommands, AtMostOnce(groups, command)
  PROVE  /\ UninstallHookEvent(groups, command) \in Groups
         /\ SameOthers(UninstallHookEvent(groups, command), groups, command)
         /\ AtMostOnce(UninstallHookEvent(groups, command), command)
<1>1. CASE ~HasEntry(groups, command)
  BY <1>1, SameOthersReflexive DEF UninstallHookEvent
<1>2. CASE HasEntry(groups, command)
  <2> DEFINE G == Seq(HookCommands) \cup {NoHooks}
             others(i) == {j \in DOMAIN groups[i] : groups[i][j] # command}
             left == [i \in DOMAIN groups |-> IF groups[i] = NoHooks THEN NoHooks ELSE Selected(groups[i], others(i))]
             kept == {i \in DOMAIN left : left[i] # <<>>}
             new == Selected(left, kept)
  <2>1. UninstallHookEvent(groups, command) = new
    BY <1>2 DEF UninstallHookEvent
  <2>2. ASSUME NEW i \in DOMAIN groups, groups[i] # NoHooks
        PROVE  /\ groups[i] \in Seq(HookCommands)
               /\ left[i] = Selected(groups[i], others(i))
               /\ left[i] \in Seq(HookCommands) /\ left[i] # NoHooks
               /\ DOMAIN left[i] = 1..Cardinality(others(i))
               /\ \A l \in 1..Cardinality(others(i)) :
                    Nth(others(i), l) \in others(i) /\ left[i][l] = groups[i][Nth(others(i), l)]
               /\ \A k, l \in 1..Cardinality(others(i)) : k < l => Nth(others(i), k) < Nth(others(i), l)
               /\ \A j \in others(i) : \E l \in 1..Cardinality(others(i)) : Nth(others(i), l) = j
    <3>1. groups[i] \in Seq(HookCommands)
      BY <2>2 DEF Groups
    <3>2. others(i) \in SUBSET (DOMAIN groups[i])
      OBVIOUS
    <3>3. left[i] = Selected(groups[i], others(i))
      BY <2>2
    <3> HIDE DEF left, others
    <3>4. /\ Selected(groups[i], others(i)) \in Seq(HookCommands)
          /\ DOMAIN Selected(groups[i], others(i)) = 1..Cardinality(others(i))
          /\ \A l \in 1..Cardinality(others(i)) : /\ Nth(others(i), l) \in others(i)
                                                  /\ Selected(groups[i], others(i))[l] = groups[i][Nth(others(i), l)]
          /\ \A k, l \in 1..Cardinality(others(i)) : k < l => Nth(others(i), k) < Nth(others(i), l)
          /\ \A j \in others(i) : \E l \in 1..Cardinality(others(i)) : Nth(others(i), l) = j
      BY <3>1, <3>2, SelectedElements
    <3> QED
      BY <3>1, <3>3, <3>4, HookAssumption
  <2>3. \A i \in DOMAIN groups : groups[i] = NoHooks => left[i] = NoHooks
    OBVIOUS
  <2>4. DOMAIN left = DOMAIN groups
    OBVIOUS
  <2>5. left \in Seq(G)
    <3>1. DOMAIN groups = 1..Len(groups) /\ Len(groups) \in Nat
      BY DEF Groups
    <3> HIDE DEF others
    <3>2. \A i \in DOMAIN groups : left[i] \in G
      BY <2>2, <2>3
    <3>3. left = [i \in 1..Len(groups) |-> left[i]]
      BY <3>1
    <3> HIDE DEF left
    <3>4. left \in [1..Len(groups) -> G]
      BY <3>1, <3>2, <3>3
    <3> QED
      BY <3>1, <3>4
  <2>6. kept \in SUBSET (DOMAIN left) /\ \A i \in DOMAIN left : left[i] # <<>> => i \in kept
    OBVIOUS
  <2> HIDE DEF left, kept, G
  <2>7. /\ new \in Seq(G)
        /\ DOMAIN new = 1..Cardinality(kept)
        /\ \A k \in 1..Cardinality(kept) : Nth(kept, k) \in kept /\ new[k] = left[Nth(kept, k)]
        /\ \A k, l \in 1..Cardinality(kept) : k < l => Nth(kept, k) < Nth(kept, l)
        /\ \A i \in kept : \E k \in 1..Cardinality(kept) : Nth(kept, k) = i
    BY <2>5, <2>6, SelectedElements
  <2> HIDE DEF new
  <2>8. new \in Groups
    BY <2>7 DEF Groups, G
  \* The group and the position that a command left in the file had.
  <2> DEFINE group(p) == Nth(kept, p[1])
             place(p) == Nth(others(group(p)), p[2])
  <2>9. ASSUME NEW p \in Places(new)
        PROVE  /\ p = <<p[1], p[2]>> /\ p[1] \in 1..Cardinality(kept)
               /\ group(p) \in DOMAIN groups /\ groups[group(p)] # NoHooks
               /\ p[2] \in 1..Cardinality(others(group(p)))
               /\ place(p) \in others(group(p))
               /\ At(new, p) = groups[group(p)][place(p)]
    <3>1. p = <<p[1], p[2]>> /\ p[1] \in 1..Cardinality(kept) /\ p[2] \in DOMAIN HooksOf(new[p[1]])
      BY <2>7, PlacesArePairs
    <3>2. group(p) \in kept /\ new[p[1]] = left[group(p)]
      BY <2>7, <3>1
    <3>3. group(p) \in DOMAIN groups
      BY <2>4, <2>6, <3>2
    <3>4. new[p[1]] # NoHooks
      BY <3>1 DEF HooksOf
    <3>5. groups[group(p)] # NoHooks
      BY <2>3, <3>2, <3>3, <3>4
    <3>6. p[2] \in DOMAIN left[group(p)]
      BY <3>1, <3>2, <3>4 DEF HooksOf
    <3> HIDE DEF group, others
    <3>7. p[2] \in 1..Cardinality(others(group(p)))
      BY <2>2, <3>3, <3>5, <3>6
    <3>8. Nth(others(group(p)), p[2]) \in others(group(p)) /\ left[group(p)][p[2]] = groups[group(p)][Nth(others(group(p)), p[2])]
      BY <2>2, <3>3, <3>5, <3>7
    <3>9. At(new, p) = left[group(p)][p[2]]
      BY <3>2 DEF At
    <3> QED
      BY <3>1, <3>3, <3>5, <3>7, <3>8, <3>9
  <2>10. ASSUME NEW p \in Places(new)
         PROVE  /\ <<group(p), place(p)>> \in Others(groups, command)
                /\ At(groups, <<group(p), place(p)>>) = At(new, p)
                /\ At(new, p) # command
    <3>1. /\ group(p) \in DOMAIN groups /\ groups[group(p)] # NoHooks
          /\ place(p) \in others(group(p))
          /\ At(new, p) = groups[group(p)][place(p)]
      BY <2>9
    <3> HIDE DEF group, place
    <3>2. place(p) \in DOMAIN HooksOf(groups[group(p)]) /\ groups[group(p)][place(p)] # command
      BY <3>1 DEF HooksOf
    <3>3. <<group(p), place(p)>> \in Places(groups)
      BY <3>1, <3>2, PlacesArePairs
    <3>4. At(groups, <<group(p), place(p)>>) = groups[group(p)][place(p)]
      BY DEF At
    <3> QED
      BY <3>1, <3>2, <3>3, <3>4 DEF Others, Ours
  <2>11. Ours(new, command) = {} /\ Others(new, command) = Places(new)
    BY <2>10 DEF Ours, Others
  <2>12. AtMostOnce(new, command)
    BY <2>11 DEF AtMostOnce
  <2> DEFINE match == [p \in Places(new) |-> <<group(p), place(p)>>]
  <2>13. match \in [Places(new) -> Others(groups, command)]
    BY <2>10
  <2>14. \A p \in Places(new) : match[p] = <<group(p), place(p)>>
    OBVIOUS
  <2>15. \A q \in Others(groups, command) : \E p \in Places(new) : match[p] = q
    <3> TAKE q \in Others(groups, command)
    <3>1. /\ q = <<q[1], q[2]>> /\ q[1] \in DOMAIN groups /\ q[2] \in DOMAIN HooksOf(groups[q[1]])
          /\ At(groups, q) # command
      BY PlacesArePairs DEF Others, Ours
    <3>2. groups[q[1]] # NoHooks
      BY <3>1 DEF HooksOf
    <3>3. q[2] \in others(q[1])
      BY <3>1, <3>2 DEF HooksOf, At
    <3> HIDE DEF others, match
    <3>4. PICK l \in 1..Cardinality(others(q[1])) : Nth(others(q[1]), l) = q[2]
      BY <2>2, <3>1, <3>2, <3>3
    <3>5. left[q[1]] \in Seq(HookCommands) /\ left[q[1]] # NoHooks /\ l \in DOMAIN left[q[1]]
      BY <2>2, <3>1, <3>2, <3>4
    <3>6. left[q[1]] # <<>>
      BY <3>5
    <3>7. PICK k \in 1..Cardinality(kept) : Nth(kept, k) = q[1]
      BY <2>4, <2>6, <2>7, <3>1, <3>6
    <3>8. k \in DOMAIN new /\ new[k] = left[q[1]]
      BY <2>7, <3>7
    <3>9. l \in DOMAIN HooksOf(new[k])
      BY <3>5, <3>8 DEF HooksOf
    <3>10. <<k, l>> \in Places(new)
      BY <3>8, <3>9, PlacesArePairs
    <3>11. group(<<k, l>>) = q[1] /\ place(<<k, l>>) = q[2]
      BY <3>4, <3>7
    <3>12. match[<<k, l>>] = q
      BY <2>14, <3>1, <3>10, <3>11
    <3> QED
      BY <3>10, <3>12
  <2>16. ASSUME NEW p \in Places(new), NEW q \in Places(new), Precedes(p, q)
         PROVE  Precedes(match[p], match[q])
    <3> HIDE DEF match
    <3>1. match[p] = <<group(p), place(p)>> /\ match[q] = <<group(q), place(q)>>
      BY <2>14
    <3>2. p[1] \in 1..Cardinality(kept) /\ q[1] \in 1..Cardinality(kept)
      BY <2>9
    <3>3. CASE p[1] < q[1]
      <4>1. group(p) < group(q)
        BY <2>7, <3>2, <3>3
      <4> QED
        BY <3>1, <4>1 DEF Precedes
    <3>4. CASE p[1] = q[1] /\ p[2] < q[2]
      <4>1. group(p) = group(q)
        BY <3>4
      <4>2. /\ group(p) \in DOMAIN groups /\ groups[group(p)] # NoHooks
            /\ p[2] \in 1..Cardinality(others(group(p)))
        BY <2>9
      <4>3. q[2] \in 1..Cardinality(others(group(p)))
        BY <2>9, <4>1
      <4> HIDE DEF group, others
      <4>4. Nth(others(group(p)), p[2]) < Nth(others(group(p)), q[2])
        BY <2>2, <3>4, <4>2, <4>3
      <4>5. place(p) < place(q)
        BY <4>1, <4>4
      <4> QED
        BY <3>1, <4>1, <4>5 DEF Precedes
    <3> QED
      BY <2>16, <3>3, <3>4 DEF Precedes
  <2>17. ASSUME NEW p \in Places(new), NEW q \in Places(new)
         PROVE  p[1] = q[1] <=> match[p][1] = match[q][1]
    <3>1. p[1] \in 1..Cardinality(kept) /\ q[1] \in 1..Cardinality(kept)
      BY <2>9
    <3>2. match[p][1] = Nth(kept, p[1]) /\ match[q][1] = Nth(kept, q[1])
      BY <2>14
    <3>3. kept \in SUBSET Nat
      BY <2>4, <2>6 DEF Groups
    <3>4. Nth(kept, p[1]) \in Nat /\ Nth(kept, q[1]) \in Nat
      BY <2>7, <3>1, <3>3
    <3> HIDE DEF match
    <3>5. /\ p[1] < q[1] => Nth(kept, p[1]) < Nth(kept, q[1])
          /\ q[1] < p[1] => Nth(kept, q[1]) < Nth(kept, p[1])
      BY <2>7, <3>1
    <3>6. p[1] \in Int /\ q[1] \in Int
      BY <3>1
    <3>7. p[1] = q[1] <=> Nth(kept, p[1]) = Nth(kept, q[1])
      BY <3>4, <3>5, <3>6
    <3> QED
      BY <3>2, <3>7
  <2>18. SameOthers(new, groups, command)
    <3> HIDE DEF match, group, place
    <3>1. {match[p] : p \in Places(new)} = Others(groups, command)
      BY <2>13, <2>15
    <3>2. \A p \in Places(new) : At(new, p) = At(groups, match[p])
      BY <2>10, <2>14
    <3> QED
      BY <2>11, <2>13, <2>16, <2>17, <3>1, <3>2 DEF SameOthers
  <2> QED
    BY <2>1, <2>8, <2>12, <2>18
<1> QED
  BY <1>1, <1>2

\* Both edits keep what has been kept so far.
LEMMA EditKeepsSince ==
  ASSUME NEW were, NEW content, KeptSince(were, content)
  PROVE  KeptSince(were, Installed(content)) /\ KeptSince(were, Uninstalled(content))
<1>1. \A e \in Events : /\ content[e] \in Groups /\ Own[e] \in HookCommands /\ AtMostOnce(content[e], Own[e])
                         /\ SameOthers(content[e], were[e], Own[e])
  BY HookAssumption DEF KeptSince
<1>2. KeptSince(were, Installed(content))
  <2>1. ASSUME NEW e \in Events
        PROVE  /\ Installed(content)[e] \in Groups
               /\ SameOthers(Installed(content)[e], were[e], Own[e])
               /\ AtMostOnce(Installed(content)[e], Own[e])
    <3>1. Installed(content)[e] = InstallHookEvent(content[e], Own[e])
      BY DEF Installed
    <3>2. /\ Installed(content)[e] \in Groups /\ AtMostOnce(Installed(content)[e], Own[e])
          /\ SameOthers(Installed(content)[e], content[e], Own[e])
      BY <1>1, <3>1, InstallKeeps
    <3> QED
      BY <1>1, <3>2, SameOthersTransitive
  <2>2. Installed(content) = [e \in Events |-> Installed(content)[e]]
    BY DEF Installed
  <2>3. Installed(content) \in [Events -> Groups]
    BY <2>1, <2>2
  <2> QED
    BY <2>1, <2>3 DEF KeptSince
<1>3. KeptSince(were, Uninstalled(content))
  <2>1. ASSUME NEW e \in Events
        PROVE  /\ Uninstalled(content)[e] \in Groups
               /\ SameOthers(Uninstalled(content)[e], were[e], Own[e])
               /\ AtMostOnce(Uninstalled(content)[e], Own[e])
    <3>1. Uninstalled(content)[e] = UninstallHookEvent(content[e], Own[e])
      BY DEF Uninstalled
    <3>2. /\ Uninstalled(content)[e] \in Groups /\ AtMostOnce(Uninstalled(content)[e], Own[e])
          /\ SameOthers(Uninstalled(content)[e], content[e], Own[e])
      BY <1>1, <3>1, UninstallKeeps
    <3> QED
      BY <1>1, <3>2, SameOthersTransitive
  <2>2. Uninstalled(content) = [e \in Events |-> Uninstalled(content)[e]]
    BY DEF Uninstalled
  <2>3. Uninstalled(content) \in [Events -> Groups]
    BY <2>1, <2>2
  <2> QED
    BY <2>1, <2>3 DEF KeptSince
<1> QED
  BY <1>2, <1>3

\* Both edits keep settings that were kept so far.
LEMMA EditKeeps ==
  ASSUME NEW content, SettingsKept(content)
  PROVE  SettingsKept(Installed(content)) /\ SettingsKept(Uninstalled(content))
BY EditKeepsSince DEF SettingsKept

\* An empty file has no commands in it, and none twice.
LEMMA EmptyIsKept == SettingsKept(NoSettings)
<1> DEFINE none == <<>>
<1>1. NoSettings \in [Events -> Groups] /\ \A e \in Events : NoSettings[e] = none
  BY DEF NoSettings, Groups
<1>2. Places(none) = {}
  BY DEF Places
<1>3. \A e \in Events : AtMostOnce(none, Own[e])
  BY <1>2 DEF AtMostOnce, Ours
<1>4. \A e \in Events : SameOthers(none, none, Own[e])
  BY SameOthersReflexive
<1> HIDE DEF none
<1> QED
  BY <1>1, <1>3, <1>4 DEF SettingsKept, KeptSince

\* What matches an empty file has no commands of others.
LEMMA NoOthersLeft ==
  ASSUME NEW groups, NEW command, SameOthers(groups, <<>>, command)
  PROVE  Others(groups, command) = {}
<1>1. Others(<<>>, command) = {}
  BY DEF Others, Places
<1>2. PICK match \in [Others(groups, command) -> Others(<<>>, command)] : TRUE
  BY DEF SameOthers
<1> QED
  BY <1>1, <1>2

-----------------------------------------------------------------------------

(* The server's devices are only ever added.                               *)

\* Nobody loses a device.
Keeps(old, new) == \A token, user : DeviceOf(old, token) = {user} => DeviceOf(new, token) = {user}

\* A device is one of a user the server knows.
LEMMA DeviceIsOfUser ==
  ASSUME ServerInv, NEW token, NEW user, DeviceOf(db, token) = {user}
  PROVE  user \in Users
<1>1. token \in DOMAIN db.devices /\ db.devices[token] = user
  BY DEF DeviceOf
<1>2. QED
  BY <1>1 DEF ServerInv

\* A sound identity's token is one the server has given out, or none.
LEMMA TokenKnown ==
  ASSUME ServerInv, NEW identity, Sound(identity, db)
  PROVE  /\ identity.token \in 0..Len(db.devices) /\ identity.token \in Nat
         /\ identity.user \in Users \cup Range(LocalOwner)
<1>1. Len(db.devices) \in Nat /\ DOMAIN db.devices = 1..Len(db.devices)
  BY DEF ServerInv
<1>2. CASE identity.remote
  <2>1. DeviceOf(db, identity.token) = {identity.user}
    BY <1>2 DEF Sound, IdentityHolds
  <2>2. identity.token \in DOMAIN db.devices
    BY <2>1 DEF DeviceOf
  <2> QED
    BY <1>1, <2>1, <2>2, DeviceIsOfUser, SMTT(20)
<1>3. CASE ~identity.remote
  BY <1>1, <1>3 DEF Sound
<1> QED
  BY <1>2, <1>3

\* register_device() adds a device, which its token finds.
LEMMA RegisteredAdds ==
  ASSUME ServerInv, NEW user \in Users
  PROVE  LET new == Registered(db, user)
         IN /\ new = [devices |-> new.devices, requests |-> new.requests, grants |-> new.grants, usage |-> new.usage]
            /\ new.devices \in Seq(Users)
            /\ Keeps(db, new)
            /\ DeviceOf(new, Len(new.devices)) = {user}
<1> DEFINE new == Registered(db, user)
<1>1. /\ new = [devices |-> Append(db.devices, user), requests |-> db.requests, grants |-> db.grants, usage |-> db.usage]
  BY DEF Registered, ServerInv
<1>2. new.devices = Append(db.devices, user)
  BY <1>1
<1>3. new = [devices |-> new.devices, requests |-> new.requests, grants |-> new.grants, usage |-> new.usage]
  BY <1>1
<1> HIDE DEF new
<1>4. /\ new.devices \in Seq(Users)
      /\ Len(new.devices) \in DOMAIN new.devices
      /\ new.devices[Len(new.devices)] = user
      /\ \A token \in DOMAIN db.devices : token \in DOMAIN new.devices /\ new.devices[token] = db.devices[token]
  BY <1>2 DEF ServerInv
<1>5. Keeps(db, new)
  BY <1>4 DEF Keeps, DeviceOf
<1>6. DeviceOf(new, Len(new.devices)) = {user}
  BY <1>4 DEF DeviceOf
<1> QED
  BY <1>3, <1>4, <1>5, <1>6 DEF new

\* The other calls leave the devices alone.
LEMMA OutcomeKeepsDevices ==
  ASSUME ServerInv, NEW token, NEW b, Allowed(db, token, b)
  PROVE  LET new == Outcome(db, b)
         IN /\ new = [devices |-> new.devices, requests |-> new.requests, grants |-> new.grants, usage |-> new.usage]
            /\ new.devices = db.devices
<1>1. b.op \in {"consume", "request", "approve", "reject", "revoke"}
  BY DEF Allowed
<1>2. CASE b.op = "consume"
  BY <1>2 DEF Outcome, Consumed, ServerInv
<1>3. CASE b.op = "request"
  BY <1>3 DEF Outcome, Requested, ServerInv
<1>4. CASE b.op = "approve"
  BY <1>4 DEF Outcome, Approved, ServerInv
<1>5. CASE b.op = "reject"
  BY <1>5 DEF Outcome, Rejected, ServerInv
<1>6. CASE b.op = "revoke"
  BY <1>6 DEF Outcome, Revoked, ServerInv
<1> QED
  BY <1>1, <1>2, <1>3, <1>4, <1>5, <1>6

\* What is sound stays so.
LEMMA SoundStays ==
  ASSUME NEW old, NEW new, Keeps(old, new), NEW identity, Sound(identity, old)
  PROVE  Sound(identity, new)
BY DEF Sound, IdentityHolds, Keeps

\* What a process holds is still good after the server's tables have grown.
LEMMA ProcessStays ==
  ASSUME NEW old, NEW new, Keeps(old, new), NEW q, ProcessInv(q, old)
  PROVE  ProcessInv(q, new)
<1>0. ASSUME NEW identity, Sound(identity, old) PROVE Sound(identity, new)
  BY <1>0, SoundStays
<1>1. ASSUME SavingInv(q, old) PROVE SavingInv(q, new)
  BY <1>0, <1>1 DEF SavingInv
<1>2. ASSUME WaitingInv(q, old) PROVE WaitingInv(q, new)
  BY <1>0, <1>2 DEF WaitingInv, Keeps
<1> QED
  BY <1>0, <1>1, <1>2 DEF ProcessInv

\* Tables that stay as they are have kept everything.
LEMMA KeepsItself == \A base : Keeps(base, base)
BY DEF Keeps

-----------------------------------------------------------------------------
(* The steps of a process.                                                 *)

\* A process goes on in a sound form, and the server is not touched.
LEMMA ProcessStep ==
  ASSUME ProcessesInv, NEW p \in Processes, NEW q, ProcessInv(q, db),
         process' = [process EXCEPT ![p] = q], UNCHANGED db
  PROVE  ProcessesInv'
<1>1. process' = [r \in Processes |-> process'[r]]
  BY DEF ProcessesInv
<1>2. ASSUME NEW r \in Processes PROVE ProcessInv(process'[r], db')
  BY DEF ProcessesInv
<1> QED
  BY <1>1, <1>2 DEF ProcessesInv

\* A new command takes the next number, for itself and for the one request it
\* may send.
LEMMA NumbersOfNew ==
  ASSUME NumbersInv, ProcessesInv, NEW p \in Processes, NEW m, NEW next, Enter(p, m, next),
         Numbered(next) => next.id = entered + 1,
         NEW sent, network' = network \cup sent,
         \A r \in sent : r.id = entered + 1 /\ r.token \in Nat /\ (next.command.op = "register" => r.body = next.command)
  PROVE  NumbersInv'
<1>1. entered' = entered + 1 /\ entered \in Nat
  BY DEF Enter, NumbersInv
<1>2. /\ process' = [process EXCEPT ![p] = next]
      /\ process'[p] = next
      /\ \A q \in Processes : q # p => process'[q] = process[q]
  BY DEF Enter, ProcessesInv
<1>3. \A q \in Processes : q # p /\ Numbered(process'[q]) => process'[q].id \in 1..entered
  BY <1>2 DEF NumbersInv
<1>4. \A q \in Processes : Numbered(process'[q]) => process'[q].id \in 1..entered'
  BY <1>1, <1>2, <1>3
<1>5. ASSUME NEW q1 \in Processes, NEW q2 \in Processes, Numbered(process'[q1]), Numbered(process'[q2]),
             process'[q1].id = process'[q2].id
      PROVE  q1 = q2
  <2>1. CASE q1 # p /\ q2 # p
    BY <1>2, <1>5, <2>1 DEF NumbersInv
  <2>2. CASE q1 = p /\ q2 # p
    BY <1>1, <1>2, <1>3, <1>5, <2>2
  <2>3. CASE q1 # p /\ q2 = p
    BY <1>1, <1>2, <1>3, <1>5, <2>3
  <2> QED
    BY <2>1, <2>2, <2>3
<1>6. ASSUME NEW r \in network'
      PROVE  /\ r.id \in 1..entered' /\ r.token \in Nat
             /\ \A q \in Processes :
                  process'[q].pc = "waiting" /\ process'[q].id = r.id /\ process'[q].command.op = "register"
                    => r.body = process'[q].command
  <2>1. CASE r \in network
    <3>1. r.id \in 1..entered /\ r.token \in Nat
      BY <2>1 DEF NumbersInv
    <3>2. process'[p].pc = "waiting" => process'[p].id # r.id
      BY <1>1, <1>2, <3>1 DEF Numbered
    <3>3. \A q \in Processes \ {p} :
            process[q].pc = "waiting" /\ process[q].id = r.id /\ process[q].command.op = "register"
              => r.body = process[q].command
      BY <2>1 DEF NumbersInv
    <3>4. \A q \in Processes \ {p} :
            process'[q].pc = "waiting" /\ process'[q].id = r.id /\ process'[q].command.op = "register"
              => r.body = process'[q].command
      BY <1>2, <3>3, Zenon
    <3>5. r.id \in 1..entered'
      BY <1>1, <3>1
    <3> QED
      BY <3>1, <3>2, <3>4, <3>5
  <2>2. CASE r \notin network
    <3>1. r.id = entered + 1 /\ r.token \in Nat /\ (next.pc = "waiting" /\ next.command.op = "register" => r.body = next.command)
      BY <2>2, <1>6
    <3>2. \A q \in Processes : q # p /\ process'[q].pc = "waiting" => process'[q].id # r.id
      BY <1>1, <1>3, <3>1 DEF Numbered
    <3> QED
      BY <1>1, <1>2, <3>1, <3>2
  <2> QED
    BY <2>1, <2>2
<1> QED
  BY <1>1, <1>4, <1>5, <1>6 DEF NumbersInv

\* A process that is past its request is of no concern to numbers.
LEMMA NumbersOfOld ==
  ASSUME NumbersInv, ProcessesInv, NEW p \in Processes, NEW q, ~Numbered(q),
         process' = [process EXCEPT ![p] = q], UNCHANGED <<entered, network>>
  PROVE  NumbersInv'
<1>1. process'[p] = q /\ \A o \in Processes : o # p => process'[o] = process[o]
  BY DEF ProcessesInv
<1>2. \A o \in Processes : Numbered(process'[o]) => process'[o] = process[o]
  BY <1>1
<1> QED
  BY <1>2 DEF NumbersInv, Numbered

\* A file is written with what was to be written, or cut short.
LEMMA FileStep ==
  ASSUME FilesInv, NEW m, NEW file, NEW content, Write(m, file, content), UNCHANGED db,
         file = "config" => content \in {Empty, Torn} \/ Sound(content, db),
         file # "config" => content \in {Empty, Torn} \/ SettingsKept(content)
  PROVE  FilesInv'
<1>1. CASE file = "config"
  <2>1. config' = [config EXCEPT ![m] = content]
    BY <1>1 DEF Write
  <2>2. UNCHANGED settings
    BY <1>1 DEF Write
  <2> QED
    BY <1>1, <2>1, <2>2 DEF FilesInv
<1>2. CASE file # "config"
  <2>1. settings' = [settings EXCEPT ![m] = content] /\ UNCHANGED config
    BY <1>2 DEF Write
  <2> QED
    BY <1>2, <2>1 DEF FilesInv
<1> QED
  BY <1>1, <1>2

\* Files that are not touched stay sound.
LEMMA FilesStay ==
  ASSUME FilesInv, Keeps(db, db'), UNCHANGED <<config, settings>>
  PROVE  FilesInv'
BY SoundStays DEF FilesInv

\* The answer to a request reaches the one process that waits for it.
LEMMA AnswerStep ==
  ASSUME ProcessesInv, NumbersInv, NEW r \in network, NEW answer, NEW token,
         Answer(r, answer, token), Keeps(db, db'), UNCHANGED entered,
         r.body.op = "register" /\ answer = "ok" => DeviceOf(db', token) = {r.body.of}
  PROVE  ProcessesInv' /\ NumbersInv'
<1> DEFINE Told(p) == process[p].pc = "waiting" /\ process[p].id = r.id
           After(p) ==
             [pc |-> "waiting", machine |-> process[p].machine, command |-> process[p].command,
              identity |-> process[p].identity, id |-> process[p].id, answer |-> answer, token |-> token]
<1>1. /\ process' = [p \in Processes |-> process'[p]]
      /\ \A p \in Processes :
           process'[p] = IF Told(p) THEN [process[p] EXCEPT !.answer = answer, !.token = token] ELSE process[p]
  BY DEF Answer
<1>2. ASSUME NEW p \in Processes, Told(p)
      PROVE  process'[p] = After(p)
  <2>1. WaitingInv(process[p], db)
    BY <1>2 DEF ProcessesInv, ProcessInv
  <2> QED
    BY <1>1, <1>2, <2>1 DEF WaitingInv
<1>3. ASSUME NEW p \in Processes PROVE ProcessInv(process'[p], db')
  <2>1. CASE ~Told(p)
    BY <1>1, <2>1, ProcessStays DEF ProcessesInv
  <2>2. CASE Told(p)
    <3>1. WaitingInv(process[p], db)
      BY <2>2 DEF ProcessesInv, ProcessInv
    <3>2. process[p].command.op = "join" => Sound(process[p].identity, db')
      BY <3>1, SoundStays DEF WaitingInv
    <3>3. process[p].command.op = "register" => r.body = process[p].command
      BY <2>2 DEF NumbersInv
    <3> DEFINE q == After(p)
    <3>4. process'[p] = q
      BY <1>2, <2>2
    <3>5. WaitingInv(q, db') /\ q.pc = "waiting"
      BY <2>2, <3>2, <3>3 DEF WaitingInv
    <3> HIDE DEF q
    <3> QED
      BY <3>4, <3>5 DEF ProcessInv
  <2> QED
    BY <2>1, <2>2
<1>4. \A p \in Processes :
        /\ process'[p].pc = process[p].pc
        /\ Numbered(process[p]) => process'[p].id = process[p].id
        /\ process[p].pc = "waiting" => process'[p].command = process[p].command
  <2> SUFFICES ASSUME NEW p \in Processes
               PROVE  /\ process'[p].pc = process[p].pc
                      /\ Numbered(process[p]) => process'[p].id = process[p].id
                      /\ process[p].pc = "waiting" => process'[p].command = process[p].command
    OBVIOUS
  <2>1. CASE Told(p)
    <3>1. process'[p] = After(p)
      BY <1>2, <2>1
    <3> QED
      BY <2>1, <3>1
  <2>2. CASE ~Told(p)
    BY <1>1, <2>2
  <2> QED
    BY <2>1, <2>2
<1>5. network' \subseteq network
  BY DEF Answer
<1>6. NumbersInv'
  BY <1>4, <1>5 DEF NumbersInv, Numbered
<1> QED
  BY <1>1, <1>3, <1>6 DEF ProcessesInv

\* What the server carries out leaves devices and answers as they should be.
LEMMA ServerStep ==
  ASSUME MachineInv, NEW r \in network, Register(r) \/ CarryOut(r) \/ Reply(r) \/ Refuse(r)
  PROVE  MachineInv'
<1>1. CASE Register(r)
  <2>1. r.body.of \in Users /\ db' = Registered(db, r.body.of)
    BY <1>1 DEF Register, CanRegister
  <2>2. ServerInv' /\ Keeps(db, db') /\ DeviceOf(db', Len(db'.devices)) = {r.body.of}
    BY <2>1, RegisteredAdds DEF MachineInv, ServerInv
  <2>3. ProcessesInv' /\ NumbersInv'
    BY <1>1, <2>2, AnswerStep DEF MachineInv, Register
  <2>4. FilesInv'
    BY <1>1, <2>2, FilesStay DEF MachineInv, Register
  <2> QED
    BY <2>2, <2>3, <2>4 DEF MachineInv
<1>2. CASE CarryOut(r)
  <2>1. ServerInv' /\ db'.devices = db.devices
    BY <1>2, OutcomeKeepsDevices DEF MachineInv, ServerInv, CarryOut
  <2>2. Keeps(db, db')
    BY <2>1 DEF Keeps, DeviceOf
  <2>3. r.body.op # "register"
    BY <1>2 DEF CarryOut, Allowed
  <2>4. ProcessesInv' /\ NumbersInv'
    BY <1>2, <2>2, <2>3, AnswerStep DEF MachineInv, CarryOut
  <2>5. FilesInv'
    BY <1>2, <2>2, FilesStay DEF MachineInv, CarryOut
  <2> QED
    BY <2>1, <2>4, <2>5 DEF MachineInv
<1>3. CASE Reply(r)
  <2>1. UNCHANGED <<db, config, settings, entered>> /\ Answer(r, "ok", 0) /\ r.body.op # "register"
    BY <1>3 DEF Reply, Answered
  <2>2. ServerInv' /\ Keeps(db, db')
    BY <2>1, KeepsItself DEF MachineInv, ServerInv
  <2>3. ProcessesInv' /\ NumbersInv'
    BY <2>1, <2>2, AnswerStep DEF MachineInv
  <2>4. FilesInv'
    BY <2>1, <2>2, FilesStay DEF MachineInv
  <2> QED
    BY <2>2, <2>3, <2>4 DEF MachineInv
<1>4. CASE Refuse(r)
  <2>1. UNCHANGED <<db, config, settings, entered>> /\ Answer(r, "error", 0)
    BY <1>4 DEF Refuse
  <2>2. ServerInv' /\ Keeps(db, db')
    BY <2>1, KeepsItself DEF MachineInv, ServerInv
  <2>3. ProcessesInv' /\ NumbersInv'
    BY <2>1, <2>2, AnswerStep DEF MachineInv
  <2>4. FilesInv'
    BY <2>1, <2>2, FilesStay DEF MachineInv
  <2> QED
    BY <2>2, <2>3, <2>4 DEF MachineInv
<1> QED
  BY <1>1, <1>2, <1>3, <1>4

\* A command is entered: it has its number, what it writes is sound, and what it
\* sends is its own.
LEMMA EnteredStep ==
  ASSUME MachineInv, NEW p \in Processes, NEW m, NEW next, Enter(p, m, next), ProcessInv(next, db),
         Numbered(next) => next.id = entered + 1,
         NEW sent, network' = network \cup sent,
         \A r \in sent : r.id = entered + 1 /\ r.token \in Nat /\ (next.command.op = "register" => r.body = next.command),
         UNCHANGED <<db, config, settings>>
  PROVE  MachineInv'
<1>1. ProcessesInv'
  BY ProcessStep DEF MachineInv, Enter
<1>2. NumbersInv'
  BY NumbersOfNew DEF MachineInv
<1>3. FilesInv'
  BY KeepsItself, FilesStay DEF MachineInv
<1> QED
  BY <1>1, <1>2, <1>3 DEF MachineInv, ServerInv

\* A process that enters a state has sent nothing on the way: the network is
\* as it was, and the new state is one the invariant allows.
LEMMA EnteredSilently ==
  ASSUME MachineInv, NEW p \in Processes, NEW m, NEW next, Enter(p, m, next), ProcessInv(next, db),
         Numbered(next) => next.id = entered + 1, UNCHANGED <<db, config, settings, network>>
  PROVE  MachineInv'
<1> DEFINE sent == {}
<1>1. network' = network \cup sent
  OBVIOUS
<1>2. \A r \in sent : r.id = entered + 1 /\ r.token \in Nat /\ (next.command.op = "register" => r.body = next.command)
  OBVIOUS
<1> HIDE DEF sent
<1> QED
  BY <1>1, <1>2, EnteredStep

\* The forms in which a command goes on.
LEMMA SavingForm ==
  ASSUME NEW m, NEW file, NEW content, NEW base,
         file = "config" => Sound(content, base), file # "config" => SettingsKept(content)
  PROVE  ProcessInv(Saving(m, file, content), base) /\ ~Numbered(Saving(m, file, content))
BY DEF ProcessInv, SavingInv, Saving, Numbered

\* What a process that waits for a response holds.
LEMMA WaitingForm ==
  ASSUME NEW m, NEW c, NEW identity, NEW id, NEW base, c.op = "join" => Sound(identity, base)
  PROVE  /\ ProcessInv(Waiting(m, c, identity, id), base)
         /\ Waiting(m, c, identity, id).id = id
         /\ Waiting(m, c, identity, id).command = c
         /\ Waiting(m, c, identity, id).pc = "waiting"
BY DEF ProcessInv, WaitingInv, Waiting

\* An idle process holds nothing that could be wrong.
LEMMA IdleForm == \A base : ProcessInv(Idle, base) /\ ~Numbered(Idle)
BY DEF ProcessInv, Idle, Numbered

\* Starting a command keeps the invariant.
LEMMA CommandStep ==
  ASSUME MachineInv, NEW p \in Processes, NEW m \in Machines, NEW c \in Commands,
         Login(p, m, c) \/ LoginRemote(p, m, c) \/ Join(p, m, c) \/ Call(p, m, c) \/ EditHooks(p, m, c)
  PROVE  MachineInv'
<1>1. CASE Login(p, m, c)
  <2> DEFINE identity == Identity(FALSE, c.of, None, 0)
  <2>1. Sound(identity, db)
    BY <1>1 DEF Login, Sound, IdentityHolds, Identity
  <2>2. Enter(p, m, Saving(m, "config", identity)) /\ UNCHANGED <<db, config, settings, network>>
    BY <1>1 DEF Login
  <2> HIDE DEF identity
  <2> QED
    BY <2>1, <2>2, SavingForm, EnteredSilently
<1>2. CASE LoginRemote(p, m, c)
  <2> DEFINE next == Waiting(m, c, None, entered + 1)
             sent == {[id |-> entered + 1, token |-> 0, body |-> c]}
  <2>1. Enter(p, m, next) /\ UNCHANGED <<db, config, settings>> /\ network' = network \cup sent /\ c.op # "join"
    BY <1>2 DEF LoginRemote, Send
  <2>2. ProcessInv(next, db) /\ next.id = entered + 1 /\ next.command = c
    BY <2>1, WaitingForm
  <2>3. \A r \in sent : r.id = entered + 1 /\ r.token \in Nat /\ r.body = c
    OBVIOUS
  <2> HIDE DEF next, sent
  <2> QED
    BY <2>1, <2>2, <2>3, EnteredStep
<1>3. CASE Join(p, m, c)
  <2> DEFINE next == [pc |-> "loaded", machine |-> m, command |-> c, identity |-> config[m], id |-> entered + 1]
  <2>1. Enter(p, m, next) /\ UNCHANGED <<db, config, settings, network>> /\ c.op = "join"
    BY <1>3 DEF Join
  <2>2. config[m] # None => Sound(config[m], db)
    BY <1>3 DEF Join, MachineInv, FilesInv
  <2>3. ProcessInv(next, db) /\ next.id = entered + 1
    BY <2>1, <2>2 DEF ProcessInv
  <2> HIDE DEF next
  <2> QED
    BY <2>1, <2>3, EnteredSilently
<1>4. CASE Call(p, m, c)
  <2> DEFINE next == Waiting(m, c, config[m], entered + 1)
             sent == {[id |-> entered + 1, token |-> config[m].token, body |-> Request(c, config[m])]}
  <2>1. /\ Enter(p, m, next) /\ UNCHANGED <<db, config, settings>> /\ network' = network \cup sent
        /\ c.op \notin {"join", "register"}
    BY <1>4 DEF Call, Send
  <2>2. ProcessInv(next, db) /\ next.id = entered + 1 /\ next.command = c
    BY <2>1, WaitingForm
  <2>3. Sound(config[m], db)
    BY <1>4 DEF Call, MachineInv, FilesInv
  <2>4. config[m].token \in Nat
    BY <2>3, TokenKnown DEF MachineInv
  <2>5. \A r \in sent : r.id = entered + 1 /\ r.token \in Nat
    BY <2>4
  <2> HIDE DEF next, sent
  <2> QED
    BY <2>1, <2>2, <2>5, EnteredStep
<1>5. CASE EditHooks(p, m, c)
  <2> DEFINE loaded == Loaded(settings[m])
             edited == IF c.op = "install" THEN Installed(loaded) ELSE Uninstalled(loaded)
  <2>1. Enter(p, m, Saving(m, "settings", edited)) /\ UNCHANGED <<db, config, settings, network>>
    BY <1>5 DEF EditHooks
  <2>2. settings[m] # Torn
    BY <1>5 DEF EditHooks
  <2>3. SettingsKept(loaded)
    <3>1. CASE settings[m] = Empty
      BY <3>1, EmptyIsKept DEF Loaded, NoSettings
    <3>2. CASE settings[m] # Empty
      BY <2>2, <3>2 DEF MachineInv, FilesInv, Loaded
    <3> QED
      BY <3>1, <3>2
  <2> HIDE DEF loaded
  <2>4. SettingsKept(edited)
    BY <2>3, EditKeeps
  <2> HIDE DEF edited
  <2> QED
    BY <2>1, <2>4, SavingForm, EnteredSilently
<1> QED
  BY <1>1, <1>2, <1>3, <1>4, <1>5

\* join gives an identity a member of its user: on the server only to a remote
\* identity, in the local database only to a local one.
LEMMA JoinedSound ==
  ASSUME ServerInv, NEW identity, Sound(identity, db), NEW member
  PROVE  CanJoin(Owner, member, identity) \/ CanJoin(LocalOwner, member, identity)
           => Sound([identity EXCEPT !.member = member], db)
<1> DEFINE joined == Identity(identity.remote, identity.user, member, identity.token)
<1>1. [identity EXCEPT !.member = member] = joined
  BY DEF Sound, Identity
<1>2. /\ joined = Identity(joined.remote, joined.user, joined.member, joined.token)
      /\ joined.remote = identity.remote /\ joined.user = identity.user
      /\ joined.member = member /\ joined.token = identity.token
  BY DEF Identity
<1> HIDE DEF joined
<1>3. identity.remote => identity.user \in Users
  BY DeviceIsOfUser DEF Sound, IdentityHolds
<1>4. CASE CanJoin(Owner, member, identity)
  <2>0. member \in Members
    BY <1>4 DEF CanJoin, Members
  <2>1. identity.user = Owner[member] /\ identity.user \in Users
    BY <1>4 DEF CanJoin, Users, Members, Range
  <2>2. identity.remote
    BY <2>1, MachineAssumption DEF Sound
  <2> QED
    BY <1>1, <1>2, <2>0, <2>1, <2>2 DEF Sound, IdentityHolds
<1>5. CASE CanJoin(LocalOwner, member, identity)
  <2>0. member \in DOMAIN LocalOwner
    BY <1>5 DEF CanJoin
  <2>1. identity.user = LocalOwner[member] /\ identity.user \in Range(LocalOwner)
    BY <1>5 DEF CanJoin, Range
  <2>2. ~identity.remote
    BY <1>3, <2>1, MachineAssumption
  <2> QED
    BY <1>1, <1>2, <2>0, <2>1, <2>2 DEF Sound, IdentityHolds
<1> QED
  BY <1>4, <1>5

\* A process that loses its number needs no more than a sound form.
LEMMA StepWithoutNumber ==
  ASSUME MachineInv, NEW p \in Processes, NEW q, ProcessInv(q, db), ~Numbered(q),
         process' = [process EXCEPT ![p] = q], UNCHANGED <<db, entered, network>>, FilesInv'
  PROVE  MachineInv'
<1>1. ProcessesInv'
  BY ProcessStep DEF MachineInv
<1>2. NumbersInv'
  BY NumbersOfOld DEF MachineInv
<1> QED
  BY <1>1, <1>2 DEF MachineInv, ServerInv

\* A join sends its request under its number.
LEMMA StepWithNumber ==
  ASSUME MachineInv, NEW p \in Processes, Numbered(process[p]),
         NEW q, ProcessInv(q, db), q.id = process[p].id, q.command.op # "register",
         process' = [process EXCEPT ![p] = q],
         NEW r, r.id = process[p].id, r.token \in Nat, network' = network \cup {r}, UNCHANGED <<db, config, settings, entered>>
  PROVE  MachineInv'
<1>1. ProcessesInv'
  BY ProcessStep DEF MachineInv
<1>2. FilesInv'
  BY KeepsItself, FilesStay DEF MachineInv
<1>3. process'[p] = q /\ \A o \in Processes : o # p => process'[o] = process[o]
  BY DEF MachineInv, ProcessesInv
<1>4. \A o \in Processes : Numbered(process'[o]) => Numbered(process[o]) /\ process'[o].id = process[o].id
  BY <1>3
<1>5. r.id \in 1..entered
  BY DEF MachineInv, NumbersInv
<1>6. \A o \in Processes :
        process'[o].pc = "waiting" /\ process'[o].command.op = "register" =>
          /\ o # p /\ process'[o] = process[o]
          /\ process[o].id # r.id
  BY <1>3 DEF MachineInv, NumbersInv, Numbered
<1>7. NumbersInv'
  BY <1>4, <1>5, <1>6 DEF MachineInv, NumbersInv
<1> QED
  BY <1>1, <1>2, <1>7 DEF MachineInv, ServerInv

\* Every later step of a command keeps the invariant.
LEMMA ProcessGoesOn ==
  ASSUME MachineInv, NEW p \in Processes,
         JoinLoads(p) \/ Receive(p) \/ Truncate(p) \/ Fill(p) \/ GiveUp(p)
  PROVE  MachineInv'
<1> DEFINE q == process[p]
<1>0. ServerInv /\ ProcessInv(q, db)
  BY DEF MachineInv, ProcessesInv
<1>1. CASE JoinLoads(p)
  <2> DEFINE current == config[q.machine]
             joined == [current EXCEPT !.member = q.command.of]
             sent == [id |-> q.id, token |-> q.identity.token, body |-> Body("members", None, q.command.of, 0)]
             next == Waiting(q.machine, q.command, current, q.id)
  <2>1. /\ q.pc = "loaded" /\ q.command.op = "join" /\ q.machine \in Machines
        /\ UNCHANGED <<db, config, settings, entered>>
    BY <1>0, <1>1 DEF JoinLoads, ProcessInv
  <2>2. FilesInv'
    BY <2>1, KeepsItself, FilesStay DEF MachineInv
  <2>3. CASE process' = [process EXCEPT ![p] = Idle] /\ UNCHANGED network
    BY <2>1, <2>2, <2>3, IdleForm, StepWithoutNumber
  <2>4. CASE ~(process' = [process EXCEPT ![p] = Idle] /\ UNCHANGED network)
    <3>1. current \notin {None, Empty, Torn}
      BY <1>1, <2>4 DEF JoinLoads
    <3>2. Sound(current, db)
      BY <2>1, <3>1 DEF MachineInv, FilesInv
    <3>3. CASE q.identity # None /\ q.identity.remote
      <4>1. network' = network \cup {sent} /\ process' = [process EXCEPT ![p] = next]
        BY <1>1, <3>1, <3>3 DEF JoinLoads, Send
      <4>2. ProcessInv(next, db) /\ next.id = q.id /\ next.command.op # "register"
        BY <2>1, <3>2, WaitingForm
      <4>3. sent.id = q.id /\ Numbered(q)
        BY <2>1 DEF Numbered
      <4>4. Sound(q.identity, db)
        BY <1>0, <2>1, <3>3 DEF ProcessInv
      <4>5. sent.token \in Nat
        BY <1>0, <4>4, TokenKnown
      <4> HIDE DEF next, sent, current
      <4> QED
        BY <2>1, <4>1, <4>2, <4>3, <4>5, StepWithNumber
    <3>4. CASE ~(q.identity # None /\ q.identity.remote)
      <4>1. /\ UNCHANGED network /\ CanJoin(LocalOwner, q.command.of, current)
            /\ process' = [process EXCEPT ![p] = Saving(q.machine, "config", joined)]
        BY <1>1, <2>4, <3>1, <3>4 DEF JoinLoads
      <4>2. Sound(joined, db)
        BY <1>0, <3>2, <4>1, JoinedSound
      <4> HIDE DEF joined, current
      <4> QED
        BY <2>1, <2>2, <4>1, <4>2, SavingForm, StepWithoutNumber
    <3> QED
      BY <3>3, <3>4
  <2> QED
    BY <2>3, <2>4
<1>2. CASE Receive(p)
  <2>1. q.pc = "waiting" /\ UNCHANGED <<db, config, settings, entered, network>>
    BY <1>2 DEF Receive
  <2>2. FilesInv'
    BY <2>1, KeepsItself, FilesStay DEF MachineInv
  <2>3. WaitingInv(q, db)
    BY <1>0, <2>1 DEF ProcessInv
  <2>4. CASE q.answer = "ok" /\ q.command.op = "register"
    <3> DEFINE identity == Identity(TRUE, q.command.of, None, q.token)
    <3>1. process' = [process EXCEPT ![p] = Saving(q.machine, "config", identity)]
      BY <1>2, <2>4 DEF Receive
    <3>2. Sound(identity, db)
      BY <2>3, <2>4 DEF WaitingInv, Sound, IdentityHolds, Identity
    <3> HIDE DEF identity
    <3> QED
      BY <2>1, <2>2, <3>1, <3>2, SavingForm, StepWithoutNumber
  <2>5. CASE /\ ~(q.answer = "ok" /\ q.command.op = "register")
             /\ q.answer = "ok" /\ q.command.op = "join" /\ CanJoin(Owner, q.command.of, q.identity)
    <3> DEFINE joined == [q.identity EXCEPT !.member = q.command.of]
    <3>1. process' = [process EXCEPT ![p] = Saving(q.machine, "config", joined)]
      BY <1>2, <2>5 DEF Receive
    <3>2. Sound(joined, db)
      BY <1>0, <2>3, <2>5, JoinedSound DEF WaitingInv
    <3> HIDE DEF joined
    <3> QED
      BY <2>1, <2>2, <3>1, <3>2, SavingForm, StepWithoutNumber
  <2>6. CASE /\ ~(q.answer = "ok" /\ q.command.op = "register")
             /\ ~(q.answer = "ok" /\ q.command.op = "join" /\ CanJoin(Owner, q.command.of, q.identity))
    <3>1. process' = [process EXCEPT ![p] = Idle]
      BY <1>2, <2>6 DEF Receive
    <3> QED
      BY <2>1, <2>2, <3>1, IdleForm, StepWithoutNumber
  <2> QED
    BY <2>4, <2>5, <2>6
<1>3. CASE Truncate(p)
  <2> DEFINE next == [q EXCEPT !.pc = "saving"]
  <2>1. /\ q.pc = "ready" /\ Write(q.machine, q.file, Empty) /\ UNCHANGED <<db, entered, network>>
        /\ process' = [process EXCEPT ![p] = next]
    BY <1>3 DEF Truncate
  <2>2. SavingInv(q, db)
    BY <1>0, <2>1 DEF ProcessInv
  <2>3. next = [pc |-> "saving", machine |-> q.machine, file |-> q.file, content |-> q.content]
    BY <2>2 DEF SavingInv
  <2>4. ProcessInv(next, db) /\ ~Numbered(next)
    BY <2>2, <2>3 DEF ProcessInv, SavingInv, Numbered
  <2>5. FilesInv'
    BY <2>1, FileStep DEF MachineInv
  <2> HIDE DEF next
  <2> QED
    BY <2>1, <2>4, <2>5, StepWithoutNumber
<1>4. CASE Fill(p)
  <2>1. /\ q.pc = "saving" /\ UNCHANGED <<db, entered, network>>
        /\ process' = [process EXCEPT ![p] = Idle]
        /\ Write(q.machine, q.file, q.content) \/ Write(q.machine, q.file, Torn)
    BY <1>4 DEF Fill
  <2>2. SavingInv(q, db)
    BY <1>0, <2>1 DEF ProcessInv
  <2>3. FilesInv'
    BY <2>1, <2>2, FileStep DEF MachineInv, SavingInv
  <2> QED
    BY <2>1, <2>3, IdleForm, StepWithoutNumber
<1>5. CASE GiveUp(p)
  <2>1. process' = [process EXCEPT ![p] = Idle] /\ UNCHANGED <<db, config, settings, entered, network>>
    BY <1>5 DEF GiveUp
  <2>2. FilesInv'
    BY <2>1, KeepsItself, FilesStay DEF MachineInv
  <2> QED
    BY <2>1, <2>2, IdleForm, StepWithoutNumber
<1> QED
  BY <1>1, <1>2, <1>3, <1>4, <1>5

-----------------------------------------------------------------------------

\* The machines start sound.
LEMMA InitiallySound == Init => MachineInv
<1> SUFFICES ASSUME Init PROVE MachineInv
  OBVIOUS
<1>1. ServerInv
  BY InitialAssumption DEF Init, ServerInv
<1>2. config = InitialConfig /\ config = [m \in Machines |-> config[m]]
  BY InitialAssumption DEF Init
<1>3. ASSUME NEW m \in Machines, config[m] \notin {None, Empty, Torn} PROVE Sound(config[m], db)
  <2>1. config[m] \in Identities
    BY <1>2, <1>3, InitialAssumption
  <2>2. /\ config[m] = Identity(config[m].remote, config[m].user, config[m].member, config[m].token)
        /\ config[m].remote \in BOOLEAN
        /\ config[m].member \in Members \cup DOMAIN LocalOwner \cup {None}
    BY <2>1 DEF Identities, Identity
  <2>3. /\ IdentityHolds(config[m], db)
        /\ ~config[m].remote => config[m].user \in Range(LocalOwner) /\ config[m].token = 0
    BY <1>2, <1>3, InitialAssumption DEF Init
  <2> QED
    BY <2>2, <2>3 DEF Sound
<1>4. process = [p \in Processes |-> process[p]] /\ \A p \in Processes : process[p] = Idle
  BY DEF Init
<1>5. ProcessesInv
  BY <1>4, IdleForm DEF ProcessesInv
<1>6. NumbersInv
  BY <1>4 DEF Init, NumbersInv, Numbered, Idle
<1>7. /\ settings = [m \in Machines |-> settings[m]]
      /\ \A m \in Machines : SettingsKept(settings[m])
  <2>1. settings = [m \in Machines |-> InitialSettings]
    BY DEF Init
  <2>2. SettingsKept(InitialSettings)
    BY InitialAssumption, SameOthersReflexive DEF SettingsKept, KeptSince
  <2> QED
    BY <2>1, <2>2
<1> QED
  BY <1>1, <1>2, <1>3, <1>5, <1>6, <1>7 DEF MachineInv, FilesInv

\* No step of a process, the network or the server breaks the invariant.
LEMMA StaysSound == MachineInv /\ [Next]_vars => MachineInv'
<1> SUFFICES ASSUME MachineInv, [Next]_vars PROVE MachineInv'
  OBVIOUS
<1>1. CASE \E p \in Processes, m \in Machines, c \in Commands :
             Login(p, m, c) \/ LoginRemote(p, m, c) \/ Join(p, m, c) \/ Call(p, m, c) \/ EditHooks(p, m, c)
  BY <1>1, CommandStep
<1>2. CASE \E p \in Processes : JoinLoads(p) \/ Receive(p) \/ Truncate(p) \/ Fill(p) \/ GiveUp(p)
  BY <1>2, ProcessGoesOn
<1>3. CASE \E r \in network : Register(r) \/ CarryOut(r) \/ Reply(r) \/ Refuse(r)
  BY <1>3, ServerStep
<1>4. CASE UNCHANGED vars
  BY <1>4 DEF vars, MachineInv, ServerInv, FilesInv, ProcessesInv, NumbersInv
<1> QED
  BY <1>1, <1>2, <1>3, <1>4 DEF Next

\* Whichever logins and joins race for the identity file, and whatever is lost,
\* killed or late: what can be read of it holds a token the server knows as the
\* user's, and a member of that user (agent/identity.py, agent/commands.py).
THEOREM IdentityStaysSound == Spec => []SavedIdentityHolds
<1>1. MachineInv => SavedIdentityHolds
  BY DEF MachineInv, FilesInv, Sound, SavedIdentityHolds
<1> QED
  BY InitiallySound, StaysSound, <1>1, PTL DEF Spec

-----------------------------------------------------------------------------

(* The server's tables and the trail.                                      *)

\* A table is a sequence of rows, whatever they are.
Table(rows) == rows \in Seq(Range(rows))

\* A sequence of some set's elements is one.
LEMMA TableOf ==
  ASSUME NEW S, NEW rows \in Seq(S)
  PROVE  Table(rows) /\ \A i \in DOMAIN rows : rows[i] \in S
<1>1. Len(rows) \in Nat /\ rows \in [1..Len(rows) -> S]
  OBVIOUS
<1>2. rows \in [1..Len(rows) -> Range(rows)]
  BY <1>1 DEF Range
<1> QED
  BY <1>1, <1>2 DEF Table

\* A row is inserted.
LEMMA RowAppended ==
  ASSUME NEW rows, Table(rows), NEW row
  PROVE  /\ Table(Append(rows, row))
         /\ Len(rows) + 1 \in DOMAIN Append(rows, row) /\ Append(rows, row)[Len(rows) + 1] = row
         /\ Len(rows) + 1 \notin DOMAIN rows
         /\ \A i \in DOMAIN rows : i \in DOMAIN Append(rows, row) /\ Append(rows, row)[i] = rows[i]
         /\ \A i \in DOMAIN Append(rows, row) : i \in DOMAIN rows \/ i = Len(rows) + 1
<1> DEFINE new == Append(rows, row)
<1>1. /\ Len(rows) \in Nat /\ DOMAIN rows = 1..Len(rows)
      /\ new \in Seq(Range(rows) \cup {row})
      /\ Len(new) = Len(rows) + 1 /\ DOMAIN new = 1..Len(new)
      /\ new[Len(rows) + 1] = row
      /\ \A i \in DOMAIN rows : new[i] = rows[i]
  BY DEF Table
<1> HIDE DEF new
<1>2. new \in [1..Len(new) -> Range(new)]
  BY <1>1 DEF Range
<1>3. Table(new)
  BY <1>1, <1>2 DEF Table
<1> QED
  BY <1>1, <1>3 DEF new

\* A row is updated.
LEMMA RowUpdated ==
  ASSUME NEW rows, Table(rows), NEW i \in DOMAIN rows, NEW row
  PROVE  LET new == [rows EXCEPT ![i] = row]
         IN /\ Table(new)
            /\ DOMAIN new = DOMAIN rows
            /\ new[i] = row
            /\ \A j \in DOMAIN rows : j # i => new[j] = rows[j]
<1> DEFINE new == [rows EXCEPT ![i] = row]
<1>1. /\ Len(rows) \in Nat /\ DOMAIN rows = 1..Len(rows)
      /\ new = [j \in 1..Len(rows) |-> IF j = i THEN row ELSE rows[j]]
  BY DEF Table
<1>2. DOMAIN new = 1..Len(rows) /\ new[i] = row /\ \A j \in DOMAIN rows : j # i => new[j] = rows[j]
  BY <1>1
<1> HIDE DEF new
<1>3. new = [j \in 1..Len(rows) |-> new[j]]
  BY <1>1, <1>2
<1>4. \A j \in 1..Len(rows) : new[j] \in Range(new)
  BY <1>2 DEF Range
<1>5. new \in [1..Len(rows) -> Range(new)]
  BY <1>3, <1>4
<1>6. Table(new)
  BY <1>1, <1>5 DEF Table
<1> QED
  BY <1>1, <1>2, <1>6 DEF new

\* Rows as Requested and Approved insert them.
RequestForm(row) == row = [from |-> row.from, to |-> row.to, amount |-> row.amount, status |-> row.status]
GrantForm(row) == row = [request |-> row.request, source |-> row.source, amount |-> row.amount, status |-> row.status]

\* What the services keep of the database.
TablesHold(base) ==
  /\ Table(base.requests) /\ Table(base.grants) /\ Table(base.usage)
  /\ \A i \in DOMAIN base.requests : RequestForm(base.requests[i])
  /\ \A j \in DOMAIN base.grants : GrantForm(base.grants[j])
  /\ GrantsAnswerRequests(base)

\* What a request asks for has been done, and cannot be done again.
Settled(base, b) ==
  /\ b.op = "consume" => Recorded(base, b.of) # {}
  /\ b.op \in {"approve", "reject"} => b.of \in DOMAIN base.requests /\ base.requests[b.of].status # "PENDING"
  /\ b.op = "revoke" => b.of \in DOMAIN base.grants /\ base.grants[b.of].status # "ACTIVE"

\* A new status is all that changes in a row.
LEMMA StatusOfRow ==
  ASSUME NEW row, NEW status
  PROVE  /\ RequestForm(row) => /\ RequestForm([row EXCEPT !.status = status])
                                /\ [row EXCEPT !.status = status].status = status
         /\ GrantForm(row) => /\ GrantForm([row EXCEPT !.status = status])
                              /\ [row EXCEPT !.status = status].status = status
                              /\ [row EXCEPT !.status = status].request = row.request
<1>1. ASSUME RequestForm(row)
      PROVE  RequestForm([row EXCEPT !.status = status]) /\ [row EXCEPT !.status = status].status = status
  <2>1. [row EXCEPT !.status = status] = [from |-> row.from, to |-> row.to, amount |-> row.amount, status |-> status]
    BY <1>1 DEF RequestForm
  <2> QED
    BY <2>1 DEF RequestForm
<1>2. ASSUME GrantForm(row)
      PROVE  /\ GrantForm([row EXCEPT !.status = status])
             /\ [row EXCEPT !.status = status].status = status
             /\ [row EXCEPT !.status = status].request = row.request
  <2>1. [row EXCEPT !.status = status] =
          [request |-> row.request, source |-> row.source, amount |-> row.amount, status |-> status]
    BY <1>2 DEF GrantForm
  <2> QED
    BY <2>1 DEF GrantForm
<1> QED
  BY <1>1, <1>2

\* Each call does what it settles, once; what is settled stays so, and the tables
\* stay as they should be.
Settles(b, new) ==
  /\ TablesHold(new)
  /\ \A other : Settled(db, other) => Settled(new, other)
  /\ b.op # "request" => ~Settled(db, b) /\ Settled(new, b)

\* consume() inserts a usage record with its key.
LEMMA ConsumeSettles ==
  ASSUME ServerInv, TablesHold(db), NEW b, b.op = "consume", CanConsume(db, b)
  PROVE  Settles(b, Consumed(db, b))
<1> DEFINE row == [member |-> b.as, key |-> b.of, amount |-> b.amount]
           new == Consumed(db, b)
<1>1. /\ new.usage = Append(db.usage, row)
      /\ new.requests = db.requests /\ new.grants = db.grants
  BY DEF Consumed, ServerInv
<1>2. row.key = b.of
  OBVIOUS
<1> HIDE DEF new, row
<1>3. /\ Table(new.usage)
      /\ Len(db.usage) + 1 \in DOMAIN new.usage /\ new.usage[Len(db.usage) + 1] = row
      /\ \A i \in DOMAIN db.usage : i \in DOMAIN new.usage /\ new.usage[i] = db.usage[i]
  BY <1>1, RowAppended DEF TablesHold
<1>4. TablesHold(new)
  BY <1>1, <1>3 DEF TablesHold, GrantsAnswerRequests
<1>5. \A key : Recorded(db, key) \subseteq Recorded(new, key)
  BY <1>3 DEF Recorded
<1>6. ASSUME NEW other, Settled(db, other) PROVE Settled(new, other)
  BY <1>1, <1>5, <1>6 DEF Settled
<1>7. Recorded(new, b.of) # {}
  BY <1>2, <1>3 DEF Recorded
<1>8. ~Settled(db, b) /\ Settled(new, b)
  BY <1>7 DEF Settled, CanConsume
<1> QED
  BY <1>4, <1>6, <1>8 DEF Settles, new

\* request_capacity() inserts a pending request, which no grant answers yet.
LEMMA RequestSettles ==
  ASSUME ServerInv, TablesHold(db), NEW b, b.op = "request"
  PROVE  Settles(b, Requested(db, b))
<1> DEFINE row == [from |-> b.as, to |-> b.of, amount |-> b.amount, status |-> "PENDING"]
           new == Requested(db, b)
           last == Len(db.requests) + 1
<1>1. /\ new.requests = Append(db.requests, row)
      /\ new.usage = db.usage /\ new.grants = db.grants
  BY DEF Requested, ServerInv
<1>2. RequestForm(row) /\ row.status = "PENDING"
  BY DEF RequestForm
<1> HIDE DEF new, row
<1>3. /\ Table(new.requests)
      /\ last \in DOMAIN new.requests /\ new.requests[last] = row
      /\ last \notin DOMAIN db.requests
      /\ \A i \in DOMAIN db.requests : i \in DOMAIN new.requests /\ new.requests[i] = db.requests[i]
      /\ \A i \in DOMAIN new.requests : i \in DOMAIN db.requests \/ i = last
  BY <1>1, RowAppended DEF TablesHold
<1> HIDE DEF last
<1>4. GrantsAnswerRequests(new)
  <2>1. \A j \in DOMAIN new.grants : new.grants[j].request \in DOMAIN db.requests
    BY <1>1 DEF TablesHold, GrantsAnswerRequests
  <2>2. ASSUME NEW i \in DOMAIN new.requests
        PROVE  new.requests[i].status = "APPROVED" <=> \E j \in DOMAIN new.grants : new.grants[j].request = i
    <3>1. CASE i \in DOMAIN db.requests
      BY <1>1, <1>3, <3>1 DEF TablesHold, GrantsAnswerRequests
    <3>2. CASE i = last
      BY <1>2, <1>3, <2>1, <3>2
    <3> QED
      BY <1>3, <3>1, <3>2
  <2> QED
    BY <1>3, <2>1, <2>2 DEF GrantsAnswerRequests
<1>5. TablesHold(new)
  BY <1>1, <1>2, <1>3, <1>4 DEF TablesHold
<1>6. ASSUME NEW other, Settled(db, other) PROVE Settled(new, other)
  BY <1>1, <1>3, <1>6 DEF Settled, Recorded
<1> QED
  BY <1>5, <1>6 DEF Settles, new

\* approve_request() marks the request and inserts the one grant that answers it.
LEMMA ApproveSettles ==
  ASSUME ServerInv, TablesHold(db), NEW b, b.op = "approve", MayDecide(db, b)
  PROVE  Settles(b, Approved(db, b))
<1> DEFINE decided == [db.requests[b.of] EXCEPT !.status = "APPROVED"]
           grant == [request |-> b.of, source |-> b.as, amount |-> db.requests[b.of].amount, status |-> "ACTIVE"]
           new == Approved(db, b)
           last == Len(db.grants) + 1
<1>1. /\ new.requests = [db.requests EXCEPT ![b.of] = decided]
      /\ new.grants = Append(db.grants, grant)
      /\ new.usage = db.usage
  BY DEF Approved, ServerInv
<1>2. b.of \in DOMAIN db.requests /\ db.requests[b.of].status = "PENDING"
  BY DEF MayDecide
<1>3. /\ RequestForm(decided) /\ decided.status = "APPROVED"
      /\ GrantForm(grant) /\ grant.request = b.of
  BY <1>2, StatusOfRow DEF TablesHold, GrantForm
<1> HIDE DEF new, decided, grant
<1>4. /\ Table(new.requests) /\ DOMAIN new.requests = DOMAIN db.requests
      /\ new.requests[b.of] = decided
      /\ \A i \in DOMAIN db.requests : i # b.of => new.requests[i] = db.requests[i]
  BY <1>1, <1>2, RowUpdated DEF TablesHold
<1>5. /\ Table(new.grants)
      /\ last \in DOMAIN new.grants /\ new.grants[last] = grant
      /\ \A j \in DOMAIN db.grants : j \in DOMAIN new.grants /\ new.grants[j] = db.grants[j]
      /\ \A j \in DOMAIN new.grants : j \in DOMAIN db.grants \/ j = last
  BY <1>1, RowAppended DEF TablesHold
<1> HIDE DEF last
<1>6. GrantsAnswerRequests(new)
  <2>1. \A j \in DOMAIN new.grants : new.grants[j].request \in DOMAIN new.requests
    BY <1>2, <1>3, <1>4, <1>5 DEF TablesHold, GrantsAnswerRequests
  <2>2. ASSUME NEW i \in DOMAIN new.requests
        PROVE  new.requests[i].status = "APPROVED" <=> \E j \in DOMAIN new.grants : new.grants[j].request = i
    <3>1. CASE i = b.of
      BY <1>3, <1>4, <1>5, <3>1
    <3>2. CASE i # b.of
      <4>1. new.requests[i] = db.requests[i] /\ i \in DOMAIN db.requests
        BY <1>4, <3>2
      <4>2. (\E j \in DOMAIN new.grants : new.grants[j].request = i)
              <=> (\E j \in DOMAIN db.grants : db.grants[j].request = i)
        BY <1>3, <1>5, <3>2
      <4> QED
        BY <4>1, <4>2 DEF TablesHold, GrantsAnswerRequests
    <3> QED
      BY <3>1, <3>2
  <2> QED
    BY <2>1, <2>2 DEF GrantsAnswerRequests
<1>7. TablesHold(new)
  BY <1>1, <1>3, <1>4, <1>5, <1>6 DEF TablesHold
<1>8. ASSUME NEW other, Settled(db, other) PROVE Settled(new, other)
  <2>1. \A i \in DOMAIN db.requests : db.requests[i].status # "PENDING" => new.requests[i].status # "PENDING"
    BY <1>3, <1>4
  <2> QED
    BY <1>1, <1>4, <1>5, <1>8, <2>1 DEF Settled, Recorded
<1>9. ~Settled(db, b) /\ Settled(new, b)
  BY <1>2, <1>3, <1>4 DEF Settled
<1> QED
  BY <1>7, <1>8, <1>9 DEF Settles, new

\* reject_request() marks the request, which no grant answers.
LEMMA RejectSettles ==
  ASSUME ServerInv, TablesHold(db), NEW b, b.op = "reject", MayDecide(db, b)
  PROVE  Settles(b, Rejected(db, b))
<1> DEFINE decided == [db.requests[b.of] EXCEPT !.status = "REJECTED"]
           new == Rejected(db, b)
<1>1. /\ new.requests = [db.requests EXCEPT ![b.of] = decided]
      /\ new.grants = db.grants /\ new.usage = db.usage
  BY DEF Rejected, ServerInv
<1>2. b.of \in DOMAIN db.requests /\ db.requests[b.of].status = "PENDING"
  BY DEF MayDecide
<1>3. RequestForm(decided) /\ decided.status = "REJECTED"
  BY <1>2, StatusOfRow DEF TablesHold
<1> HIDE DEF new, decided
<1>4. /\ Table(new.requests) /\ DOMAIN new.requests = DOMAIN db.requests
      /\ new.requests[b.of] = decided
      /\ \A i \in DOMAIN db.requests : i # b.of => new.requests[i] = db.requests[i]
  BY <1>1, <1>2, RowUpdated DEF TablesHold
<1>5. GrantsAnswerRequests(new)
  BY <1>1, <1>2, <1>3, <1>4 DEF TablesHold, GrantsAnswerRequests
<1>6. TablesHold(new)
  BY <1>1, <1>3, <1>4, <1>5 DEF TablesHold
<1>7. ASSUME NEW other, Settled(db, other) PROVE Settled(new, other)
  <2>1. \A i \in DOMAIN db.requests : db.requests[i].status # "PENDING" => new.requests[i].status # "PENDING"
    BY <1>3, <1>4
  <2> QED
    BY <1>1, <1>4, <1>7, <2>1 DEF Settled, Recorded
<1>8. ~Settled(db, b) /\ Settled(new, b)
  BY <1>2, <1>3, <1>4 DEF Settled
<1> QED
  BY <1>6, <1>7, <1>8 DEF Settles, new

\* revoke_grant() marks the grant, which still answers its request.
LEMMA RevokeSettles ==
  ASSUME ServerInv, TablesHold(db), NEW b, b.op = "revoke", CanRevoke(db, b)
  PROVE  Settles(b, Revoked(db, b))
<1> DEFINE ended == [db.grants[b.of] EXCEPT !.status = "REVOKED"]
           new == Revoked(db, b)
<1>1. /\ new.grants = [db.grants EXCEPT ![b.of] = ended]
      /\ new.requests = db.requests /\ new.usage = db.usage
  BY DEF Revoked, ServerInv
<1>2. b.of \in DOMAIN db.grants /\ db.grants[b.of].status = "ACTIVE"
  BY DEF CanRevoke
<1>3. GrantForm(ended) /\ ended.status = "REVOKED" /\ ended.request = db.grants[b.of].request
  BY <1>2, StatusOfRow DEF TablesHold
<1> HIDE DEF new, ended
<1>4. /\ Table(new.grants) /\ DOMAIN new.grants = DOMAIN db.grants
      /\ new.grants[b.of] = ended
      /\ \A j \in DOMAIN db.grants : j # b.of => new.grants[j] = db.grants[j]
  BY <1>1, <1>2, RowUpdated DEF TablesHold
<1>5. \A j \in DOMAIN db.grants : new.grants[j].request = db.grants[j].request
  BY <1>3, <1>4
<1>6. GrantsAnswerRequests(new)
  BY <1>1, <1>4, <1>5 DEF TablesHold, GrantsAnswerRequests
<1>7. TablesHold(new)
  BY <1>1, <1>3, <1>4, <1>6 DEF TablesHold
<1>8. ASSUME NEW other, Settled(db, other) PROVE Settled(new, other)
  <2>1. \A j \in DOMAIN db.grants : db.grants[j].status # "ACTIVE" => new.grants[j].status # "ACTIVE"
    BY <1>3, <1>4
  <2> QED
    BY <1>1, <1>4, <1>8, <2>1 DEF Settled, Recorded
<1>9. ~Settled(db, b) /\ Settled(new, b)
  BY <1>2, <1>3, <1>4 DEF Settled
<1> QED
  BY <1>7, <1>8, <1>9 DEF Settles, new

\* Whatever the server carries out settles what was asked.
LEMMA OutcomeSettles ==
  ASSUME ServerInv, TablesHold(db), NEW token, NEW b, Allowed(db, token, b)
  PROVE  Settles(b, Outcome(db, b))
<1>1. b.op \in {"consume", "request", "approve", "reject", "revoke"}
  BY DEF Allowed
<1>2. CASE b.op = "consume"
  BY <1>2, ConsumeSettles DEF Allowed, Outcome
<1>3. CASE b.op = "request"
  BY <1>3, RequestSettles DEF Allowed, Outcome
<1>4. CASE b.op = "approve"
  BY <1>4, ApproveSettles DEF Allowed, Outcome, CanApprove
<1>5. CASE b.op = "reject"
  BY <1>5, RejectSettles DEF Allowed, Outcome
<1>6. CASE b.op = "revoke"
  BY <1>6, RevokeSettles DEF Allowed, Outcome
<1> QED
  BY <1>1, <1>2, <1>3, <1>4, <1>5, <1>6

\* Whatever the server carries out settles what was asked, for every database to
\* come; a registration touches none of it.
LEMMA TablesStep ==
  ASSUME MachineInv, TablesHold(db), [Next]_vars
  PROVE  /\ TablesHold(db)'
         /\ \A other : Settled(db, other) => Settled(db', other)
         /\ \/ UNCHANGED trail
            \/ \E r \in network :
                 /\ CarryOut(r)
                 /\ r.body.op # "request" => ~Settled(db, r.body)
                 /\ Settled(db', r.body)
<1>1. CASE \E r \in network : CarryOut(r)
  <2>1. PICK r \in network : CarryOut(r)
    BY <1>1
  <2>2. Settles(r.body, db')
    BY <2>1, OutcomeSettles DEF CarryOut, MachineInv
  <2>3. Settled(db', r.body)
    <3>1. CASE r.body.op # "request"
      BY <2>2, <3>1 DEF Settles
    <3>2. CASE r.body.op = "request"
      BY <3>2 DEF Settled
    <3> QED
      BY <3>1, <3>2
  <2> QED
    BY <2>1, <2>2, <2>3 DEF Settles
<1>2. CASE \E r \in network : Register(r)
  <2>1. PICK r \in network : Register(r)
    BY <1>2
  <2>2. db' = Registered(db, r.body.of) /\ UNCHANGED trail
    BY <2>1 DEF Register
  <2>3. db'.requests = db.requests /\ db'.grants = db.grants /\ db'.usage = db.usage
    BY <2>2 DEF Registered, MachineInv, ServerInv
  <2>4. TablesHold(db)'
    BY <2>3 DEF TablesHold, GrantsAnswerRequests
  <2>5. \A other : Settled(db, other) => Settled(db', other)
    BY <2>3 DEF Settled, Recorded
  <2> QED
    BY <2>2, <2>4, <2>5
<1>3. CASE ~(\E r \in network : CarryOut(r)) /\ ~(\E r \in network : Register(r))
  <2>1. UNCHANGED <<db, trail>>
    <3>1. CASE \E p \in Processes, m \in Machines, c \in Commands :
                 Login(p, m, c) \/ LoginRemote(p, m, c) \/ Join(p, m, c) \/ Call(p, m, c) \/ EditHooks(p, m, c)
      <4>1. PICK p \in Processes, m \in Machines, c \in Commands :
                 Login(p, m, c) \/ LoginRemote(p, m, c) \/ Join(p, m, c) \/ Call(p, m, c) \/ EditHooks(p, m, c)
        BY <3>1
      <4>2. CASE Login(p, m, c)
        BY <4>2 DEF Login
      <4>3. CASE LoginRemote(p, m, c)
        BY <4>3 DEF LoginRemote
      <4>4. CASE Join(p, m, c)
        BY <4>4 DEF Join
      <4>5. CASE Call(p, m, c)
        BY <4>5 DEF Call
      <4>6. CASE EditHooks(p, m, c)
        BY <4>6 DEF EditHooks
      <4> QED
        BY <4>1, <4>2, <4>3, <4>4, <4>5, <4>6
    <3>2. CASE \E p \in Processes : JoinLoads(p) \/ Receive(p)
      BY <3>2 DEF JoinLoads, Receive
    <3>3. CASE \E p \in Processes : Truncate(p) \/ Fill(p) \/ GiveUp(p)
      BY <3>3 DEF Truncate, Fill, GiveUp
    <3>4. CASE \E r \in network : Reply(r) \/ Refuse(r)
      BY <3>4 DEF Reply, Refuse
    <3>5. CASE UNCHANGED vars
      BY <3>5 DEF vars
    <3> QED
      BY <1>3, <3>1, <3>2, <3>3, <3>4, <3>5 DEF Next
  <2> QED
    BY <2>1 DEF TablesHold, GrantsAnswerRequests
<1> QED
  BY <1>1, <1>2, <1>3

\* Everything in the trail was asked by its member's user, is settled, and, unless
\* it is a request for capacity, is there once.
TrailInv ==
  /\ Table(trail)
  /\ OnlyOwnersAct
  /\ RetryHarmless
  /\ \A i \in DOMAIN trail : Settled(db, trail[i].body)

\* The trail stays so.
LEMMA TrailStep ==
  ASSUME MachineInv, TablesHold(db), TrailInv, [Next]_vars
  PROVE  TrailInv'
<1>1. CASE UNCHANGED trail
  BY <1>1, TablesStep DEF TrailInv, OnlyOwnersAct, RetryHarmless
<1>2. CASE \E r \in network : CarryOut(r) /\ (r.body.op # "request" => ~Settled(db, r.body)) /\ Settled(db', r.body)
  <2>1. PICK r \in network :
          CarryOut(r) /\ (r.body.op # "request" => ~Settled(db, r.body)) /\ Settled(db', r.body)
    BY <1>2
  <2> DEFINE entry == [user |-> db.devices[r.token], body |-> r.body]
             last == Len(trail) + 1
  <2>2. trail' = Append(trail, entry)
    BY <2>1 DEF CarryOut
  <2>3. Owner[r.body.as] = db.devices[r.token]
    BY <2>1 DEF CarryOut, Allowed, MayActAs, DeviceOf
  <2>4. Owner[entry.body.as] = entry.user /\ entry.body = r.body
    BY <2>3
  <2> HIDE DEF entry
  <2>5. /\ Table(trail')
        /\ last \in DOMAIN trail' /\ trail'[last] = entry
        /\ last \notin DOMAIN trail
        /\ \A i \in DOMAIN trail : i \in DOMAIN trail' /\ trail'[i] = trail[i]
        /\ \A i \in DOMAIN trail' : i \in DOMAIN trail \/ i = last
    BY <2>2, RowAppended DEF TrailInv
  <2> HIDE DEF last
  <2>6. OnlyOwnersAct'
    BY <2>4, <2>5 DEF TrailInv, OnlyOwnersAct
  <2>7. \A i \in DOMAIN trail : Settled(db', trail[i].body)
    BY TablesStep DEF TrailInv
  <2>8. \A i \in DOMAIN trail' : Settled(db', trail'[i].body)
    BY <2>1, <2>4, <2>5, <2>7
  <2>9. \A i \in DOMAIN trail : trail[i].body = r.body => r.body.op = "request"
    BY <2>1 DEF TrailInv
  <2>10. ASSUME NEW i \in DOMAIN trail', NEW j \in DOMAIN trail', trail'[i].body = trail'[j].body, i # j
         PROVE  trail'[i].body.op = "request"
    <3>1. CASE i \in DOMAIN trail /\ j \in DOMAIN trail
      BY <2>5, <2>10, <3>1 DEF TrailInv, RetryHarmless
    <3>2. CASE i \in DOMAIN trail /\ j = last
      BY <2>4, <2>5, <2>9, <2>10, <3>2
    <3>3. CASE i = last /\ j \in DOMAIN trail
      BY <2>4, <2>5, <2>9, <2>10, <3>3
    <3> QED
      BY <2>5, <2>10, <3>1, <3>2, <3>3
  <2>11. RetryHarmless'
    BY <2>10 DEF RetryHarmless
  <2> QED
    BY <2>5, <2>6, <2>8, <2>11 DEF TrailInv
<1> QED
  BY <1>1, <1>2, TablesStep

-----------------------------------------------------------------------------
(* How many devices there can be.                                          *)

Registrations(requests) == { r \in requests : r.body.op = "register" }

\* A device more is a registration less on its way, and a registration is a command.
CountInv ==
  /\ IsFiniteSet(Registrations(network))
  /\ Len(db.devices) + Cardinality(Registrations(network)) =< Len(InitialDb.devices) + entered
  /\ entered =< MaxCommands

\* Registrations on their way, when a request is sent or has arrived.
LEMMA RegistrationsCounted ==
  ASSUME IsFiniteSet(Registrations(network)), NEW r
  PROVE  /\ Cardinality(Registrations(network)) \in Nat
         /\ IsFiniteSet(Registrations(network \cup {r}))
         /\ Cardinality(Registrations(network \cup {r})) \in Nat
         /\ Cardinality(Registrations(network \cup {r})) =< Cardinality(Registrations(network)) + 1
         /\ r.body.op # "register" => Registrations(network \cup {r}) = Registrations(network)
         /\ IsFiniteSet(Registrations(network \ {r}))
         /\ Cardinality(Registrations(network \ {r})) \in Nat
         /\ Cardinality(Registrations(network \ {r})) =< Cardinality(Registrations(network))
         /\ r \in network /\ r.body.op = "register" =>
              Cardinality(Registrations(network \ {r})) = Cardinality(Registrations(network)) - 1
<1> DEFINE here == Registrations(network)
           more == Registrations(network \cup {r})
           less == Registrations(network \ {r})
<1>1. /\ r.body.op = "register" => more = here \cup {r}
      /\ r.body.op # "register" => more = here
      /\ less = here \ {r}
      /\ r \in here <=> r \in network /\ r.body.op = "register"
  BY DEF Registrations
<1> HIDE DEF here, more, less
<1>2. IsFiniteSet(here)
  BY DEF here
<1>3. Cardinality(here) \in Nat
  BY <1>2, FS_CardinalityType
<1>4. /\ IsFiniteSet(here \cup {r})
      /\ Cardinality(here \cup {r}) = IF r \in here THEN Cardinality(here) ELSE Cardinality(here) + 1
  BY <1>2, FS_AddElement
<1>5. /\ IsFiniteSet(less)
      /\ Cardinality(less) = IF r \in here THEN Cardinality(here) - 1 ELSE Cardinality(here)
  BY <1>1, <1>2, FS_RemoveElement
<1>6. Cardinality(less) \in Nat
  BY <1>5, FS_CardinalityType
<1>7. IsFiniteSet(more) /\ Cardinality(more) \in Nat /\ Cardinality(more) =< Cardinality(here) + 1
  <2>1. CASE more = here
    BY <1>2, <1>3, <2>1
  <2>2. CASE more = here \cup {r}
    BY <1>3, <1>4, <2>2
  <2> QED
    BY <1>1, <2>1, <2>2
<1>8. Cardinality(less) =< Cardinality(here)
  BY <1>3, <1>5
<1> QED
  BY <1>1, <1>3, <1>5, <1>6, <1>7, <1>8 DEF here, more, less

\* No step of an agent or the server breaks the count.
LEMMA CountStep ==
  ASSUME MachineInv, CountInv, [Next]_vars
  PROVE  CountInv'
<1> DEFINE devices == Len(db.devices)
           initially == Len(InitialDb.devices)
<1>0. /\ devices \in Nat /\ initially \in Nat /\ entered \in Nat /\ MaxCommands \in Nat
      /\ Cardinality(Registrations(network)) \in Nat
  BY MachineAssumption, InitialAssumption, FS_CardinalityType DEF MachineInv, ServerInv, NumbersInv, CountInv
<1>1. ASSUME NEW p \in Processes, NEW m \in Machines, NEW c \in Commands,
             Login(p, m, c) \/ LoginRemote(p, m, c) \/ Join(p, m, c) \/ Call(p, m, c) \/ EditHooks(p, m, c)
      PROVE  CountInv'
  <2>1. UNCHANGED db /\ entered' = entered + 1 /\ entered < MaxCommands
    BY <1>1 DEF Login, LoginRemote, Join, Call, EditHooks, Enter
  <2>2. UNCHANGED network \/ \E r : network' = network \cup {r}
    BY <1>1 DEF Login, LoginRemote, Join, Call, EditHooks, Send
  <2>3. /\ IsFiniteSet(Registrations(network'))
        /\ Cardinality(Registrations(network')) \in Nat
        /\ Cardinality(Registrations(network')) =< Cardinality(Registrations(network)) + 1
    <3>1. CASE UNCHANGED network
      BY <1>0, <3>1 DEF CountInv
    <3>2. CASE \E r : network' = network \cup {r}
      BY <3>2, RegistrationsCounted DEF CountInv
    <3> QED
      BY <2>2, <3>1, <3>2
  <2> HIDE DEF devices, initially
  <2>4. /\ devices + Cardinality(Registrations(network')) =< initially + entered'
        /\ entered' =< MaxCommands
    <3>1. devices + Cardinality(Registrations(network)) =< initially + entered
      BY DEF CountInv, devices, initially
    <3> QED
      BY <1>0, <2>1, <2>3, <3>1
  <2> QED
    BY <2>1, <2>3, <2>4 DEF CountInv, devices, initially
<1>2. ASSUME NEW p \in Processes, JoinLoads(p)
      PROVE  CountInv'
  <2>1. UNCHANGED <<db, entered>>
    BY <1>2 DEF JoinLoads
  <2> DEFINE sent == [id |-> process[p].id, token |-> process[p].identity.token,
                      body |-> Body("members", None, process[p].command.of, 0)]
  <2>2. UNCHANGED network \/ network' = network \cup {sent}
    BY <1>2 DEF JoinLoads, Send
  <2>3. sent.body.op = "members"
    BY DEF Body
  <2> HIDE DEF sent
  <2>4. Registrations(network') = Registrations(network)
    BY <2>2, <2>3 DEF Registrations
  <2> QED
    BY <2>1, <2>4 DEF CountInv
<1>3. ASSUME NEW p \in Processes, Receive(p) \/ Truncate(p) \/ Fill(p) \/ GiveUp(p)
      PROVE  CountInv'
  <2>1. UNCHANGED <<db, network, entered>>
    BY <1>3 DEF Receive, Truncate, Fill, GiveUp
  <2> QED
    BY <2>1 DEF CountInv
<1>4. ASSUME NEW r \in network, Register(r)
      PROVE  CountInv'
  <2>1. /\ UNCHANGED entered /\ network' = network \ {r} /\ r.body.op = "register"
        /\ db'.devices = Append(db.devices, r.body.of) /\ r.body.of \in Users
    BY <1>4 DEF Register, Answer, Registered, CanRegister, MachineInv, ServerInv
  <2>2. Len(db'.devices) = devices + 1
    BY <2>1 DEF MachineInv, ServerInv
  <2>3. /\ IsFiniteSet(Registrations(network'))
        /\ Cardinality(Registrations(network')) = Cardinality(Registrations(network)) - 1
    BY <2>1, RegistrationsCounted DEF CountInv
  <2> HIDE DEF devices, initially
  <2>4. Len(db'.devices) + Cardinality(Registrations(network')) = devices + Cardinality(Registrations(network))
    BY <1>0, <2>2, <2>3
  <2> QED
    BY <2>1, <2>3, <2>4 DEF CountInv, devices
<1>5. ASSUME NEW r \in network, CarryOut(r) \/ Reply(r) \/ Refuse(r)
      PROVE  CountInv'
  <2>1. /\ UNCHANGED entered /\ network' = network \ {r}
        /\ db'.devices = db.devices
    <3>1. CASE CarryOut(r)
      BY <3>1, OutcomeKeepsDevices DEF CarryOut, Answer, MachineInv
    <3>2. CASE Reply(r) \/ Refuse(r)
      BY <3>2 DEF Reply, Refuse, Answer
    <3> QED
      BY <1>5, <3>1, <3>2
  <2>2. /\ IsFiniteSet(Registrations(network'))
        /\ Cardinality(Registrations(network')) \in Nat
        /\ Cardinality(Registrations(network')) =< Cardinality(Registrations(network))
    BY <2>1, RegistrationsCounted DEF CountInv
  <2> HIDE DEF devices, initially
  <2>3. devices + Cardinality(Registrations(network')) =< initially + entered
    <3>1. devices + Cardinality(Registrations(network)) =< initially + entered
      BY DEF CountInv, devices, initially
    <3> QED
      BY <1>0, <2>2, <3>1
  <2> QED
    BY <2>1, <2>2, <2>3 DEF CountInv, devices, initially
<1>6. CASE UNCHANGED vars
  BY <1>6 DEF vars, CountInv
<1> QED
  BY <1>1, <1>2, <1>3, <1>4, <1>5, <1>6 DEF Next

-----------------------------------------------------------------------------

\* The inductive invariant of the agents and the server.
AgentInv == MachineInv /\ TablesHold(db) /\ TrailInv /\ CountInv

\* It holds initially.
LEMMA AgentsInitially == Init => AgentInv
<1> SUFFICES ASSUME Init PROVE AgentInv
  OBVIOUS
<1>1. MachineInv
  BY InitiallySound
<1>2. TablesHold(db)
  <2>1. /\ InitialDb.requests \in Seq(RequestRows) /\ InitialDb.grants \in Seq(GrantRows)
        /\ InitialDb.usage \in Seq(Range(InitialDb.usage))
        /\ GrantsAnswerRequests(InitialDb) /\ db = InitialDb
    BY InitialAssumption DEF Init
  <2>2. Table(InitialDb.requests) /\ Table(InitialDb.grants) /\ Table(InitialDb.usage)
    BY <2>1, TableOf
  <2>3. /\ \A i \in DOMAIN InitialDb.requests : InitialDb.requests[i] \in RequestRows
        /\ \A j \in DOMAIN InitialDb.grants : InitialDb.grants[j] \in GrantRows
    BY <2>1, TableOf
  <2>4. /\ \A row \in RequestRows : RequestForm(row)
        /\ \A row \in GrantRows : GrantForm(row)
    BY DEF RequestForm, GrantForm, RequestRows, GrantRows
  <2> QED
    BY <2>1, <2>2, <2>3, <2>4 DEF TablesHold
<1>3. trail = <<>> /\ DOMAIN trail = {}
  BY DEF Init
<1>4. TrailInv
  BY <1>3 DEF TrailInv, Table, OnlyOwnersAct, RetryHarmless
<1>5. CountInv
  <2>1. Registrations(network) = {}
    BY DEF Init, Registrations
  <2>2. IsFiniteSet({}) /\ Cardinality({}) = 0
    BY FS_EmptySet
  <2>3. Len(db.devices) \in Nat /\ db = InitialDb /\ entered = 0 /\ MaxCommands \in Nat
    BY <1>1, MachineAssumption DEF MachineInv, ServerInv, Init
  <2> QED
    BY <2>1, <2>2, <2>3 DEF CountInv
<1> QED
  BY <1>1, <1>2, <1>4, <1>5 DEF AgentInv

\* No step breaks it.
LEMMA AgentsStep == AgentInv /\ [Next]_vars => AgentInv'
<1> SUFFICES ASSUME AgentInv, [Next]_vars PROVE AgentInv'
  OBVIOUS
<1>1. MachineInv'
  BY StaysSound DEF AgentInv
<1>2. TablesHold(db)'
  BY TablesStep DEF AgentInv
<1>3. TrailInv'
  BY TrailStep DEF AgentInv
<1>4. CountInv'
  BY CountStep DEF AgentInv
<1> QED
  BY <1>1, <1>2, <1>3, <1>4 DEF AgentInv

\* The invariant's parts give the types.
LEMMA TypesFollow == AgentInv => TypeOK
<1> SUFFICES ASSUME AgentInv PROVE TypeOK
  OBVIOUS
<1>1. ServerInv /\ FilesInv /\ ProcessesInv /\ NumbersInv /\ TablesHold(db) /\ CountInv
  BY DEF AgentInv, MachineInv
<1>2. Range(db.devices) \subseteq Users
  BY <1>1 DEF ServerInv, Range
<1>3. Len(db.devices) =< MaxCommands + Len(InitialDb.devices) /\ Len(db.devices) \in Nat /\ entered \in 0..MaxCommands
      /\ MaxCommands + Len(InitialDb.devices) \in Nat
  <2>1. Len(InitialDb.devices) \in Nat /\ Len(db.devices) \in Nat /\ entered \in Nat /\ MaxCommands \in Nat
    BY <1>1, InitialAssumption, MachineAssumption DEF ServerInv, NumbersInv
  <2>2. Cardinality(Registrations(network)) \in Nat
    BY <1>1, FS_CardinalityType DEF CountInv
  <2> QED
    BY <1>1, <2>1, <2>2 DEF CountInv
<1>4. ASSUME NEW m \in Machines, config[m] \notin {None, Empty, Torn} PROVE config[m] \in Identities
  <2> DEFINE identity == config[m]
  <2>1. Sound(identity, db)
    BY <1>1, <1>4 DEF FilesInv
  <2>2. identity.token \in 0..Len(db.devices) /\ identity.user \in Users \cup Range(LocalOwner)
    BY <1>1, <2>1, TokenKnown
  <2>3. identity.token \in 0..(MaxCommands + Len(InitialDb.devices))
    BY <1>3, <2>2
  <2>4. /\ identity = [remote |-> identity.remote, user |-> identity.user,
                       member |-> identity.member, token |-> identity.token]
        /\ identity.remote \in BOOLEAN
        /\ identity.member \in Members \cup DOMAIN LocalOwner \cup {None}
    BY <2>1 DEF Sound, Identity
  <2> HIDE DEF identity
  <2>5. identity \in Identities
    BY <2>2, <2>3, <2>4 DEF Identities
  <2> QED
    BY <2>5 DEF identity
<1>5. \A p \in Processes : process[p].pc \in {"idle", "loaded", "waiting", "ready", "saving"}
  BY <1>1 DEF ProcessesInv, ProcessInv
<1>6. \A r \in network : r.id \in 1..entered /\ r.token \in Nat
  BY <1>1 DEF NumbersInv
<1>7. \A m \in Machines : settings[m] \notin {Empty, Torn} => settings[m] \in [Events -> Groups]
  BY <1>1 DEF FilesInv, SettingsKept, KeptSince
<1>8. GrantsAnswerRequests(db)
  BY <1>1 DEF TablesHold
<1> QED
  BY <1>2, <1>3, <1>4, <1>5, <1>6, <1>7, <1>8 DEF TypeOK

\* Tables, files, processes and requests keep their types; in particular there is
\* a grant exactly for the requests that are stored as approved, and no identity
\* file ever holds a token the server has not given out.
THEOREM TypeCorrect == Spec => []TypeOK
BY AgentsInitially, AgentsStep, TypesFollow, PTL DEF Spec

\* The server acts in a member's name for a device of its own user only, whatever
\* tokens and members the requests carry (server/auth.py, require_member).
THEOREM OwnersActOnly == Spec => []OnlyOwnersAct
<1>1. AgentInv => OnlyOwnersAct
  BY DEF AgentInv, TrailInv
<1> QED
  BY AgentsInitially, AgentsStep, <1>1, PTL DEF Spec

\* However often a command is entered again because its answer was late or lost,
\* the server carries it out once, unless it asks for capacity: a report has its
\* key, a decision its request, a revocation its grant (server/routes.py).
THEOREM RetriesHarmless == Spec => []RetryHarmless
<1>1. AgentInv => RetryHarmless
  BY DEF AgentInv, TrailInv
<1> QED
  BY AgentsInitially, AgentsStep, <1>1, PTL DEF Spec

\* Whichever installs and uninstalls overlapped, and wherever one of them was cut
\* short: settings that can be read hold every command of others, in its order and
\* its groups, or none at all, which is what an edit leaves that took a truncated
\* file for an empty one; never a part of them, and ours once at most (settings.py).
THEOREM SettingsAllOrNone == Spec => []HooksAllOrNone
<1>1. ASSUME NEW content, SettingsKept(content)
      PROVE  /\ \A e \in Events : AtMostOnce(content[e], Own[e])
             /\ \/ \A e \in Events : SameOthers(content[e], InitialSettings[e], Own[e])
                \/ \A e \in Events : Others(content[e], Own[e]) = {}
  <2>1. CASE KeptSince(InitialSettings, content)
    BY <2>1 DEF KeptSince
  <2>2. CASE KeptSince(NoSettings, content)
    <3>1. \A e \in Events : AtMostOnce(content[e], Own[e])
      BY <2>2 DEF KeptSince
    <3>2. \A e \in Events : Others(content[e], Own[e]) = {}
      BY <2>2, NoOthersLeft DEF KeptSince, NoSettings
    <3> QED
      BY <3>1, <3>2
  <2> QED
    BY <1>1, <2>1, <2>2 DEF SettingsKept
<1>2. ASSUME AgentInv, NEW content \in WrittenSettings
      PROVE  SettingsKept(content)
  BY <1>2 DEF AgentInv, MachineInv, FilesInv, WrittenSettings
<1>3. AgentInv => HooksAllOrNone
  BY <1>1, <1>2 DEF HooksAllOrNone
<1> QED
  BY AgentsInitially, AgentsStep, <1>3, PTL DEF Spec
=============================================================================
