--------------------------- MODULE MCAgentMachine ---------------------------
EXTENDS AgentMachine

CONSTANTS a, b, u0, u1, u2, m0, m1, m2, lint, log

OwnerOnServer == (m1 :> u1) @@ (m2 :> u2)
OwnerLocally == (m0 :> u0)

\* Two machines have registered, one has joined, and one unit has been asked for.
Registered12 ==
  [EmptyDb EXCEPT !.devices = <<u1, u2>>,
                  !.requests = <<[from |-> m1, to |-> m2, amount |-> 1, status |-> "PENDING"]>>]

Joined == (a :> Identity(TRUE, u1, m1, 1)) @@ (b :> Identity(TRUE, u2, None, 2))

Hooks == {lint, log, "claude-share-hook", "claude-share-stop-hook"}

\* Our command in one group with another, a group without hooks, one more hook; no Stop hooks.
Mixed ==
  [UserPromptSubmit |-> <<<<lint, "claude-share-hook">>, NoHooks, <<log>>>>, Stop |-> <<>>]

Entered ==
  { Body("login", None, u0, 0), Body("register", None, u1, 0),
    Body("join", None, m0, 0), Body("join", None, m1, 0), Body("join", None, m2, 0),
    Body("install", None, None, 0), Body("uninstall", None, None, 0),
    Body("consume", None, "k", 1),
    Body("request", None, m2, 1), Body("approve", m2, 1, 0), Body("reject", m2, 1, 0), Body("revoke", m2, 1, 0) }

Alike == Permutations(Processes)
=============================================================================
