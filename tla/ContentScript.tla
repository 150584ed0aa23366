--------------------------- MODULE ContentScript ---------------------------
(***************************************************************************)
(* The browser extension inside one claude.ai page: content.ts with the    *)
(* listeners of intercept.ts.                                              *)
(*                                                                         *)
(* Page scripts, user events, snapshots from the background worker and a   *)
(* 500 ms timer run one after the other, in any order.  A mutation         *)
(* observer runs before the next of them when children of some node        *)
(* changed, and does not run when only attributes did.  So a step that     *)
(* changes children, drawing the banner or the indicator included, ends    *)
(* with reinstallInterceptors().                                           *)
(*                                                                         *)
(* A snapshot is what the script tells apart: units left, none left, or an *)
(* error.  Which of them arrives next is the background worker's affair.   *)
(***************************************************************************)
EXTENDS Integers

CONSTANTS
  Buttons,   \* the buttons the page may present as its send button
  Inputs,    \* the elements it may present as its composer
  None       \* no such element

VARIABLES
  latestSnapshot,   \* "none" until the first one arrives
  allowNextSend,    \* the one-shot override is armed
  banner,           \* the warning with its "Send anyway" button is shown
  indicator,        \* the indicator is shown
  page,             \* the send button and composer the selectors find
  wants,            \* wants[b]: the page itself means button b to be disabled
  gate,             \* the elements with listeners, and the buttons' disabled flags
  unspent           \* history: overrides given less sends let through for them

vars == <<latestSnapshot, allowNextSend, banner, indicator, page, wants, gate, unspent>>

Snapshots == {"ok", "exhausted", "error"}

Pages == [button : Buttons \cup {None}, input : Inputs \cup {None}]

Empty == [button |-> None, input |-> None]

Gates == [on : Pages, previous : BOOLEAN, disabled : [Buttons -> BOOLEAN]]

TypeOK ==
  /\ latestSnapshot \in Snapshots \cup {"none"}
  /\ allowNextSend \in BOOLEAN /\ banner \in BOOLEAN /\ indicator \in BOOLEAN
  /\ page \in Pages
  /\ wants \in [Buttons -> BOOLEAN]
  /\ gate \in Gates
  /\ unspent \in -1..1

-----------------------------------------------------------------------------
(* Listeners come and go.                                                  *)

shouldInterceptSend(snapshot, allow) == snapshot = "exhausted" /\ ~allow

\* interceptCleanup(): listeners off, the timer stopped, and the button's flag
\* put back to what it was when they were installed.
Cleaned(g) ==
  [g EXCEPT !.on = Empty, !.previous = FALSE,
            !.disabled = IF g.on.button = None THEN @ ELSE [@ EXCEPT ![g.on.button] = g.previous]]

\* installSendInterceptors() on the elements of p.
Installed(g, p, intercept) ==
  [g EXCEPT !.on = p,
            !.previous = IF p.button = None THEN FALSE ELSE g.disabled[p.button],
            !.disabled = IF p.button = None THEN @ ELSE [@ EXCEPT ![p.button] = intercept]]

\* reinstallInterceptors(): nothing to do as long as the elements are the same.
Reinstalled(g, p, intercept) ==
  IF p = g.on THEN g ELSE Installed(Cleaned(g), p, intercept)

-----------------------------------------------------------------------------
Init ==
  /\ latestSnapshot = "none"
  /\ allowNextSend = FALSE /\ banner = FALSE /\ indicator = FALSE
  /\ page \in Pages
  /\ wants \in [Buttons -> BOOLEAN]
  /\ gate = [on |-> Empty, previous |-> FALSE, disabled |-> wants]
  /\ unspent = 0

\* An error removes what is drawn and cleans up; the observer, which sees the
\* removal if there was something to remove, then installs the listeners again.
ApplyError ==
  /\ latestSnapshot' = "error"
  /\ allowNextSend' = FALSE
  /\ banner' = FALSE /\ indicator' = FALSE
  /\ gate' = IF banner \/ indicator THEN Reinstalled(Cleaned(gate), page, FALSE) ELSE Cleaned(gate)
  /\ UNCHANGED <<page, wants, unspent>>

\* Slip: the warning of an earlier snapshot is left standing.
ApplyWithoutRemoval(s) ==
  /\ latestSnapshot' = s
  /\ allowNextSend' = FALSE
  /\ indicator' = TRUE
  /\ banner' = (banner \/ s = "exhausted")
  /\ gate' = Reinstalled(gate, page, s = "exhausted")
  /\ UNCHANGED <<page, wants, unspent>>

ApplySnapshot(s) ==
  /\ latestSnapshot' = s
  /\ allowNextSend' = FALSE
  /\ indicator' = TRUE
  /\ banner' = (s = "exhausted")
  /\ gate' = Reinstalled(gate, page, s = "exhausted")
  /\ UNCHANGED <<page, wants, unspent>>

\* The page adds or removes elements: the selectors may find others.
Mutate ==
  /\ page' \in Pages
  /\ gate' = Reinstalled(gate, page', shouldInterceptSend(latestSnapshot, allowNextSend))
  /\ UNCHANGED <<latestSnapshot, allowNextSend, banner, indicator, wants, unspent>>

\* The page changes attributes only: the selectors may find others, unnoticed.
Relabel ==
  /\ page' \in Pages
  /\ UNCHANGED <<latestSnapshot, allowNextSend, banner, indicator, wants, gate, unspent>>

\* The page disables or enables one of its buttons.
Toggle(b) ==
  /\ wants' = [wants EXCEPT ![b] = ~@]
  /\ gate' = [gate EXCEPT !.disabled[b] = wants'[b]]
  /\ UNCHANGED <<latestSnapshot, allowNextSend, banner, indicator, page, unspent>>

\* Slip: the button is set when the listeners are installed and not again.
SyncNever == FALSE /\ UNCHANGED vars

\* The 500 ms timer of an installed button.
SyncDisabled ==
  /\ gate.on.button # None
  /\ gate' = [gate EXCEPT !.disabled[gate.on.button] = shouldInterceptSend(latestSnapshot, allowNextSend)]
  /\ UNCHANGED <<latestSnapshot, allowNextSend, banner, indicator, page, wants, unspent>>

\* "Send anyway (one message)".
ArmOverride ==
  /\ banner
  /\ allowNextSend' = TRUE
  /\ banner' = FALSE
  /\ gate' = Reinstalled(gate, page, FALSE)
  /\ unspent' = 1
  /\ UNCHANGED <<latestSnapshot, indicator, page, wants>>

\* A click on the button, if it is enabled, or Enter in the composer that have the
\* listeners, whether or not the selectors would still find them.
Attempt ==
  \/ gate.on.button # None /\ ~gate.disabled[gate.on.button]
  \/ gate.on.input # None

\* Slip: the override is not taken back.
LetThroughAgain ==
  /\ Attempt
  /\ latestSnapshot = "exhausted" /\ allowNextSend
  /\ gate' = Reinstalled(gate, page, FALSE)
  /\ unspent' = unspent - 1
  /\ UNCHANGED <<latestSnapshot, allowNextSend, banner, indicator, page, wants>>

\* The send is let through and the override is spent.
LetThrough ==
  /\ Attempt
  /\ latestSnapshot = "exhausted" /\ allowNextSend
  /\ allowNextSend' = FALSE
  /\ gate' = Reinstalled(gate, page, TRUE)
  /\ unspent' = unspent - 1
  /\ UNCHANGED <<latestSnapshot, banner, indicator, page, wants>>

\* The send is stopped and the warning drawn.
Stop ==
  /\ Attempt
  /\ shouldInterceptSend(latestSnapshot, allowNextSend)
  /\ banner' = TRUE
  /\ gate' = Reinstalled(gate, page, TRUE)
  /\ UNCHANGED <<latestSnapshot, allowNextSend, indicator, page, wants, unspent>>

Next ==
  \/ ApplyError
  \/ \E s \in {"ok", "exhausted"} : ApplySnapshot(s)
  \/ Mutate \/ Relabel \/ \E b \in Buttons : Toggle(b)
  \/ SyncDisabled \/ ArmOverride \/ LetThrough \/ Stop

\* Timers fire.  Nothing is assumed of the page, the user or the worker.
Spec == Init /\ [][Next]_vars /\ WF_vars(SyncDisabled)
-----------------------------------------------------------------------------
(* Correctness.                                                            *)

\* "Allows exactly one send attempt through": no send passes the listeners of an
\* exhausted page for which no "Send anyway" of its own was clicked, whichever
\* snapshots and page changes came in between.
OneSendPerOverride == unspent >= 0

\* The warning and the armed override exclude each other, and neither outlives
\* the snapshot that called for it.
WarningFitsSnapshot ==
  /\ ~(banner /\ allowNextSend)
  /\ banner \/ allowNextSend => latestSnapshot = "exhausted"

\* As long as a page that is exhausted and has no override keeps its send
\* button, that button is found disabled again and again, whatever the page
\* does to it, and as long as units are left it is found enabled again and again.
ButtonFollowsSnapshot ==
  \A b \in Buttons :
    /\ <>[](gate.on.button = b /\ shouldInterceptSend(latestSnapshot, allowNextSend))
         => []<>gate.disabled[b]
    /\ <>[](gate.on.button = b /\ latestSnapshot = "ok") => []<>~gate.disabled[b]

-----------------------------------------------------------------------------
(* What the documentation says of the script and the code does not do.     *)

\* extension/README.md: when "the server is unreachable [...] the extension does
\* not trap you on claude.ai".  Read as: after an error the send button is not
\* disabled unless the page itself means it to be.
NoTrapOnError ==
  latestSnapshot = "error" /\ page.button # None /\ ~wants[page.button]
    => ~gate.disabled[page.button]
=============================================================================
