------------------------ MODULE ContentScript_proofs ------------------------
(***************************************************************************)
(* The content script's safety, for any buttons and composers of the page. *)
(***************************************************************************)
EXTENDS ContentScript, TLAPS

\* Listeners are installed on elements of the page and keep a flag per button.
LEMMA ReinstalledType ==
  ASSUME NEW g \in Gates, NEW p \in Pages, NEW intercept \in BOOLEAN
  PROVE  Cleaned(g) \in Gates /\ Reinstalled(g, p, intercept) \in Gates
<1>1. Empty \in Pages
  BY DEF Empty, Pages
<1>2. Cleaned(g) \in Gates
  BY <1>1 DEF Cleaned, Gates, Pages
<1>3. ASSUME NEW h \in Gates
      PROVE  Installed(h, p, intercept) \in Gates
  BY DEF Installed, Gates, Pages
<1>4. QED
  BY <1>2, <1>3 DEF Reinstalled

\* The verdict on a send is a truth value.
LEMMA InterceptType ==
  \A snapshot : \A allow \in BOOLEAN : shouldInterceptSend(snapshot, allow) \in BOOLEAN
BY DEF shouldInterceptSend

\* What the script's safety rests on: an armed override has not been spent.
ScriptInv ==
  /\ TypeOK
  /\ WarningFitsSnapshot
  /\ OneSendPerOverride
  /\ allowNextSend => unspent = 1

\* A page starts without a warning or an override.
LEMMA InitEstablishesInv == Init => ScriptInv
<1> SUFFICES ASSUME Init PROVE ScriptInv
  OBVIOUS
<1>1. gate \in Gates
  BY DEF Init, Gates, Empty, Pages
<1>2. unspent = 0 /\ unspent \in -1..1
  BY DEF Init
<1>3. WarningFitsSnapshot /\ (allowNextSend => unspent = 1) /\ OneSendPerOverride
  BY <1>2 DEF Init, WarningFitsSnapshot, OneSendPerOverride
<1>4. TypeOK
  BY <1>1, <1>2 DEF Init, TypeOK, Snapshots
<1>5. QED
  BY <1>3, <1>4 DEF ScriptInv

\* No click, key press, snapshot or change of the page breaks the invariant.
LEMMA NextPreservesInv == ScriptInv /\ [Next]_vars => ScriptInv'
<1> SUFFICES ASSUME ScriptInv, [Next]_vars PROVE ScriptInv'
  OBVIOUS
<1> USE DEF ScriptInv, TypeOK, WarningFitsSnapshot, OneSendPerOverride, Snapshots
<1>1. CASE ApplyError
  <2>1. gate' \in Gates
    <3>1. Cleaned(gate) \in Gates
      BY ReinstalledType
    <3>2. QED
      BY <1>1, <3>1, ReinstalledType DEF ApplyError
  <2>2. QED
    BY <1>1, <2>1 DEF ApplyError
<1>2. ASSUME NEW s \in {"ok", "exhausted"}, ApplySnapshot(s)
      PROVE  ScriptInv'
  <2>1. gate' \in Gates
    BY <1>2, ReinstalledType DEF ApplySnapshot
  <2>2. QED
    BY <1>2, <2>1 DEF ApplySnapshot
<1>3. CASE Mutate
  <2>1. page' \in Pages /\ gate' \in Gates
    BY <1>3, ReinstalledType, InterceptType DEF Mutate
  <2>2. QED
    BY <1>3, <2>1 DEF Mutate
<1>4. CASE Relabel
  BY <1>4 DEF Relabel
<1>5. ASSUME NEW b \in Buttons, Toggle(b)
      PROVE  ScriptInv'
  <2>1. wants' \in [Buttons -> BOOLEAN] /\ gate' \in Gates
    BY <1>5 DEF Toggle, Gates
  <2>2. QED
    BY <1>5, <2>1 DEF Toggle
<1>6. CASE SyncDisabled
  <2>1. gate' \in Gates
    BY <1>6, InterceptType DEF SyncDisabled, Gates, Pages
  <2>2. QED
    BY <1>6, <2>1 DEF SyncDisabled
<1>7. CASE ArmOverride
  <2>1. gate' \in Gates
    BY <1>7, ReinstalledType DEF ArmOverride
  <2>2. unspent' = 1 /\ unspent' \in -1..1
    BY <1>7 DEF ArmOverride
  <2>3. TypeOK'
    BY <1>7, <2>1, <2>2 DEF ArmOverride
  <2>4. WarningFitsSnapshot'
    BY <1>7 DEF ArmOverride
  <2>5. QED
    BY <2>2, <2>3, <2>4
<1>8. CASE LetThrough
  <2>1. gate' \in Gates
    BY <1>8, ReinstalledType DEF LetThrough
  <2>2. unspent' = 0 /\ unspent' \in -1..1
    BY <1>8 DEF LetThrough
  <2>3. TypeOK'
    BY <1>8, <2>1, <2>2 DEF LetThrough
  <2>4. WarningFitsSnapshot' /\ ~allowNextSend'
    BY <1>8 DEF LetThrough
  <2>5. QED
    BY <2>2, <2>3, <2>4
<1>9. CASE Stop
  <2>1. gate' \in Gates
    BY <1>9, ReinstalledType DEF Stop
  <2>2. QED
    BY <1>9, <2>1 DEF Stop, shouldInterceptSend
<1>10. CASE UNCHANGED vars
  BY <1>10 DEF vars
<1>11. QED
  BY <1>1, <1>2, <1>3, <1>4, <1>5, <1>6, <1>7, <1>8, <1>9, <1>10 DEF Next

\* Every send that passes the listeners of an exhausted page has had a "Send
\* anyway" of its own, for every interleaving of snapshots, timers, page
\* changes and user events, and the history variable stays in its range.
THEOREM OverrideCoversSend == Spec => [](TypeOK /\ OneSendPerOverride)
<1>1. ScriptInv => TypeOK /\ OneSendPerOverride
  BY DEF ScriptInv
<1>2. QED
  BY InitEstablishesInv, NextPreservesInv, <1>1, PTL DEF Spec

\* The script's variables keep their types: listeners sit on a button and an input
\* the page really had, and overrides and the sends they pay for stay in step.
THEOREM TypeCorrect == Spec => []TypeOK
BY OverrideCoversSend, PTL

\* The warning and the armed override exclude each other and last no longer
\* than the snapshot that called for them.
THEOREM WarningIsCurrent == Spec => []WarningFitsSnapshot
<1>1. ScriptInv => WarningFitsSnapshot
  BY DEF ScriptInv
<1>2. QED
  BY InitEstablishesInv, NextPreservesInv, <1>1, PTL DEF Spec
=============================================================================
