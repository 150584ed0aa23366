---------------------------- MODULE QuotaPromise ----------------------------
(***************************************************************************)
(* What the quota engine promises the people who share a subscription,     *)
(* with nothing said about how: no requests, no statuses, no clock.        *)
(*                                                                         *)
(*  - A usage report is charged at most once, however often it is sent.    *)
(*  - A charge is spread over the members' balances without loss: what     *)
(*    the balances rise by is what the report says.                        *)
(*  - Apart from the reporting member itself, only members who have        *)
(*    consented to lend to it ever pay.                                    *)
(*  - No balance is ever charged beyond what the whole pool was allotted,  *)
(*    and nothing already charged is ever taken back.                      *)
(***************************************************************************)
EXTENDS Totals

CONSTANTS Members, Keys, Amounts, Base

VARIABLES
  spent,     \* spent[m]: units charged to m so far
  receipts,  \* the reports charged
  consents   \* pairs <<lender, borrower>> ever agreed

vars == <<spent, receipts, consents>>

Init ==
  /\ spent = [m \in Members |-> 0]
  /\ receipts = {}
  /\ consents = {}

Consent(lender, borrower) ==
  /\ consents' = consents \cup {<<lender, borrower>>}
  /\ UNCHANGED <<spent, receipts>>

Charge(k, m, amount) ==
  /\ \A r \in receipts : r.key # k
  /\ receipts' = receipts \cup {[key |-> k, member |-> m, amount |-> amount]}
  /\ \E split \in [Members -> 0..amount] :
       /\ TotalOf(split) = amount
       /\ \A s \in Members : split[s] > 0 =>
            /\ s = m \/ <<s, m>> \in consents
            /\ spent[s] + split[s] =< TotalOf(Base)
       /\ spent' = [s \in Members |-> spent[s] + split[s]]
  /\ UNCHANGED consents

Next ==
  \/ \E s, m \in Members : Consent(s, m)
  \/ \E k \in Keys, m \in Members, a \in Amounts : Charge(k, m, a)

Spec == Init /\ [][Next]_vars
=============================================================================
