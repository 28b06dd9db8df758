------------------------------ MODULE MCBilling ------------------------------
(* Small instances of Billing. *)
EXTENDS Billing, TLC

CONSTANTS eur, usd

Monthly == [interval |-> "monthly", gross |-> 1, currency |-> eur,
            auto_renew |-> TRUE, end_date |-> NoDate, next |-> 1]
\* A monthly service and a one-off sale that is billed later.
MCAgreements == {Monthly, [Monthly EXCEPT !.interval = "one_off", !.next = 2]}
\* Free of charge and no longer renewed, a higher price and an end, another
\* interval and currency.
MCPatches == {[gross |-> 0, auto_renew |-> FALSE],
              [gross |-> 2, end_date |-> LastDate - 1],
              [interval |-> "quarterly", currency |-> usd]}
\* Changes of price alone.
MCPrices == {[gross |-> 1], [gross |-> 2]}
BillingSymmetry == Permutations(Reqs)
=============================================================================
