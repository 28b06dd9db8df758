------------------------------- MODULE Billing -------------------------------
(***************************************************************************)
(* Customer services and billing (subscriptions/services.py, models.py,    *)
(* serializers.py, views.py): one CustomerSubscription, its Charge rows    *)
(* and the payments recorded against them.                                 *)
(*                                                                         *)
(* Every service function locks the subscription row first, so each is one *)
(* step.  The views decide before they call: create, patch, pause and      *)
(* cancel read without a lock, and other requests may run before the       *)
(* locked part.  Django runs without ATOMIC_REQUESTS.                      *)
(*                                                                         *)
(* A date is a day number and a month has MonthDays days.  Net price and   *)
(* VAT are one gross amount.  Names, notes, references, the start and      *)
(* renewal dates, timestamps and timeline events steer nothing here and    *)
(* are left out, as is the waived state, which no code sets.               *)
(***************************************************************************)
EXTENDS Integers, FiniteSets, FiniteSetsExt

CONSTANTS
    Reqs,        \* requests being served
    Currencies,  \* upper-case currency codes
    Agreements,  \* what a new customer service may be created with
    Patches,     \* what a PATCH may carry: any part of an agreement
    MonthDays,   \* days in a month
    MaxAmount,   \* bound: the largest gross amount or payment
    LastDate     \* bound: no charge is due and no day comes after it

NoDate == 0
Dates == 1..LastDate
Amounts == 0..MaxAmount
Intervals == {"one_off", "monthly", "quarterly", "semiannual", "annual"}
Agreement == [interval : Intervals, gross : Amounts, currency : Currencies,
              auto_renew : BOOLEAN, end_date : Dates \cup {NoDate}, next : Dates]

ASSUME BillingAssumption ==
    /\ MonthDays \in Nat \ {0}
    /\ MaxAmount \in Nat
    /\ LastDate \in Nat
    /\ Agreements \subseteq Agreement
    \* A patch gives some of the fields a value of their type.
    /\ \A p \in Patches : \E a \in Agreement :
          DOMAIN p \subseteq DOMAIN a /\ \A f \in DOMAIN p : p[f] = a[f]

VARIABLES
    today,     \* timezone.localdate()
    status,    \* status of the subscription, "none" before it is created
    effective, \* its cancellation_effective_date
    terms,     \* the other fields of the subscription
    charge,    \* its charges, by due date (the unique key)
    req        \* the requests

billingVars == <<today, status, effective, terms, charge, req>>

Statuses == {"active", "paused", "cancelling", "cancelled"}

\* coverage_start is the due date; last is coverage_end.
Charge == [state : {"none", "open", "cancelled"}, last : Nat, gross : Amounts,
           currency : Currencies, paid : Amounts]
NoCharge == [state |-> "none", last |-> 0, gross |-> 0,
             currency |-> CHOOSE c \in Currencies : TRUE, paid |-> 0]

\* What a request holds between its unlocked read and its locked part: a
\* creation the agreement it inserted, a PATCH its validated data.
NoReq == [op |-> "idle"]
Request == {NoReq} \cup [op : {"pause", "cancel", "cancel_now"}]
           \cup [op : {"create"}, terms : Agreements]
           \cup [op : {"patch"}, data : Patches]

BillingTypeOK ==
    /\ today \in Dates
    /\ status \in Statuses \cup {"none"}
    /\ effective \in Nat
    /\ terms \in Agreement
    /\ charge \in [Dates -> Charge]
    /\ req \in [Reqs -> Request]

BillingInit ==
    /\ today = 1
    /\ status = "none"
    /\ effective = NoDate
    /\ terms \in Agreements
    /\ charge = [d \in Dates |-> NoCharge]
    /\ req = [r \in Reqs |-> NoReq]

-----------------------------------------------------------------------------
(* Dates and amounts. *)

INTERVAL_MONTHS == [i \in Intervals |->
    CASE i = "monthly" -> 1 [] i = "quarterly" -> 3 [] i = "semiannual" -> 6
      [] i = "annual" -> 12 [] OTHER -> 0]

add_months(d, months) == d + months * MonthDays
Recurring(t) == INTERVAL_MONTHS[t.interval] > 0
NextDate(t, d) == add_months(d, INTERVAL_MONTHS[t.interval])
period_end(t, d) == IF Recurring(t) THEN NextDate(t, d) - 1 ELSE d

outstanding_amount(c) == IF c.gross > c.paid THEN c.gross - c.paid ELSE 0

\* The charges that are not cancelled.
Standing == {d \in Dates : charge[d].state = "open"}

effective_status ==
    IF /\ terms.end_date # NoDate
       /\ terms.end_date < today
       /\ status \in {"active", "paused", "cancelling"}
    THEN "expired"
    ELSE IF status = "cancelling" /\ effective # NoDate /\ effective < today
         THEN "cancelled"
         ELSE status

\* get_or_create: a row that exists, cancelled or not, stays as it is.
ensure_charge(t, d, rows) ==
    IF rows[d].state # "none" THEN rows
    ELSE [rows EXCEPT ![d] = [state |-> "open", last |-> period_end(t, d),
                              gross |-> t.gross, currency |-> t.currency, paid |-> 0]]

\* cancel and pause: open charges that start later are cancelled.
CancelAfter(day) ==
    [d \in Dates |-> IF charge[d].state = "open" /\ d > day
                     THEN [charge[d] EXCEPT !.state = "cancelled"] ELSE charge[d]]

-----------------------------------------------------------------------------
(* Requests in two parts. *)

BeginRequest(r, held) == req[r] = NoReq /\ req' = [req EXCEPT ![r] = held]
EndRequest(r) == req' = [req EXCEPT ![r] = NoReq]

\* CustomerSubscriptionSerializer.create: the row is inserted, then its first
\* charge, from the values the request holds.
CreateRow(r, t) ==
    /\ status = "none"
    /\ t.end_date = NoDate \/ t.end_date >= t.next
    /\ BeginRequest(r, [op |-> "create", terms |-> t])
    /\ status' = "active"
    /\ terms' = t
    /\ UNCHANGED <<today, effective, charge>>

CreateCharge(r) ==
    /\ req[r].op = "create"
    /\ charge' = ensure_charge(req[r].terms, req[r].terms.next, charge)
    /\ EndRequest(r)
    /\ UNCHANGED <<today, status, effective, terms>>

Merged(t, data) == [f \in DOMAIN t |-> IF f \in DOMAIN data THEN data[f] ELSE t[f]]

\* CustomerSubscriptionSerializer.validate, on the row as it was read.
ValidatePatch(r, data) ==
    /\ status # "none"
    /\ LET t == Merged(terms, data) IN t.end_date = NoDate \/ t.end_date >= t.next
    /\ BeginRequest(r, [op |-> "patch", data |-> data])
    /\ UNCHANGED <<today, status, effective, terms, charge>>

\* Mutant: settled charges are rewritten too.
Editable_AllOpen == {d \in Dates : charge[d].state = "open"}

\* The charges a change of price or currency rewrites.
Editable == {d \in Dates : charge[d].state = "open" /\ outstanding_amount(charge[d]) > 0}

\* Mutant: the total is not compared with what was paid.
TermsAllowed_AnyTotal(t) ==
    \A d \in Editable : charge[d].paid > 0 => charge[d].currency = t.currency

\* update_subscription's checks on a change of price or currency.
TermsAllowed(t) ==
    \A d \in Editable :
        /\ charge[d].paid <= t.gross
        /\ charge[d].paid > 0 => charge[d].currency = t.currency

update_subscription(r) ==
    LET data == req[r].data
        t    == Merged(terms, data)
        commercial == DOMAIN data \cap {"gross", "currency"} # {}
    IN  /\ req[r].op = "patch"
        /\ EndRequest(r)
        /\ IF commercial /\ ~ TermsAllowed(t)
           THEN UNCHANGED <<terms, charge>>
           ELSE /\ terms' = t
                /\ charge' = [d \in Dates |->
                     IF commercial /\ d \in Editable
                     THEN [charge[d] EXCEPT !.gross = t.gross, !.currency = t.currency]
                     ELSE charge[d]]
        /\ UNCHANGED <<today, status, effective>>

CheckPause(r) ==
    /\ effective_status = "active"
    /\ BeginRequest(r, [op |-> "pause"])
    /\ UNCHANGED <<today, status, effective, terms, charge>>

pause_subscription(r) ==
    /\ req[r].op = "pause"
    /\ status' = "paused"
    /\ charge' = CancelAfter(today)
    /\ EndRequest(r)
    /\ UNCHANGED <<today, effective, terms>>

CheckCancel(r, op) ==
    /\ effective_status \notin {"none", "cancelled", "expired"}
    /\ BeginRequest(r, [op |-> op])
    /\ UNCHANGED <<today, status, effective, terms, charge>>

\* The charge whose period is under way, or else the first one to come.
CurrentCharge ==
    LET begun == {d \in Standing : d <= today}
    IN  IF begun # {} THEN Max(begun) ELSE Min(Standing)

cancel_subscription(r) ==
    LET immediate == req[r].op = "cancel_now"
        last == IF immediate \/ Standing = {} THEN today ELSE charge[CurrentCharge].last
    IN  /\ req[r].op \in {"cancel", "cancel_now"}
        /\ status' = IF immediate THEN "cancelled" ELSE "cancelling"
        /\ effective' = last
        /\ charge' = CancelAfter(last)
        /\ EndRequest(r)
        /\ UNCHANGED <<today, terms>>

\* The server process dies between the two parts of a request.
LoseRequest(r) ==
    /\ req[r] # NoReq
    /\ EndRequest(r)
    /\ UNCHANGED <<today, status, effective, terms, charge>>

-----------------------------------------------------------------------------
(* Requests in one part. *)

Paid(d, amount) == [charge EXCEPT ![d].paid = @ + amount]

\* Mutant: the status of the subscription is not looked at.
Renews_AnyStatus(c, d) ==
    /\ outstanding_amount(c) = 0
    /\ Recurring(terms)
    /\ terms.auto_renew
    /\ terms.end_date = NoDate \/ NextDate(terms, d) <= terms.end_date

\* A payment that settles its charge is followed by the next charge.
Renews(c, d) ==
    /\ outstanding_amount(c) = 0
    /\ Recurring(terms)
    /\ status = "active"
    /\ terms.auto_renew
    /\ terms.end_date = NoDate \/ NextDate(terms, d) <= terms.end_date

record_payment(d, amount) ==
    /\ charge[d].state = "open"
    /\ amount > 0
    /\ amount <= outstanding_amount(charge[d])
    /\ LET rows == Paid(d, amount)
           next == NextDate(terms, d)
       IN  IF Renews(rows[d], d)
           THEN /\ next \in Dates
                /\ terms' = [terms EXCEPT !.next = next]
                /\ charge' = ensure_charge(terms, next, rows)
           ELSE charge' = rows /\ UNCHANGED terms
    /\ UNCHANGED <<today, status, effective, req>>

\* Mutant: resume issues the next charge while the last one is still owed.
ResumeRenews_Unsettled == Standing # {} /\ Recurring(terms)

\* The charge resume looks at is settled, so the next one is due.
ResumeRenews ==
    /\ Standing # {}
    /\ outstanding_amount(charge[Max(Standing)]) = 0
    /\ Recurring(terms)

resume_subscription ==
    /\ effective_status \in {"cancelling", "paused"}
    /\ status' = "active"
    /\ effective' = NoDate
    /\ LET next == NextDate(terms, Max(Standing))
       IN  IF ResumeRenews
           THEN /\ next \in Dates
                /\ terms' = [terms EXCEPT !.next = next]
                /\ charge' = IF charge[next].state = "cancelled"
                             THEN [charge EXCEPT ![next].state = "open"]
                             ELSE ensure_charge(terms, next, charge)
           ELSE UNCHANGED <<terms, charge>>
    /\ UNCHANGED <<today, req>>

NextDay ==
    /\ today < LastDate
    /\ today' = today + 1
    /\ UNCHANGED <<status, effective, terms, charge, req>>

-----------------------------------------------------------------------------
BillingNext ==
    \/ \E r \in Reqs :
          \/ \E t \in Agreements : CreateRow(r, t)
          \/ CreateCharge(r)
          \/ \E p \in Patches : ValidatePatch(r, p)
          \/ update_subscription(r)
          \/ CheckPause(r)
          \/ pause_subscription(r)
          \/ \E op \in {"cancel", "cancel_now"} : CheckCancel(r, op)
          \/ cancel_subscription(r)
          \/ LoseRequest(r)
    \/ \E d \in Dates, a \in 1..MaxAmount : record_payment(d, a)
    \/ resume_subscription
    \/ NextDay

BillingSpec == BillingInit /\ [][BillingNext]_billingVars

-----------------------------------------------------------------------------
(* Properties. *)

\* No charge holds more money than its gross amount, whatever order prices are
\* edited, charges cancelled and reopened, and payments recorded in.
NeverOverpaid == \A d \in Dates : charge[d].paid <= charge[d].gross

\* The customer owes at most one charge at a time, and it is the last one: no
\* sequence of pauses, cancellations, resumptions and edits leaves two open
\* charges with a balance.
OneOutstanding ==
    \A d \in Standing : outstanding_amount(charge[d]) > 0 => d = Max(Standing)

\* A charge on which money was received keeps its currency, and one that is
\* fully paid keeps every amount, whatever is edited later.
Settled(c) == c.paid > 0 /\ outstanding_amount(c) = 0
PaidHistoryIsKept ==
    [][\A d \in Dates :
          /\ charge[d].paid > 0 => charge'[d].currency = charge[d].currency
          /\ Settled(charge[d]) => [charge'[d] EXCEPT !.state = charge[d].state] = charge[d]]_billingVars

\* A charge is issued or reopened only for a service that is active once the
\* step is done; the charge made at creation is the one exception.
Unissued == \A d \in Dates : charge[d].state = "none"
StoppedServicesAreNotBilled ==
    [][\A d \in Dates :
          charge[d].state # "open" /\ charge'[d].state = "open"
              => status' = "active" \/ Unissued]_billingVars

\* docs/architecture/crm-domain.md: when an active recurring service with
\* auto-renew is fully paid, the next charge is created.
FullPaymentRenews ==
    [][\A d \in Dates :
          (/\ outstanding_amount(charge[d]) > 0
           /\ Settled(charge'[d])
           /\ Renews(charge'[d], d)
           /\ NextDate(terms, d) \in Dates)
              => charge'[NextDate(terms, d)].state = "open"]_billingVars
=============================================================================
