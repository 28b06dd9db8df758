----------------------------- MODULE BillingProofs -----------------------------
(***************************************************************************)
(* Machine-checked proofs about Billing, for any agreements, patches,      *)
(* currencies, amounts, length of the month and number of requests, and    *)
(* about the run that checks it, the Update Center and the screen.         *)
(*                                                                         *)
(* The inductive invariant BillingInv adds to the types what the charges   *)
(* keep to (RowsOK), that a creation under way has the subscription to     *)
(* itself (CreationIsAlone), and OneOutstanding without Max (LatestOwes).  *)
(***************************************************************************)
EXTENDS MCServer, UpdateCenterProofs, UpdateScreenProofs, WellFoundedInduction

\* Charges that are never overpaid and hold money only once they are issued.
RowsOK(rows) ==
    /\ rows \in [Dates -> Charge]
    /\ \A d \in Dates : /\ rows[d].paid <= rows[d].gross
                        /\ rows[d].state = "none" => rows[d].paid = 0

\* Between the insertion of the row and that of its first charge nothing else
\* creates a charge.
CreationIsAlone ==
    /\ status = "none" => Unissued
    /\ \A r \in Reqs : req[r].op = "create" =>
           /\ status # "none" /\ Unissued
           /\ \A q \in Reqs : req[q].op = "create" => q = r

Owed(d) == charge[d].state = "open" /\ outstanding_amount(charge[d]) > 0

LatestOwes ==
    \A d, e \in Dates : Owed(d) /\ charge[e].state = "open" => e <= d

BillingInv == BillingTypeOK /\ RowsOK(charge) /\ CreationIsAlone /\ LatestOwes

-----------------------------------------------------------------------------
(* The first and the last date of a set.                                   *)

\* A set of naturals has a least member.
LEMMA Smallest ==
    ASSUME NEW T \in SUBSET Nat, T # {}
    PROVE  \E x \in T : \A y \in T : x <= y
<1> DEFINE R == OpToRel(<, Nat)
<1>1. \A x, y \in Nat : <<y, x>> \in R <=> y < x
  <2>1. R = {ss \in Nat \X Nat : ss[1] < ss[2]}
      BY DEF OpToRel
  <2> HIDE DEF R
  <2>2. QED
      BY <2>1
<1>2. IsWellFoundedOn(R, Nat)
    BY NatLessThanWellFounded
<1> HIDE DEF R
<1>3. PICK x \in T : \A y \in T : ~ (<<y, x>> \in R)
    BY <1>2, WFMin
<1>4. ASSUME NEW y \in T PROVE x <= y
  <2>1. x \in Nat /\ y \in Nat /\ ~ (<<y, x>> \in R)
      BY <1>3
  <2>2. ~ (y < x)
      BY <2>1, <1>1
  <2>3. QED
      BY <2>1, <2>2
<1>5. QED
    BY <1>4

\* Min of a set of dates.
LEMMA MinOfDates ==
    ASSUME NEW T \in SUBSET Dates, T # {}
    PROVE  Min(T) \in T
<1>1. T \in SUBSET Nat
    BY DEF Dates
<1>2. \E x \in T : \A y \in T : x <= y
    BY <1>1, Smallest
<1>3. QED
    BY <1>2 DEF Min

\* Max of a set of dates, by the least distance to the last date.
LEMMA MaxOfDates ==
    ASSUME NEW T \in SUBSET Dates, T # {}
    PROVE  Max(T) \in T /\ \A y \in T : y <= Max(T)
<1>1. LastDate \in Nat
    BY BillingAssumption
<1> DEFINE Gaps == {LastDate - x : x \in T}
<1>2. Gaps \in SUBSET Nat /\ Gaps # {}
  <2>1. ASSUME NEW x \in T PROVE LastDate - x \in Nat
      BY <1>1 DEF Dates
  <2>2. PICK x \in T : TRUE
      OBVIOUS
  <2>3. LastDate - x \in Gaps
      OBVIOUS
  <2>4. QED
      BY <2>1, <2>3
<1>3. PICK g \in Gaps : \A h \in Gaps : g <= h
    BY <1>2, Smallest
<1>4. PICK x \in T : g = LastDate - x
    BY <1>3
<1>5. ASSUME NEW y \in T PROVE x >= y
  <2>1. LastDate - x <= LastDate - y
      BY <1>3, <1>4
  <2>2. QED
      BY <2>1, <1>1 DEF Dates
<1>6. Max(T) \in T /\ \A y \in T : Max(T) >= y
    BY <1>5 DEF Max
<1>7. QED
    BY <1>6 DEF Dates

\* The last date of a set is its Max.
LEMMA MaxIsLast ==
    ASSUME NEW T \in SUBSET Dates, NEW d \in T, \A e \in T : e <= d
    PROVE  d = Max(T)
<1>1. Max(T) \in T /\ \A y \in T : y <= Max(T)
    BY MaxOfDates
<1> DEFINE m == Max(T)
<1>2. m \in T /\ d <= m /\ m <= d
    BY <1>1
<1> HIDE DEF m
<1>3. m \in Int /\ d \in Int
    BY <1>2 DEF Dates
<1>4. d = m
    BY <1>2, <1>3
<1>5. QED
    BY <1>4 DEF m

-----------------------------------------------------------------------------
(* Dates, charges and terms.                                               *)

\* The period of a charge ends at a date, and the next one comes after it.
LEMMA Periods ==
    ASSUME NEW t \in Agreement, NEW d \in Dates
    PROVE  /\ NextDate(t, d) \in Nat /\ period_end(t, d) \in Nat
           /\ Recurring(t) => d < NextDate(t, d)
<1>1. MonthDays \in Nat \ {0} /\ d \in Nat \ {0}
    BY BillingAssumption DEF Dates
<1>2. INTERVAL_MONTHS[t.interval] \in {0, 1, 3, 6, 12}
    BY DEF INTERVAL_MONTHS, Agreement, Intervals
<1>3. \A n \in {0, 1, 3, 6, 12} : /\ d + n * MonthDays \in Nat
                                  /\ n > 0 => d < d + n * MonthDays
    BY <1>1
<1>4. QED
    BY <1>1, <1>2, <1>3 DEF NextDate, add_months, period_end, Recurring

\* get_or_create leaves a row that exists as it is.
LEMMA Ensured ==
    ASSUME NEW rows, RowsOK(rows), NEW t \in Agreement, NEW d \in Dates,
           NEW new, new = ensure_charge(t, d, rows)
    PROVE  /\ RowsOK(new)
           /\ rows[d].state # "none" => new = rows
           /\ rows[d].state = "none" => new[d].state = "open"
           /\ \A e \in Dates \ {d} : new[e] = rows[e]
<1>1. CASE rows[d].state # "none"
    BY <1>1 DEF ensure_charge
<1>2. CASE rows[d].state = "none"
  <2> DEFINE c == [state |-> "open", last |-> period_end(t, d), gross |-> t.gross,
                   currency |-> t.currency, paid |-> 0]
  <2>1. new = [rows EXCEPT ![d] = c]
      BY <1>2 DEF ensure_charge
  <2>2. period_end(t, d) \in Nat /\ t.gross \in Amounts /\ t.currency \in Currencies /\ 0 \in Amounts
      BY Periods, BillingAssumption DEF Agreement, Amounts
  <2>3. c \in Charge /\ c.paid <= c.gross /\ c.state = "open"
      BY <2>2 DEF Charge, Amounts
  <2> HIDE DEF c
  <2>4. new[d] = c /\ \A e \in Dates \ {d} : new[e] = rows[e]
      BY <2>1 DEF RowsOK
  <2>5. new \in [Dates -> Charge]
      BY <2>1, <2>3 DEF RowsOK
  <2>6. QED
      BY <1>2, <2>3, <2>4, <2>5 DEF RowsOK
<1>3. QED
    BY <1>1, <1>2

\* A cancellation takes charges back and changes nothing else of them.
LEMMA CancelledAfter ==
    ASSUME RowsOK(charge), NEW day, NEW new, new = CancelAfter(day)
    PROVE  /\ RowsOK(new)
           /\ \A d \in Dates :
                /\ new[d].state = "open" => charge[d].state = "open"
                /\ new[d].state = "none" <=> charge[d].state = "none"
                /\ new[d].gross = charge[d].gross /\ new[d].paid = charge[d].paid
                /\ new[d].currency = charge[d].currency /\ new[d].last = charge[d].last
<1>1. ASSUME NEW d \in Dates
      PROVE  /\ new[d] \in Charge
             /\ new[d].state = "open" => charge[d].state = "open"
             /\ new[d].state = "none" <=> charge[d].state = "none"
             /\ new[d].gross = charge[d].gross /\ new[d].paid = charge[d].paid
             /\ new[d].currency = charge[d].currency /\ new[d].last = charge[d].last
  <2>1. charge[d] \in Charge
      BY DEF RowsOK
  <2>2. new[d] = charge[d] \/ (charge[d].state = "open" /\ new[d] = [charge[d] EXCEPT !.state = "cancelled"])
      BY DEF CancelAfter
  <2>3. ASSUME NEW c, c = [charge[d] EXCEPT !.state = "cancelled"]
        PROVE  c = [state |-> "cancelled", last |-> charge[d].last, gross |-> charge[d].gross,
                    currency |-> charge[d].currency, paid |-> charge[d].paid]
      BY <2>1, <2>3 DEF Charge
  <2>4. QED
      BY <2>1, <2>2, <2>3 DEF Charge
<1>2. new = [d \in Dates |-> new[d]]
    BY DEF CancelAfter
<1>3. new \in [Dates -> Charge]
    BY <1>1, <1>2
<1>4. QED
    BY <1>1, <1>3 DEF RowsOK

\* A patch of an agreement is an agreement.
LEMMA MergedType ==
    ASSUME NEW t \in Agreement, NEW data \in Patches
    PROVE  Merged(t, data) \in Agreement
BY BillingAssumption DEF Merged, Agreement

-----------------------------------------------------------------------------
(* What the steps have in common.                                          *)

\* A request that ends holds nothing, and the others what they held.
LEMMA Ending ==
    ASSUME BillingTypeOK, NEW r \in Reqs, EndRequest(r)
    PROVE  /\ req' \in [Reqs -> Request]
           /\ \A q \in Reqs : req'[q].op = "create" => q # r /\ req[q].op = "create"
<1>1. NoReq \in Request /\ NoReq.op # "create"
    BY DEF NoReq, Request
<1>2. req' = [req EXCEPT ![r] = NoReq] /\ req \in [Reqs -> Request]
    BY DEF EndRequest, BillingTypeOK
<1> HIDE DEF NoReq, Request
<1>3. QED
    BY <1>1, <1>2

\* A request that begins holds what its view read.
LEMMA Beginning ==
    ASSUME BillingTypeOK, NEW r \in Reqs, NEW held \in Request, BeginRequest(r, held)
    PROVE  /\ req' \in [Reqs -> Request]
           /\ req'[r] = held
           /\ \A q \in Reqs \ {r} : req'[q] = req[q]
BY DEF BeginRequest, BillingTypeOK

\* Creations end before a charge is issued by anything else.
LEMMA CreationStays ==
    ASSUME CreationIsAlone,
           \A q \in Reqs : req'[q].op = "create" => req[q].op = "create",
           status' = "none" => status = "none",
           Unissued => Unissued'
    PROVE  CreationIsAlone'
BY DEF CreationIsAlone

\* A step that neither opens a charge nor makes one owe keeps the last one last.
LEMMA OwingStays ==
    ASSUME LatestOwes,
           \A d \in Dates : /\ charge'[d].state = "open" => charge[d].state = "open"
                            /\ Owed(d)' => Owed(d)
    PROVE  LatestOwes'
BY DEF LatestOwes

\* A later charge may be opened once nothing is owed.
LEMMA NextIsLast ==
    ASSUME NEW n \in Dates,
           \A d \in Dates \ {n} : ~ Owed(d)',
           \A d \in Dates : charge'[d].state = "open" => d <= n
    PROVE  LatestOwes'
BY DEF LatestOwes

\* outstanding_amount never exceeds what is missing.
LEMMA Outstanding ==
    ASSUME NEW c \in Charge
    PROVE  /\ outstanding_amount(c) \in Nat
           /\ outstanding_amount(c) > 0 <=> c.paid < c.gross
           /\ outstanding_amount(c) > 0 => outstanding_amount(c) = c.gross - c.paid
<1>1. c.gross \in Nat /\ c.paid \in Nat
    BY BillingAssumption DEF Charge, Amounts
<1>2. QED
    BY <1>1 DEF outstanding_amount

-----------------------------------------------------------------------------
(* The inductive invariant.                                                *)

\* A customer without the service has no charge.
LEMMA InitBillingInv == BillingInit => BillingInv
<1> SUFFICES ASSUME BillingInit PROVE BillingInv
    OBVIOUS
<1>1. terms \in Agreement
    BY BillingAssumption DEF BillingInit
<1>2. terms.currency \in Currencies /\ terms.next \in Dates
    BY <1>1 DEF Agreement
<1>3. 0 \in Amounts /\ today \in Dates
    BY <1>2, BillingAssumption DEF Amounts, Dates, BillingInit
<1>4. NoCharge \in Charge /\ NoCharge.state = "none" /\ NoCharge.paid <= NoCharge.gross /\ NoCharge.paid = 0
    BY <1>2, <1>3 DEF NoCharge, Charge
<1>5. charge \in [Dates -> Charge] /\ \A d \in Dates : charge[d] = NoCharge
    BY <1>4 DEF BillingInit
<1>6. RowsOK(charge) /\ Unissued /\ LatestOwes
    BY <1>4, <1>5 DEF RowsOK, Unissued, LatestOwes, Owed
<1>7. req \in [Reqs -> Request] /\ \A r \in Reqs : req[r].op # "create"
    BY DEF BillingInit, Request, NoReq
<1>8. BillingTypeOK
    BY <1>1, <1>3, <1>5, <1>7 DEF BillingTypeOK, BillingInit, NoDate
<1>9. QED
    BY <1>6, <1>7, <1>8 DEF BillingInv, CreationIsAlone, BillingInit

\* CustomerSubscriptionSerializer.create, the row.
LEMMA CreateRowKeeps ==
    ASSUME BillingInv, NEW r \in Reqs, NEW t \in Agreements, CreateRow(r, t)
    PROVE  BillingInv'
<1>1. t \in Agreement
    BY BillingAssumption
<1> DEFINE held == [op |-> "create", terms |-> t]
<1>2. held \in Request
    BY DEF Request
<1>3. req' \in [Reqs -> Request] /\ req'[r] = held /\ \A q \in Reqs \ {r} : req'[q] = req[q]
    BY <1>2, Beginning DEF BillingInv, CreateRow
<1>4. BillingTypeOK'
    BY <1>1, <1>3 DEF BillingInv, BillingTypeOK, CreateRow, Statuses
<1>5. Unissued /\ Unissued' /\ \A q \in Reqs : req[q].op # "create"
    BY DEF BillingInv, CreationIsAlone, CreateRow, Unissued
<1>6. CreationIsAlone'
    BY <1>3, <1>5 DEF CreationIsAlone, CreateRow
<1>7. RowsOK(charge)' /\ LatestOwes'
    BY DEF BillingInv, CreateRow, RowsOK, LatestOwes, Owed
<1>8. QED
    BY <1>4, <1>6, <1>7 DEF BillingInv

\* CustomerSubscriptionSerializer.create, the first charge.
LEMMA CreateChargeKeeps ==
    ASSUME BillingInv, NEW r \in Reqs, CreateCharge(r)
    PROVE  BillingInv'
<1>1. PICK t \in Agreements : req[r].terms = t
    BY DEF BillingInv, BillingTypeOK, CreateCharge, Request, NoReq
<1>2. t \in Agreement /\ t.next \in Dates
    BY BillingAssumption DEF Agreement
<1>3. RowsOK(charge) /\ Unissued
    BY DEF BillingInv, CreationIsAlone, CreateCharge
<1>4. charge' = ensure_charge(t, t.next, charge)
    BY <1>1 DEF CreateCharge
<1>5. RowsOK(charge') /\ \A e \in Dates \ {t.next} : charge'[e] = charge[e]
    BY <1>2, <1>3, <1>4, Ensured
<1>6. LatestOwes'
  <2>1. \A e \in Dates \ {t.next} : charge'[e].state = "none"
      BY <1>3, <1>5 DEF Unissued
  <2>2. t.next <= t.next
      BY <1>2 DEF Dates
  <2>3. QED
      BY <1>2, <2>1, <2>2 DEF LatestOwes, Owed
<1>7. /\ req' \in [Reqs -> Request]
      /\ \A q \in Reqs : req'[q].op # "create"
    BY Ending DEF BillingInv, CreationIsAlone, CreateCharge
<1>8. CreationIsAlone'
    BY <1>7 DEF BillingInv, CreationIsAlone, CreateCharge
<1>9. BillingTypeOK'
    BY <1>5, <1>7 DEF BillingInv, BillingTypeOK, CreateCharge, RowsOK
<1>10. QED
    BY <1>5, <1>6, <1>8, <1>9 DEF BillingInv, RowsOK

\* Views that check and then wait for the lock change only their request.
LEMMA WaitingKeeps ==
    ASSUME BillingInv, NEW r \in Reqs, NEW held \in Request, held.op # "create",
           BeginRequest(r, held), UNCHANGED <<today, status, effective, terms, charge>>
    PROVE  BillingInv'
<1>1. /\ req' \in [Reqs -> Request]
      /\ \A q \in Reqs : req'[q].op = "create" => req[q].op = "create"
    BY Beginning DEF BillingInv
<1>2. BillingTypeOK'
    BY <1>1 DEF BillingInv, BillingTypeOK
<1>3. CreationIsAlone'
    BY <1>1, CreationStays DEF BillingInv, Unissued
<1>4. QED
    BY <1>2, <1>3 DEF BillingInv, RowsOK, LatestOwes, Owed

\* A request that ends without another effect.
LEMMA LoseRequestKeeps ==
    ASSUME BillingInv, NEW r \in Reqs, LoseRequest(r)
    PROVE  BillingInv'
<1>1. /\ req' \in [Reqs -> Request]
      /\ \A q \in Reqs : req'[q].op = "create" => req[q].op = "create"
    BY Ending DEF BillingInv, LoseRequest
<1>2. BillingTypeOK'
    BY <1>1 DEF BillingInv, BillingTypeOK, LoseRequest
<1>3. CreationIsAlone'
    BY <1>1, CreationStays DEF BillingInv, Unissued, LoseRequest
<1>4. QED
    BY <1>2, <1>3 DEF BillingInv, RowsOK, LatestOwes, Owed, LoseRequest

\* The charges once those that may be edited have the price of t.
Repriced(t) ==
    [d \in Dates |->
        IF d \in Editable
        THEN [charge[d] EXCEPT !.gross = t.gross, !.currency = t.currency]
        ELSE charge[d]]

\* A change of price or currency rewrites only what is still owed, and never to
\* less than was paid.
LEMMA UpdateRows ==
    ASSUME BillingInv, NEW t \in Agreement, TermsAllowed(t), NEW new, new = Repriced(t)
    PROVE  /\ RowsOK(new)
           /\ \A d \in Dates : /\ new[d].state = charge[d].state
                               /\ new[d].paid = charge[d].paid
                               /\ ~ Owed(d) => new[d] = charge[d]
                               /\ charge[d].paid > 0 => new[d].currency = charge[d].currency
<1>1. ASSUME NEW d \in Dates
      PROVE  /\ new[d] \in Charge
             /\ new[d].state = charge[d].state
             /\ new[d].paid = charge[d].paid
             /\ new[d].paid <= new[d].gross
             /\ ~ Owed(d) => new[d] = charge[d]
             /\ charge[d].paid > 0 => new[d].currency = charge[d].currency
  <2>1. charge[d] \in Charge /\ charge[d].paid <= charge[d].gross
      BY DEF BillingInv, RowsOK
  <2>2. CASE d \notin Editable
      BY <2>1, <2>2 DEF Repriced, Editable, Owed
  <2>3. CASE d \in Editable
    <3>1. new[d] = [charge[d] EXCEPT !.gross = t.gross, !.currency = t.currency]
        BY <2>3 DEF Repriced
    <3>2. new[d] = [state |-> charge[d].state, last |-> charge[d].last, gross |-> t.gross,
                    currency |-> t.currency, paid |-> charge[d].paid]
        BY <2>1, <3>1 DEF Charge
    <3>3. charge[d].paid <= t.gross /\ (charge[d].paid > 0 => charge[d].currency = t.currency)
        BY <2>3 DEF TermsAllowed
    <3>4. t.gross \in Amounts /\ t.currency \in Currencies /\ Owed(d)
        BY <2>3 DEF Agreement, Editable, Owed
    <3>5. QED
        BY <2>1, <3>2, <3>3, <3>4 DEF Charge
  <2>4. QED
      BY <2>2, <2>3
<1>2. new \in [Dates -> Charge]
    BY <1>1 DEF Repriced
<1>3. QED
    BY <1>1, <1>2 DEF BillingInv, RowsOK

\* update_subscription, on the row as it is under the lock.
LEMMA UpdateCases ==
    ASSUME BillingInv, NEW r \in Reqs, update_subscription(r)
    PROVE  \/ UNCHANGED <<terms, charge>>
           \/ terms' \in Agreement /\ charge' = charge
           \/ /\ terms' \in Agreement
              /\ TermsAllowed(terms')
              /\ charge' = Repriced(terms')
<1>1. PICK data \in Patches : req[r].data = data
  <2>1. req[r] \in Request /\ req[r].op = "patch"
      BY DEF BillingInv, BillingTypeOK, update_subscription
  <2>2. req[r].data \in Patches
      BY <2>1 DEF Request, NoReq
  <2>3. QED
      BY <2>2
<1> DEFINE t == Merged(terms, data)
           commercial == DOMAIN data \cap {"gross", "currency"} # {}
<1>2. t \in Agreement
    BY MergedType DEF BillingInv, BillingTypeOK
<1>3. IF commercial /\ ~ TermsAllowed(t)
      THEN UNCHANGED <<terms, charge>>
      ELSE /\ terms' = t
           /\ charge' = [d \in Dates |->
                 IF commercial /\ d \in Editable
                 THEN [charge[d] EXCEPT !.gross = t.gross, !.currency = t.currency]
                 ELSE charge[d]]
    BY <1>1 DEF update_subscription
<1> HIDE DEF t, commercial
<1>4. CASE commercial /\ ~ TermsAllowed(t)
    BY <1>3, <1>4
<1>5. CASE commercial /\ TermsAllowed(t)
    BY <1>2, <1>3, <1>5 DEF Repriced
<1>6. CASE ~ commercial
  <2>1. terms' = t /\ charge' = [d \in Dates |-> charge[d]]
      BY <1>3, <1>6
  <2>2. charge = [d \in Dates |-> charge[d]]
      BY DEF BillingInv, RowsOK
  <2>3. QED
      BY <1>2, <2>1, <2>2
<1>7. QED
    BY <1>4, <1>5, <1>6

\* An edit keeps the invariant, whatever happened since it was validated.
LEMMA UpdateKeeps ==
    ASSUME BillingInv, NEW r \in Reqs, update_subscription(r)
    PROVE  BillingInv'
<1>1. /\ terms' \in Agreement
      /\ RowsOK(charge')
      /\ \A d \in Dates : /\ charge'[d].state = charge[d].state
                          /\ ~ Owed(d) => charge'[d] = charge[d]
  <2>1. terms \in Agreement /\ RowsOK(charge)
      BY DEF BillingInv, BillingTypeOK
  <2>2. CASE charge' = charge /\ terms' \in Agreement
      BY <2>1, <2>2
  <2>3. CASE ~ (charge' = charge /\ terms' \in Agreement)
    <3>1. /\ terms' \in Agreement
          /\ TermsAllowed(terms')
          /\ charge' = Repriced(terms')
        BY <2>1, <2>3, UpdateCases
    <3>2. QED
        BY <3>1, UpdateRows
  <2>4. QED
      BY <2>2, <2>3
<1>2. /\ req' \in [Reqs -> Request]
      /\ \A q \in Reqs : req'[q].op = "create" => req[q].op = "create"
    BY Ending DEF BillingInv, update_subscription
<1>3. BillingTypeOK'
    BY <1>1, <1>2 DEF BillingInv, BillingTypeOK, update_subscription, RowsOK
<1>4. CreationIsAlone'
  <2>1. Unissued => Unissued'
      BY <1>1 DEF Unissued
  <2>2. status' = status
      BY DEF update_subscription
  <2>3. QED
      BY <1>2, <2>1, <2>2, CreationStays DEF BillingInv
<1>5. LatestOwes'
  <2>1. ASSUME NEW d \in Dates PROVE Owed(d)' => Owed(d)
      BY <1>1 DEF Owed
  <2>2. QED
      BY <1>1, <2>1, OwingStays DEF BillingInv
<1>6. QED
    BY <1>1, <1>3, <1>4, <1>5 DEF BillingInv, RowsOK

\* Taking charges back opens none and makes none owe.
LEMMA CancelRows ==
    ASSUME BillingInv, NEW day, charge' = CancelAfter(day)
    PROVE  RowsOK(charge') /\ LatestOwes' /\ (Unissued <=> Unissued')
<1>1. RowsOK(charge)
    BY DEF BillingInv
<1>2. /\ RowsOK(charge')
      /\ \A d \in Dates :
            /\ charge'[d].state = "open" => charge[d].state = "open"
            /\ charge'[d].state = "none" <=> charge[d].state = "none"
            /\ charge'[d].gross = charge[d].gross /\ charge'[d].paid = charge[d].paid
    BY <1>1, CancelledAfter
<1>3. ASSUME NEW d \in Dates PROVE Owed(d)' => Owed(d)
    BY <1>2 DEF Owed, outstanding_amount
<1>4. LatestOwes'
    BY <1>2, <1>3, OwingStays DEF BillingInv
<1>5. QED
    BY <1>2, <1>4 DEF Unissued

\* services.pause_subscription.
LEMMA PauseKeeps ==
    ASSUME BillingInv, NEW r \in Reqs, pause_subscription(r)
    PROVE  BillingInv'
<1>1. RowsOK(charge') /\ LatestOwes' /\ (Unissued <=> Unissued')
    BY CancelRows DEF pause_subscription
<1>2. /\ req' \in [Reqs -> Request]
      /\ \A q \in Reqs : req'[q].op = "create" => req[q].op = "create"
    BY Ending DEF BillingInv, pause_subscription
<1>3. status' = "paused"
    BY DEF pause_subscription
<1>4. BillingTypeOK'
    BY <1>1, <1>2, <1>3 DEF BillingInv, BillingTypeOK, pause_subscription, RowsOK, Statuses
<1>5. CreationIsAlone'
    BY <1>1, <1>2, <1>3, CreationStays DEF BillingInv
<1>6. QED
    BY <1>1, <1>4, <1>5 DEF BillingInv, RowsOK

\* services.cancel_subscription.
LEMMA CancelKeeps ==
    ASSUME BillingInv, NEW r \in Reqs, cancel_subscription(r)
    PROVE  BillingInv'
<1> DEFINE last == IF req[r].op = "cancel_now" \/ Standing = {}
                   THEN today ELSE charge[CurrentCharge].last
<1>1. charge' = CancelAfter(last) /\ effective' = last /\ EndRequest(r)
    BY DEF cancel_subscription
<1>2. last \in Nat
  <2>1. today \in Nat
      BY DEF BillingInv, BillingTypeOK, Dates
  <2>2. ASSUME Standing # {} PROVE CurrentCharge \in Dates
    <3> DEFINE begun == {d \in Standing : d <= today}
    <3>1. Standing \in SUBSET Dates /\ begun \in SUBSET Dates
        BY DEF Standing
    <3>2. Min(Standing) \in Standing
        BY <3>1, <2>2, MinOfDates
    <3>3. begun # {} => Max(begun) \in begun
        BY <3>1, MaxOfDates
    <3>4. CurrentCharge = IF begun # {} THEN Max(begun) ELSE Min(Standing)
        BY DEF CurrentCharge
    <3> HIDE DEF begun
    <3>5. QED
        BY <3>1, <3>2, <3>3, <3>4
  <2>3. \A d \in Dates : charge[d].last \in Nat
      BY DEF BillingInv, RowsOK, Charge
  <2>4. QED
      BY <2>1, <2>2, <2>3
<1> HIDE DEF last
<1>3. RowsOK(charge') /\ LatestOwes' /\ (Unissued <=> Unissued')
    BY <1>1, CancelRows
<1>4. /\ req' \in [Reqs -> Request]
      /\ \A q \in Reqs : req'[q].op = "create" => req[q].op = "create"
    BY <1>1, Ending DEF BillingInv
<1>5. status' \in {"cancelled", "cancelling"}
    BY DEF cancel_subscription
<1>6. BillingTypeOK'
    BY <1>1, <1>2, <1>3, <1>4, <1>5
       DEF BillingInv, BillingTypeOK, cancel_subscription, RowsOK, Statuses
<1>7. CreationIsAlone'
    BY <1>3, <1>4, <1>5, CreationStays DEF BillingInv
<1>8. QED
    BY <1>3, <1>6, <1>7 DEF BillingInv, RowsOK

\* Midnight.
LEMMA NextDayKeeps ==
    ASSUME BillingInv, NextDay
    PROVE  BillingInv'
<1>1. today' \in Dates
    BY BillingAssumption DEF BillingInv, BillingTypeOK, NextDay, Dates
<1>2. BillingTypeOK'
    BY <1>1 DEF BillingInv, BillingTypeOK, NextDay
<1>3. QED
    BY <1>2 DEF BillingInv, NextDay, RowsOK, CreationIsAlone, Unissued, LatestOwes, Owed

\* A payment never exceeds what its charge still lacks.
LEMMA PaidRows ==
    ASSUME BillingInv, NEW d \in Dates, NEW a \in 1..MaxAmount, charge[d].state = "open",
           a <= outstanding_amount(charge[d]), NEW rows, rows = Paid(d, a)
    PROVE  /\ RowsOK(rows)
           /\ Owed(d)
           /\ rows[d].state = "open" /\ rows[d].currency = charge[d].currency
           /\ \A e \in Dates \ {d} : rows[e] = charge[e]
<1>1. charge[d] \in Charge /\ charge \in [Dates -> Charge] /\ a \in Nat /\ a > 0
    BY BillingAssumption DEF BillingInv, RowsOK
<1>2. Owed(d) /\ charge[d].paid + a <= charge[d].gross
  <2>1. outstanding_amount(charge[d]) > 0
      BY <1>1, Outstanding
  <2>2. a <= charge[d].gross - charge[d].paid
      BY <1>1, <2>1, Outstanding
  <2>3. charge[d].gross \in Nat /\ charge[d].paid \in Nat
      BY <1>1, BillingAssumption DEF Charge, Amounts
  <2>4. charge[d].paid + a <= charge[d].gross
      BY <1>1, <2>2, <2>3
  <2>5. QED
      BY <2>1, <2>4 DEF Owed
<1>3. charge[d].paid + a \in Amounts
    BY <1>1, <1>2, BillingAssumption DEF Charge, Amounts
<1> DEFINE c == [charge[d] EXCEPT !.paid = charge[d].paid + a]
<1>4. rows = [charge EXCEPT ![d] = c]
    BY DEF Paid
<1>5. c = [state |-> charge[d].state, last |-> charge[d].last, gross |-> charge[d].gross,
           currency |-> charge[d].currency, paid |-> charge[d].paid + a]
    BY <1>1 DEF Charge
<1>6. /\ c \in Charge /\ c.paid <= c.gross /\ c.state = "open"
      /\ c.currency = charge[d].currency
    BY <1>1, <1>2, <1>3, <1>5 DEF Charge
<1> HIDE DEF c
<1>7. rows[d] = c /\ (\A e \in Dates \ {d} : rows[e] = charge[e]) /\ rows \in [Dates -> Charge]
    BY <1>1, <1>4, <1>6
<1>8. RowsOK(rows)
    BY <1>6, <1>7 DEF BillingInv, RowsOK
<1>9. QED
    BY <1>2, <1>6, <1>7, <1>8

\* services.record_payment: with or without the renewal that follows.
LEMMA PaymentCases ==
    ASSUME BillingInv, NEW d \in Dates, NEW a \in 1..MaxAmount, record_payment(d, a),
           NEW rows, rows = Paid(d, a)
    PROVE  \/ charge' = rows /\ terms' = terms
           \/ /\ outstanding_amount(rows[d]) = 0
              /\ status = "active"
              /\ NextDate(terms, d) \in Dates /\ d < NextDate(terms, d)
              /\ terms' = [terms EXCEPT !.next = NextDate(terms, d)]
              /\ charge' = ensure_charge(terms, NextDate(terms, d), rows)
<1> DEFINE next == NextDate(terms, d)
<1>1. IF Renews(rows[d], d)
      THEN /\ next \in Dates
           /\ terms' = [terms EXCEPT !.next = next]
           /\ charge' = ensure_charge(terms, next, rows)
      ELSE charge' = rows /\ terms' = terms
    BY DEF record_payment
<1>2. Recurring(terms) => d < next
    BY Periods DEF BillingInv, BillingTypeOK
<1> HIDE DEF next
<1>3. CASE Renews(rows[d], d)
  <2>1. outstanding_amount(rows[d]) = 0 /\ status = "active" /\ Recurring(terms)
      BY <1>3 DEF Renews
  <2>2. QED
      BY <1>1, <1>2, <1>3, <2>1 DEF next
<1>4. QED
    BY <1>1, <1>3

\* The next date of the terms may move.
LEMMA NextMoves ==
    ASSUME NEW t \in Agreement, NEW n \in Dates, NEW u, u = [t EXCEPT !.next = n]
    PROVE  u \in Agreement
<1>1. u = [interval |-> t.interval, gross |-> t.gross, currency |-> t.currency,
           auto_renew |-> t.auto_renew, end_date |-> t.end_date, next |-> n]
    BY DEF Agreement
<1>2. PICK b \in BOOLEAN : t.auto_renew = b
    BY DEF Agreement
<1>3. QED
    BY <1>1, <1>2 DEF Agreement

\* A payment keeps the invariant: it is recorded against the last charge, so the
\* one that follows its settlement is the last in turn.
LEMMA PaymentKeeps ==
    ASSUME BillingInv, NEW d \in Dates, NEW a \in 1..MaxAmount, record_payment(d, a)
    PROVE  BillingInv'
<1> DEFINE rows == Paid(d, a)
           next == NextDate(terms, d)
<1>0. rows = Paid(d, a)
    OBVIOUS
<1>1. charge[d].state = "open" /\ a <= outstanding_amount(charge[d])
    BY DEF record_payment
<1>2. \/ charge' = rows /\ terms' = terms
      \/ /\ outstanding_amount(rows[d]) = 0
         /\ next \in Dates /\ d < next
         /\ terms' = [terms EXCEPT !.next = next]
         /\ charge' = ensure_charge(terms, next, rows)
    BY <1>0, PaymentCases
<1> HIDE DEF rows, next
<1>3. /\ RowsOK(rows)
      /\ Owed(d)
      /\ rows[d].state = "open"
      /\ \A e \in Dates \ {d} : rows[e] = charge[e]
    BY <1>0, <1>1, PaidRows
<1>4. terms \in Agreement
    BY DEF BillingInv, BillingTypeOK
<1>5. terms' \in Agreement /\ RowsOK(charge') /\ LatestOwes' /\ charge'[d].state = "open"
  <2>1. CASE charge' = rows /\ terms' = terms
    <3>1. \A e \in Dates : /\ charge'[e].state = "open" => charge[e].state = "open"
                           /\ Owed(e)' => Owed(e)
        BY <1>1, <1>3, <2>1 DEF Owed
    <3>2. QED
        BY <1>3, <1>4, <2>1, <3>1, OwingStays DEF BillingInv
  <2>2. CASE /\ outstanding_amount(rows[d]) = 0
             /\ next \in Dates /\ d < next
             /\ terms' = [terms EXCEPT !.next = next]
             /\ charge' = ensure_charge(terms, next, rows)
    <3>1. RowsOK(charge') /\ \A e \in Dates \ {next} : charge'[e] = rows[e]
        BY <1>3, <1>4, <2>2, Ensured
    <3>2. d # next /\ charge'[d] = rows[d]
        BY <2>2, <3>1 DEF Dates
    <3>3. ASSUME NEW e \in Dates, charge[e].state = "open"
          PROVE  e <= d /\ (Owed(e) => e = d)
      <4>1. e <= d /\ (Owed(e) => d <= e)
          BY <1>1, <1>3, <3>3 DEF BillingInv, LatestOwes
      <4>2. QED
          BY <4>1 DEF Dates
    <3>4. ASSUME NEW e \in Dates \ {next} PROVE ~ Owed(e)'
      <4>1. CASE e = d
          BY <2>2, <3>2, <4>1 DEF Owed
      <4>2. CASE e # d
          BY <1>3, <3>1, <3>3, <4>2 DEF Owed
      <4>3. QED
          BY <4>1, <4>2
    <3>5. ASSUME NEW e \in Dates, charge'[e].state = "open" PROVE e <= next
      <4>1. CASE e = next
          BY <4>1 DEF Dates
      <4>2. CASE e # next
        <5>1. charge[e].state = "open"
            BY <1>1, <1>3, <3>1, <3>5, <4>2
        <5>2. e <= d
            BY <3>3, <5>1
        <5>3. QED
            BY <2>2, <5>2 DEF Dates
      <4>3. QED
          BY <4>1, <4>2
    <3>6. LatestOwes'
        BY <2>2, <3>4, <3>5, NextIsLast
    <3>7. terms' \in Agreement
        BY <1>4, <2>2, NextMoves
    <3>8. QED
        BY <1>3, <3>1, <3>2, <3>6, <3>7
  <2>3. QED
      BY <1>2, <2>1, <2>2
<1>6. BillingTypeOK'
    BY <1>5 DEF BillingInv, BillingTypeOK, record_payment, RowsOK
<1>7. CreationIsAlone'
  <2>1. ~ Unissued
      BY <1>1 DEF Unissued
  <2>2. status # "none" /\ \A q \in Reqs : req[q].op # "create"
      BY <2>1 DEF BillingInv, CreationIsAlone
  <2>3. status' = status /\ req' = req
      BY DEF record_payment
  <2>4. QED
      BY <2>2, <2>3 DEF CreationIsAlone
<1>8. QED
    BY <1>5, <1>6, <1>7 DEF BillingInv, RowsOK

\* What a reopened or newly issued charge keeps of the row it had.
LEMMA ResumeRows ==
    ASSUME RowsOK(charge), NEW t \in Agreement, NEW n \in Dates, NEW new,
           new = IF charge[n].state = "cancelled"
                 THEN [charge EXCEPT ![n].state = "open"]
                 ELSE ensure_charge(t, n, charge)
    PROVE  /\ RowsOK(new)
           /\ \A e \in Dates \ {n} : new[e] = charge[e]
           /\ charge[n].state # "none" =>
                 /\ new[n].last = charge[n].last /\ new[n].gross = charge[n].gross
                 /\ new[n].currency = charge[n].currency /\ new[n].paid = charge[n].paid
<1>1. CASE charge[n].state = "cancelled"
  <2> DEFINE c == [charge[n] EXCEPT !.state = "open"]
  <2>1. charge[n] \in Charge /\ charge \in [Dates -> Charge] /\ charge[n].paid <= charge[n].gross
      BY DEF RowsOK
  <2>2. new = [charge EXCEPT ![n] = c]
      BY <1>1
  <2>3. c = [state |-> "open", last |-> charge[n].last, gross |-> charge[n].gross,
             currency |-> charge[n].currency, paid |-> charge[n].paid]
      BY <2>1 DEF Charge
  <2>4. /\ c \in Charge /\ c.paid <= c.gross /\ c.state # "none"
        /\ c.last = charge[n].last /\ c.gross = charge[n].gross
        /\ c.currency = charge[n].currency /\ c.paid = charge[n].paid
      BY <2>1, <2>3 DEF Charge
  <2> HIDE DEF c
  <2>5. new[n] = c /\ (\A e \in Dates \ {n} : new[e] = charge[e]) /\ new \in [Dates -> Charge]
      BY <2>1, <2>2, <2>4
  <2>6. QED
      BY <2>4, <2>5 DEF RowsOK
<1>2. CASE charge[n].state # "cancelled"
  <2>1. new = ensure_charge(t, n, charge)
      BY <1>2
  <2>2. QED
      BY <2>1, Ensured
<1>3. QED
    BY <1>1, <1>2

\* services.resume_subscription: the last charge, when it is settled, is
\* followed by the next one.
LEMMA ResumeCases ==
    ASSUME BillingInv, resume_subscription
    PROVE  \/ UNCHANGED <<terms, charge>>
           \/ \E m, n \in Dates :
                /\ m < n
                /\ charge[m].state = "open"
                /\ outstanding_amount(charge[m]) = 0
                /\ \A e \in Dates : charge[e].state = "open" => e <= m
                /\ terms' = [terms EXCEPT !.next = n]
                /\ charge' = IF charge[n].state = "cancelled"
                             THEN [charge EXCEPT ![n].state = "open"]
                             ELSE ensure_charge(terms, n, charge)
<1> DEFINE m == Max(Standing)
           n == NextDate(terms, m)
<1>1. IF ResumeRenews
      THEN /\ n \in Dates
           /\ terms' = [terms EXCEPT !.next = n]
           /\ charge' = IF charge[n].state = "cancelled"
                        THEN [charge EXCEPT ![n].state = "open"]
                        ELSE ensure_charge(terms, n, charge)
      ELSE UNCHANGED <<terms, charge>>
    BY DEF resume_subscription
<1>2. CASE ResumeRenews
  <2>1. Standing # {} /\ outstanding_amount(charge[m]) = 0 /\ Recurring(terms)
      BY <1>2 DEF ResumeRenews
  <2>2. Standing \in SUBSET Dates
      BY DEF Standing
  <2>3. m \in Standing /\ \A e \in Standing : e <= m
      BY <2>1, <2>2, MaxOfDates
  <2>4. m \in Dates /\ m < n
      BY <2>1, <2>2, <2>3, Periods DEF BillingInv, BillingTypeOK
  <2> HIDE DEF m, n
  <2>5. n \in Dates /\ charge[m].state = "open"
        /\ \A e \in Dates : charge[e].state = "open" => e <= m
      BY <1>1, <1>2, <2>3 DEF Standing
  <2>6. QED
      BY <1>1, <1>2, <2>1, <2>4, <2>5
<1>3. CASE ~ ResumeRenews
    BY <1>1, <1>3
<1>4. QED
    BY <1>2, <1>3

\* A resumption keeps the invariant: when it opens a charge nothing else is owed.
LEMMA ResumeKeeps ==
    ASSUME BillingInv, resume_subscription
    PROVE  BillingInv'
<1>1. terms \in Agreement /\ RowsOK(charge)
    BY DEF BillingInv, BillingTypeOK
<1>2. status # "none" /\ status' = "active" /\ effective' = NoDate /\ UNCHANGED <<today, req>>
    BY DEF resume_subscription, effective_status
<1>3. terms' \in Agreement /\ RowsOK(charge') /\ LatestOwes' /\ (Unissued => Unissued')
  <2>1. CASE UNCHANGED <<terms, charge>>
      BY <1>1, <2>1 DEF BillingInv, LatestOwes, Owed, Unissued
  <2>2. CASE ~ UNCHANGED <<terms, charge>>
    <3>1. PICK m, n \in Dates :
                /\ m < n
                /\ charge[m].state = "open"
                /\ outstanding_amount(charge[m]) = 0
                /\ \A e \in Dates : charge[e].state = "open" => e <= m
                /\ terms' = [terms EXCEPT !.next = n]
                /\ charge' = IF charge[n].state = "cancelled"
                             THEN [charge EXCEPT ![n].state = "open"]
                             ELSE ensure_charge(terms, n, charge)
        BY <2>2, ResumeCases
    <3>2. RowsOK(charge') /\ \A e \in Dates \ {n} : charge'[e] = charge[e]
        BY <1>1, <3>1, ResumeRows
    <3>3. ASSUME NEW e \in Dates PROVE ~ Owed(e)
      <4>1. SUFFICES ASSUME Owed(e) PROVE FALSE
          OBVIOUS
      <4>2. m <= e /\ e <= m
          BY <3>1, <4>1 DEF BillingInv, LatestOwes, Owed
      <4>3. e = m
          BY <4>2 DEF Dates
      <4>4. QED
          BY <3>1, <4>1, <4>3 DEF Owed
    <3>4. \A e \in Dates \ {n} : ~ Owed(e)'
        BY <3>2, <3>3 DEF Owed
    <3>5. ASSUME NEW e \in Dates, charge'[e].state = "open" PROVE e <= n
      <4>1. CASE e = n
          BY <4>1 DEF Dates
      <4>2. CASE e # n
          BY <3>1, <3>2, <3>5, <4>2 DEF Dates
      <4>3. QED
          BY <4>1, <4>2
    <3>6. ~ Unissued
        BY <3>1 DEF Unissued
    <3>7. LatestOwes'
        BY <3>4, <3>5, NextIsLast
    <3>8. terms' \in Agreement
        BY <1>1, <3>1, NextMoves
    <3>9. QED
        BY <3>2, <3>6, <3>7, <3>8
  <2>3. QED
      BY <2>1, <2>2
<1>4. BillingTypeOK'
    BY <1>2, <1>3 DEF BillingInv, BillingTypeOK, RowsOK, Statuses, NoDate
<1>5. CreationIsAlone'
    BY <1>2, <1>3, CreationStays DEF BillingInv
<1>6. QED
    BY <1>3, <1>4, <1>5 DEF BillingInv, RowsOK

\* No step leaves the invariant.
LEMMA StepBillingInv == BillingInv /\ [BillingNext]_billingVars => BillingInv'
<1> SUFFICES ASSUME BillingInv, [BillingNext]_billingVars PROVE BillingInv'
    OBVIOUS
<1>1. ASSUME NEW r \in Reqs, NEW t \in Agreements, CreateRow(r, t) PROVE BillingInv'
    BY <1>1, CreateRowKeeps
<1>2. ASSUME NEW r \in Reqs, CreateCharge(r) PROVE BillingInv'
    BY <1>2, CreateChargeKeeps
<1>3. ASSUME NEW r \in Reqs, NEW p \in Patches, ValidatePatch(r, p) PROVE BillingInv'
  <2> DEFINE held == [op |-> "patch", data |-> p]
  <2>1. held \in Request /\ held.op # "create"
      BY DEF Request
  <2>2. BeginRequest(r, held) /\ UNCHANGED <<today, status, effective, terms, charge>>
      BY <1>3 DEF ValidatePatch
  <2>3. QED
      BY <2>1, <2>2, WaitingKeeps
<1>4. ASSUME NEW r \in Reqs, update_subscription(r) PROVE BillingInv'
    BY <1>4, UpdateKeeps
<1>5. ASSUME NEW r \in Reqs, CheckPause(r) PROVE BillingInv'
  <2> DEFINE held == [op |-> "pause"]
  <2>1. held \in Request /\ held.op # "create"
      BY DEF Request
  <2>2. BeginRequest(r, held) /\ UNCHANGED <<today, status, effective, terms, charge>>
      BY <1>5 DEF CheckPause
  <2>3. QED
      BY <2>1, <2>2, WaitingKeeps
<1>6. ASSUME NEW r \in Reqs, pause_subscription(r) PROVE BillingInv'
    BY <1>6, PauseKeeps
<1>7. ASSUME NEW r \in Reqs, NEW op \in {"cancel", "cancel_now"}, CheckCancel(r, op) PROVE BillingInv'
  <2> DEFINE held == [op |-> op]
  <2>1. held \in Request /\ held.op # "create"
      BY DEF Request
  <2>2. BeginRequest(r, held) /\ UNCHANGED <<today, status, effective, terms, charge>>
      BY <1>7 DEF CheckCancel
  <2>3. QED
      BY <2>1, <2>2, WaitingKeeps
<1>8. ASSUME NEW r \in Reqs, cancel_subscription(r) PROVE BillingInv'
    BY <1>8, CancelKeeps
<1>9. ASSUME NEW r \in Reqs, LoseRequest(r) PROVE BillingInv'
    BY <1>9, LoseRequestKeeps
<1>10. ASSUME NEW d \in Dates, NEW a \in 1..MaxAmount, record_payment(d, a) PROVE BillingInv'
    BY <1>10, PaymentKeeps
<1>11. ASSUME resume_subscription PROVE BillingInv'
    BY <1>11, ResumeKeeps
<1>12. ASSUME NextDay PROVE BillingInv'
    BY <1>12, NextDayKeeps
<1>13. ASSUME UNCHANGED billingVars PROVE BillingInv'
    BY <1>13 DEF billingVars, BillingInv, BillingTypeOK, RowsOK, CreationIsAlone, Unissued, LatestOwes, Owed
<1>14. QED
    BY <1>1, <1>2, <1>3, <1>4, <1>5, <1>6, <1>7, <1>8, <1>9, <1>10, <1>11, <1>12, <1>13
       DEF BillingNext

\* The invariant holds in every reachable state.
LEMMA BillingInvariance == BillingSpec => []BillingInv
BY InitBillingInv, StepBillingInv, PTL DEF BillingSpec

-----------------------------------------------------------------------------
(* The theorems about states.                                              *)

\* Every row, request and date keeps its type, for the whole of billing.
THEOREM BillingTypes == BillingSpec => []BillingTypeOK
<1>1. BillingInv => BillingTypeOK
    BY DEF BillingInv
<1>2. QED
    BY <1>1, BillingInvariance, PTL

\* record_payment, update_subscription and the reopening in resume_subscription
\* leave no charge with more money than its gross amount.
THEOREM ChargesAreNotOverpaid == BillingSpec => []NeverOverpaid
<1>1. BillingInv => NeverOverpaid
    BY DEF BillingInv, RowsOK, NeverOverpaid
<1>2. QED
    BY <1>1, BillingInvariance, PTL

\* No order of pauses, cancellations, resumptions, edits and payments leaves the
\* customer owing two charges, or owing one that a later charge follows.
THEOREM OnlyTheLastIsOwed == BillingSpec => []OneOutstanding
<1>1. ASSUME BillingInv PROVE OneOutstanding
  <2>1. SUFFICES ASSUME NEW d \in Standing, outstanding_amount(charge[d]) > 0
                 PROVE  d = Max(Standing)
      BY DEF OneOutstanding
  <2>2. Standing \in SUBSET Dates
      BY DEF Standing
  <2>3. \A e \in Standing : e <= d
      BY <1>1, <2>1 DEF BillingInv, LatestOwes, Owed, Standing
  <2> HIDE DEF Standing
  <2>4. QED
      BY <2>2, <2>3, MaxIsLast
<1>2. QED
    BY <1>1, BillingInvariance, PTL

-----------------------------------------------------------------------------
(* The theorems about steps.                                               *)

\* What one step may do to the row of a charge on which money was received.
RowKept(d) ==
    /\ charge[d].paid > 0 => charge'[d].currency = charge[d].currency
    /\ Settled(charge[d]) => /\ charge'[d].last = charge[d].last
                             /\ charge'[d].gross = charge[d].gross
                             /\ charge'[d].currency = charge[d].currency
                             /\ charge'[d].paid = charge[d].paid

\* And which rows it may open.
OpensDuly(d) ==
    charge[d].state # "open" /\ charge'[d].state = "open" => status' = "active" \/ Unissued

\* A step that leaves the charges alone.
LEMMA SameRows ==
    ASSUME charge' = charge, NEW d \in Dates
    PROVE  RowKept(d) /\ OpensDuly(d)
BY DEF RowKept, OpensDuly

\* The first charge is issued where there is none, so nothing was paid.
LEMMA CreateChargeDuly ==
    ASSUME BillingInv, NEW r \in Reqs, CreateCharge(r), NEW d \in Dates
    PROVE  RowKept(d) /\ OpensDuly(d)
<1>1. Unissued
    BY DEF BillingInv, CreationIsAlone, CreateCharge
<1>2. charge[d].paid = 0
    BY <1>1 DEF BillingInv, RowsOK, Unissued
<1>3. QED
    BY <1>1, <1>2 DEF RowKept, OpensDuly, Settled

\* An edit rewrites only what is still owed, in the currency it was paid in.
LEMMA UpdateDuly ==
    ASSUME BillingInv, NEW r \in Reqs, update_subscription(r), NEW d \in Dates
    PROVE  RowKept(d) /\ OpensDuly(d)
<1>1. CASE charge' = charge
    BY <1>1, SameRows
<1>2. CASE charge' # charge
  <2>1. /\ terms' \in Agreement
        /\ TermsAllowed(terms')
        /\ charge' = Repriced(terms')
      BY <1>2, UpdateCases
  <2>2. /\ charge'[d].state = charge[d].state
        /\ ~ Owed(d) => charge'[d] = charge[d]
        /\ charge[d].paid > 0 => charge'[d].currency = charge[d].currency
      BY <2>1, UpdateRows
  <2>3. Settled(charge[d]) => ~ Owed(d)
      BY DEF Settled, Owed
  <2>4. QED
      BY <2>2, <2>3 DEF RowKept, OpensDuly
<1>3. QED
    BY <1>1, <1>2

\* Pause and cancel take charges back with their amounts.
LEMMA CancelDuly ==
    ASSUME BillingInv, NEW day, charge' = CancelAfter(day), NEW d \in Dates
    PROVE  RowKept(d) /\ OpensDuly(d)
<1>1. RowsOK(charge)
    BY DEF BillingInv
<1>2. QED
    BY <1>1, CancelledAfter DEF RowKept, OpensDuly

\* A payment touches a charge that lacks money, and the next one only if there
\* was none.
LEMMA PaymentDuly ==
    ASSUME BillingInv, NEW d \in Dates, NEW a \in 1..MaxAmount, record_payment(d, a),
           NEW e \in Dates
    PROVE  RowKept(e) /\ OpensDuly(e)
<1> DEFINE rows == Paid(d, a)
           next == NextDate(terms, d)
<1>0. rows = Paid(d, a)
    OBVIOUS
<1>1. charge[d].state = "open" /\ a <= outstanding_amount(charge[d])
    BY DEF record_payment
<1>2. \/ charge' = rows
      \/ /\ status = "active"
         /\ next \in Dates
         /\ charge' = ensure_charge(terms, next, rows)
    BY <1>0, PaymentCases
<1> HIDE DEF rows, next
<1>3. /\ RowsOK(rows)
      /\ Owed(d)
      /\ rows[d].state = "open" /\ rows[d].currency = charge[d].currency
      /\ \A x \in Dates \ {d} : rows[x] = charge[x]
    BY <1>0, <1>1, PaidRows
<1>4. terms \in Agreement /\ ~ Settled(charge[d]) /\ status' = status
    BY <1>3 DEF BillingInv, BillingTypeOK, record_payment, Owed, Settled
<1>5. /\ charge[e].paid > 0 => rows[e].currency = charge[e].currency
      /\ Settled(charge[e]) => rows[e] = charge[e]
      /\ rows[e].state = charge[e].state
    BY <1>1, <1>3, <1>4
<1>6. CASE charge' = rows
    BY <1>5, <1>6 DEF RowKept, OpensDuly
<1>7. CASE /\ status = "active"
           /\ next \in Dates
           /\ charge' = ensure_charge(terms, next, rows)
  <2>1. /\ rows[next].state # "none" => charge' = rows
        /\ \A x \in Dates \ {next} : charge'[x] = rows[x]
      BY <1>3, <1>4, <1>7, Ensured
  <2>2. charge'[e] = rows[e] \/ charge[e].state = "none"
      BY <1>5, <2>1
  <2>3. charge[e].state = "none" => charge[e].paid = 0
      BY DEF BillingInv, RowsOK
  <2>4. QED
      BY <1>4, <1>5, <1>7, <2>2, <2>3 DEF RowKept, OpensDuly, Settled
<1>8. QED
    BY <1>2, <1>6, <1>7

\* A resumption reopens a charge with what was paid on it.
LEMMA ResumeDuly ==
    ASSUME BillingInv, resume_subscription, NEW e \in Dates
    PROVE  RowKept(e) /\ OpensDuly(e)
<1>1. CASE charge' = charge
    BY <1>1, SameRows
<1>2. CASE charge' # charge
  <2>1. PICK n \in Dates :
               charge' = IF charge[n].state = "cancelled"
                         THEN [charge EXCEPT ![n].state = "open"]
                         ELSE ensure_charge(terms, n, charge)
      BY <1>2, ResumeCases
  <2>2. /\ \A x \in Dates \ {n} : charge'[x] = charge[x]
        /\ charge[n].state # "none" =>
              /\ charge'[n].last = charge[n].last /\ charge'[n].gross = charge[n].gross
              /\ charge'[n].currency = charge[n].currency /\ charge'[n].paid = charge[n].paid
      BY <2>1, ResumeRows DEF BillingInv, BillingTypeOK
  <2>3. charge[e].state = "none" => charge[e].paid = 0
      BY DEF BillingInv, RowsOK
  <2>4. status' = "active"
      BY DEF resume_subscription
  <2>5. QED
      BY <2>2, <2>3, <2>4 DEF RowKept, OpensDuly, Settled
<1>3. QED
    BY <1>1, <1>2

\* Every step keeps paid rows and opens charges duly.
LEMMA StepDuly ==
    ASSUME BillingInv, [BillingNext]_billingVars, NEW d \in Dates
    PROVE  RowKept(d) /\ OpensDuly(d)
<1>1. ASSUME NEW r \in Reqs, CreateCharge(r) PROVE RowKept(d) /\ OpensDuly(d)
    BY <1>1, CreateChargeDuly
<1>2. ASSUME NEW r \in Reqs, update_subscription(r) PROVE RowKept(d) /\ OpensDuly(d)
    BY <1>2, UpdateDuly
<1>3. ASSUME NEW r \in Reqs, pause_subscription(r) PROVE RowKept(d) /\ OpensDuly(d)
    BY <1>3, CancelDuly DEF pause_subscription
<1>4. ASSUME NEW r \in Reqs, cancel_subscription(r) PROVE RowKept(d) /\ OpensDuly(d)
    BY <1>4, CancelDuly DEF cancel_subscription
<1>5. ASSUME NEW e \in Dates, NEW a \in 1..MaxAmount, record_payment(e, a)
      PROVE  RowKept(d) /\ OpensDuly(d)
    BY <1>5, PaymentDuly
<1>6. ASSUME resume_subscription PROVE RowKept(d) /\ OpensDuly(d)
    BY <1>6, ResumeDuly
<1>7. ASSUME charge' = charge PROVE RowKept(d) /\ OpensDuly(d)
    BY <1>7, SameRows
<1>8. QED
    BY <1>1, <1>2, <1>3, <1>4, <1>5, <1>6, <1>7
       DEF BillingNext, CreateRow, ValidatePatch, CheckPause, CheckCancel, LoseRequest,
           NextDay, billingVars

\* A charge on which money was received keeps its currency, and one that is
\* fully paid keeps every amount, through edits, pauses, cancellations,
\* resumptions and further payments.
THEOREM PaidRowsAreKept == BillingSpec => PaidHistoryIsKept
<1>1. ASSUME BillingInv, BillingInv', [BillingNext]_billingVars, NEW d \in Dates
      PROVE  /\ charge[d].paid > 0 => charge'[d].currency = charge[d].currency
             /\ Settled(charge[d]) => [charge'[d] EXCEPT !.state = charge[d].state] = charge[d]
  <2>1. RowKept(d)
      BY <1>1, StepDuly
  <2>2. charge[d] \in Charge /\ charge'[d] \in Charge
      BY <1>1 DEF BillingInv, RowsOK
  <2>3. ASSUME NEW b, NEW c \in Charge, NEW u, u = [c EXCEPT !.state = b]
        PROVE  u = [state |-> b, last |-> c.last, gross |-> c.gross,
                    currency |-> c.currency, paid |-> c.paid]
      BY <2>3 DEF Charge
  <2>4. \A c \in Charge : c = [state |-> c.state, last |-> c.last, gross |-> c.gross,
                               currency |-> c.currency, paid |-> c.paid]
      BY DEF Charge
  <2>5. QED
      BY <2>1, <2>2, <2>3, <2>4 DEF RowKept
<1>2. BillingInv /\ BillingInv' /\ [BillingNext]_billingVars =>
        [\A d \in Dates :
           /\ charge[d].paid > 0 => charge'[d].currency = charge[d].currency
           /\ Settled(charge[d]) => [charge'[d] EXCEPT !.state = charge[d].state] = charge[d]]_billingVars
    BY <1>1
<1>3. QED
    BY <1>2, BillingInvariance, PTL DEF BillingSpec, PaidHistoryIsKept

\* A paused, cancelling, cancelled or ended service is never charged again
\* unless the step makes it active.
THEOREM OnlyActiveServicesAreBilled == BillingSpec => StoppedServicesAreNotBilled
<1>1. ASSUME BillingInv, [BillingNext]_billingVars, NEW d \in Dates
      PROVE  charge[d].state # "open" /\ charge'[d].state = "open"
                 => status' = "active" \/ Unissued
    BY <1>1, StepDuly DEF OpensDuly
<1>2. BillingInv /\ [BillingNext]_billingVars =>
        [\A d \in Dates :
           charge[d].state # "open" /\ charge'[d].state = "open"
               => status' = "active" \/ Unissued]_billingVars
    BY <1>1
<1>3. QED
    BY <1>2, BillingInvariance, PTL DEF BillingSpec, StoppedServicesAreNotBilled

-----------------------------------------------------------------------------
(***************************************************************************)
(* The run of MCServer takes one component at a time: its behaviours are,  *)
(* of each component, behaviours of that component, in which the others    *)
(* stutter.                                                                *)
(***************************************************************************)
THEOREM RunIsOfEach == ServerSpec => Spec /\ BillingSpec /\ ScreenSpec
<1>1. ServerInit => Init /\ BillingInit /\ ScreenInit
    BY DEF ServerInit
<1>2. [ServerNext]_serverVars =>
          [Next]_vars /\ [BillingNext]_billingVars /\ [ScreenNext]_screenVars
    BY DEF ServerNext, serverVars
<1>3. QED
    BY <1>1, <1>2, PTL DEF ServerSpec, Spec, BillingSpec, ScreenSpec

\* Whatever the agent answers, and whatever a request read before it got the
\* lock, the rows of update runs and of a subscription hold what their columns
\* allow, and the screen's stores are about runs that were requested.
THEOREM ServerTypes == ServerSpec => []ServerTypeOK
<1>1. CenterTypeOK /\ BillingTypeOK /\ ScreenTypeOK => ServerTypeOK
    BY DEF ServerTypeOK
<1>2. QED
    BY <1>1, RunIsOfEach, CenterTypes, BillingTypes, ScreenTypes, PTL
=============================================================================
