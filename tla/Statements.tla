------------------------------- MODULE Statements -------------------------------
(***************************************************************************)
(* The arithmetic of an account statement (modules/statements): what each  *)
(* deduction on one order, one vendor sale or one agency run was, read     *)
(* back from the amounts jovi-mall persisted and never from a rate.        *)
(***************************************************************************)
EXTENDS Integers

CONSTANTS
    LastLine,   \* the lines of one order are 1..LastLine
    Prices,     \* unit prices paid
    Quantities,
    Floors,     \* minimum prices of bargainable lines
    Fees        \* persisted amounts and fees

\* Whole amounts of money, none of them negative.
ASSUME StatementAssumption ==
    /\ LastLine \in Nat
    /\ Prices \subseteq Nat /\ Quantities \subseteq Nat
    /\ Floors \subseteq Nat /\ Fees \subseteq Nat

VARIABLES
    entry,      \* what is being printed: an order, a sale or a run
    sheet       \* what the statement prints of it

statementVars == <<entry, sheet>>

Lines == 1..LastLine

Blank == -1     \* null, in the database and on the statement

Orders == [kind : {"order"}, fee : Fees,
           lines : [Lines -> [paid : Prices, quantity : Quantities, floor : Floors \cup {Blank}]]]

Sales  == [kind : {"sale"}, cod : BOOLEAN, gross : Fees, bargain : Fees,
           commission : Fees, net : Fees, snapshot : Fees \cup {Blank},
           payer : {"vendor", "customer"}, customer : Fees]

Runs   == [kind : {"run"}, cod : BOOLEAN, net : Fees, cut : Fees,
           fee : Fees \cup {Blank}]

Larger(a, b) == IF a > b THEN a ELSE b

-------------------------------------------------------------------------------
(* The fee on a bargain, apportioned to the lines by uplift. *)

\* What a line sold for above its floor; nothing when it is not bargainable.
Uplift(l) == IF l.floor = Blank THEN 0 ELSE Larger(0, (l.paid - l.floor) * l.quantity)

\* reduce, from the first line to the last.
Total(shares) ==
    LET sum[n \in 0..LastLine] == IF n = 0 THEN 0 ELSE sum[n - 1] + shares[n]
    IN  sum[LastLine]

\* The first line that no line exceeds.
LargestLine(uplifts) ==
    CHOOSE i \in Lines : \A j \in Lines :
        \/ uplifts[j] < uplifts[i]
        \/ uplifts[j] = uplifts[i] /\ i <= j

\* Bug: each share is rounded by itself.
Rounded(fee, uplifts) ==
    [i \in Lines |-> (2 * fee * uplifts[i] + Total(uplifts)) \div (2 * Total(uplifts))]

\* Floor shares, the remainder to the largest line.
Apportioned(fee, uplifts) ==
    LET floors == [i \in Lines |-> (fee * uplifts[i]) \div Total(uplifts)]
    IN  [floors EXCEPT ![LargestLine(uplifts)] = @ + fee - Total(floors)]

apportionBargainFee(o) ==
    LET uplifts == [i \in Lines |-> Uplift(o.lines[i])]
    IN  IF Total(uplifts) <= 0 \/ o.fee <= 0
        THEN [i \in Lines |-> 0]
        ELSE Apportioned(o.fee, uplifts)

-------------------------------------------------------------------------------
(* The delivery and the cash-on-delivery fee, split out of what is left. *)

customerPaidDeliveryFee(s) == IF s.payer = "customer" THEN s.customer ELSE 0

vendorBorneDeliveryFee(s) ==
    IF s.snapshot = Blank THEN Blank
    ELSE Larger(0, s.snapshot - customerPaidDeliveryFee(s))

\* Bug: the fee on record is trusted to fit.
FitsIfKnown(fee, rest) == fee # Blank

\* A fee that does not fit into what is left is not split off.
Fits(fee, rest) == fee # Blank /\ fee <= rest

Split(fee, rest) == IF Fits(fee, rest) THEN [delivery |-> fee, cod |-> rest - fee]
                                       ELSE [delivery |-> Blank, cod |-> Blank]

\* A prepaid sale has no COD fee: all that is left is delivery.
vendorSaleBreakdown(s) ==
    LET rest == s.gross - s.bargain - s.commission - s.net
    IN  IF s.cod THEN Split(vendorBorneDeliveryFee(s), rest)
                 ELSE [delivery |-> rest, cod |-> 0]

agencyEarningBreakdown(s) ==
    IF s.cod THEN Split(s.fee, s.net + s.cut)
             ELSE [delivery |-> s.net + s.cut, cod |-> 0]

-------------------------------------------------------------------------------

Unprinted == << >>

\* jovi-mall's split never gives away more than the gross.
Entries == Orders \cup Runs
             \cup {s \in Sales : s.bargain + s.commission + s.net <= s.gross}

StatementInit ==
    /\ entry \in Entries
    /\ sheet = Unprinted

Printed(e) == CASE e.kind = "order" -> apportionBargainFee(e)
                [] e.kind = "sale"  -> vendorSaleBreakdown(e)
                [] e.kind = "run"   -> agencyEarningBreakdown(e)

Issue ==
    /\ sheet = Unprinted
    /\ sheet' = Printed(entry)
    /\ UNCHANGED entry

StatementSpec == StatementInit /\ [][Issue]_statementVars

-------------------------------------------------------------------------------

\* The lines' shares of a bargain fee are never negative, sum to the persisted fee when any
\* line sold above its floor, and leave out every line that did not.
SharesAddUp(o, shares) ==
    /\ \A i \in Lines : /\ shares[i] >= 0
                        /\ Uplift(o.lines[i]) = 0 => shares[i] = 0
    /\ Total(shares) \in {0, o.fee}
    /\ (\E i \in Lines : Uplift(o.lines[i]) > 0) => Total(shares) = o.fee

\* The parts of a sale are never negative and give back its gross.
SaleAddsUp(s, fees) ==
    fees.cod # Blank =>
        /\ fees.cod >= 0 /\ fees.delivery >= 0
        /\ s.net = s.gross - s.bargain - s.commission - fees.delivery - fees.cod

\* So do those of a run: its own net is what it earned less the agent's share.
RunAddsUp(s, fees) ==
    fees.cod # Blank =>
        /\ fees.cod >= 0 /\ fees.delivery >= 0
        /\ s.net = fees.delivery + fees.cod - s.cut

\* Every line of a statement that is not blank adds up: the shares of a bargain fee to the
\* fee, a sale's deductions to NET_FORMULA, an agency's fees to its earning; and no part
\* of one is negative (apportionBargainFee, vendorSaleBreakdown, agencyEarningBreakdown).
StatementsAddUp ==
    sheet # Unprinted =>
        CASE entry.kind = "order" -> SharesAddUp(entry, sheet)
          [] entry.kind = "sale"  -> SaleAddsUp(entry, sheet)
          [] entry.kind = "run"   -> RunAddsUp(entry, sheet)
===============================================================================
