------------------------------ MODULE GlEnvelope ------------------------------
(***************************************************************************)
(* build_expense_envelope: the ledger entry of one claim, built line by    *)
(* line from the claim and its tax overlay, and the amount settle_expense  *)
(* computes later from the same overlay with a fold of its own.            *)
(*                                                                         *)
(* The inputs are the rows a table can hold: the write service only stores *)
(* bases and amounts it has checked, the column takes any basis, and any   *)
(* amount where the migration left its CHECK out.                          *)
(***************************************************************************)
EXTENDS Integers, Sequences, Functions

CONSTANTS
    Amounts,    \* amounts of a claim
    TaxAmounts, \* amounts of a tax row
    BasisTexts, \* what a tax row's basis, a column of text, may say
    MaxTaxes    \* bound: tax rows of a claim

ASSUME AmountsOK == Amounts \subseteq Nat /\ TaxAmounts \subseteq Int
ASSUME BasesOK == {"input", "withholding"} \subseteq BasisTexts
ASSUME MaxTaxesOK == MaxTaxes \in Nat

Modes == {"own_account", "company_account"}
Tax == [basis : BasisTexts, tax_amount : TaxAmounts]

VARIABLES
    amount_total,  \* of the claim
    payment_mode,  \* of the claim
    taxes,         \* its overlay
    next,          \* the tax row the loop is at
    lines,         \* the lines of the envelope so far
    input_tax,     \* the two sums of the loop
    withholding,
    result         \* "building", "envelope" or the error

envelope_vars == <<amount_total, payment_mode, taxes, next, lines,
                   input_tax, withholding, result>>
input == <<amount_total, payment_mode, taxes>>

\* A line: its side and amount, whether it names a party, and its account.
debit(account, amount) ==
    [side |-> "debit", amount |-> amount, party |-> FALSE, account |-> account]
credit(account, amount) ==
    [side |-> "credit", amount |-> amount, party |-> FALSE, account |-> account]

\* Up to MaxTaxes rows.
EnvelopeInit ==
    /\ amount_total \in Amounts
    /\ payment_mode \in Modes
    /\ taxes \in UNION {[1 .. n -> Tax] : n \in 0 .. MaxTaxes}
    /\ next = 1
    /\ lines = <<debit("expense", amount_total)>>
    /\ input_tax = 0 /\ withholding = 0
    /\ result = "building"

-----------------------------------------------------------------------------

\* The loop is at a row that is not negative.
AtLine(basis) ==
    /\ result = "building"
    /\ next <= Len(taxes)
    /\ taxes[next].tax_amount >= 0
    /\ taxes[next].basis = basis

\* Whatever its basis says.
NegativeLine ==
    /\ result = "building"
    /\ next <= Len(taxes)
    /\ taxes[next].tax_amount < 0
    /\ result' = "BadBasis"
    /\ UNCHANGED <<input, next, lines, input_tax, withholding>>

InputLine ==
    /\ AtLine("input")
    /\ input_tax' = input_tax + taxes[next].tax_amount
    /\ lines' = Append(lines, debit("tax", taxes[next].tax_amount))
    /\ next' = next + 1
    /\ UNCHANGED <<input, withholding, result>>

\* Mutant: the tax withheld is a debit, as the other taxes are.
WithholdingLine_debited ==
    /\ AtLine("withholding")
    /\ withholding' = withholding + taxes[next].tax_amount
    /\ lines' = Append(lines, debit("tax", taxes[next].tax_amount))
    /\ next' = next + 1
    /\ UNCHANGED <<input, input_tax, result>>

WithholdingLine ==
    /\ AtLine("withholding")
    /\ withholding' = withholding + taxes[next].tax_amount
    /\ lines' = Append(lines, credit("tax", taxes[next].tax_amount))
    /\ next' = next + 1
    /\ UNCHANGED <<input, input_tax, result>>

\* Mutant: an unknown basis is passed over, with no line.
OtherLine_skipped ==
    /\ \E b \in BasisTexts \ {"input", "withholding"} : AtLine(b)
    /\ next' = next + 1
    /\ UNCHANGED <<input, lines, input_tax, withholding, result>>

OtherLine ==
    /\ \E b \in BasisTexts \ {"input", "withholding"} : AtLine(b)
    /\ result' = "BadBasis"
    /\ UNCHANGED <<input, next, lines, input_tax, withholding>>

gross == amount_total + input_tax

\* After the loop: the net credit, to the employee's payable or the bank.
Finish ==
    /\ result = "building"
    /\ next > Len(taxes)
    /\ IF withholding > gross
       THEN /\ result' = "WithholdingExceedsClaim"
            /\ UNCHANGED lines
       ELSE /\ result' = "envelope"
            /\ lines' = IF gross = withholding THEN lines
                        ELSE Append(lines,
                               [credit(IF payment_mode = "own_account"
                                       THEN "payable" ELSE "bank",
                                       gross - withholding)
                                  EXCEPT !.party = TRUE])
    /\ UNCHANGED <<input, next, input_tax, withholding>>

EnvelopeNext ==
    InputLine \/ WithholdingLine \/ OtherLine \/ NegativeLine \/ Finish

EnvelopeSpec == EnvelopeInit /\ [][EnvelopeNext]_envelope_vars

-----------------------------------------------------------------------------

Side(side) ==
    SumFunction([i \in DOMAIN lines |->
                   IF lines[i].side = side THEN lines[i].amount ELSE 0])

\* settle_expense: whatever is not input tax is withheld.
AmountAsked ==
    LET Added == SumFunction([i \in DOMAIN taxes |->
                   IF taxes[i].basis = "input" THEN taxes[i].tax_amount ELSE 0])
        Withheld == SumFunction([i \in DOMAIN taxes |->
                   IF taxes[i].basis = "input" THEN 0 ELSE taxes[i].tax_amount])
    IN  amount_total + Added - Withheld

\* is_balanced: what is sent to the ledger balances, whatever the overlay.
Balanced == result = "envelope" => Side("debit") = Side("credit")

\* The net credit, of one line or none: the lines that name the party.
PartyCredit ==
    SumFunction([i \in DOMAIN lines |->
                   IF lines[i].party THEN lines[i].amount ELSE 0])

\* "Net amount due, as posted": what settle asks to be paid is the credit of
\* the payee in the envelope, a credit of nothing being left out.  Settle
\* accepts bases the envelope refuses, and is only asked once it was built.
SettlesWhatIsPosted == result = "envelope" => AmountAsked = PartyCredit
=============================================================================
