------------------------------ MODULE ClaimRows ------------------------------
(***************************************************************************)
(* One row of expenses.expenses and the guarded SQL statements the write   *)
(* repository runs on it.  A statement is a compare-and-set: it returns    *)
(* the new row where its WHERE clause matches and the row it was given     *)
(* where it matches zero rows (which the service reports as a 409).        *)
(*                                                                         *)
(* The claim's data is abstracted to what the statements tell apart:       *)
(*   filed  employee, category, date, amount and currency: the fields that *)
(*          mark_submitted compares with what was filed for approval       *)
(*   desc   the description: filed too, but not compared                   *)
(*   mode   payment_mode                                                   *)
(* journal_id and accounting_post_id are one stamp, "post": they are only  *)
(* ever written together, from one acknowledgement.                        *)
(***************************************************************************)
EXTENDS FiniteSets

CONSTANTS
    Claims,     \* ids of claims
    Filed,      \* values of the compared fields of a claim
    Descs,      \* values of the description
    Files,      \* receipt files
    Requests,   \* ids of requests in the approvals engine
    Companies,  \* companies the accounting books are kept for
    Payments,   \* ids of payments
    None        \* SQL NULL / Rust None

ASSUME NoneIsNothing ==
    None \notin Claims \cup Filed \cup Descs \cup Files
                \cup Requests \cup Companies \cup Payments

Modes == {"own_account", "company_account"}
ApprovalStates == {"draft", "submitted", "approved", "refused"}
FinancialStates ==
    {"draft", "submitted", "approved", "posted", "done", "refused"}

\* "absent" is a row that has not been inserted.
Row == [approval : ApprovalStates \cup {"absent"},
        state    : FinancialStates \cup {"absent"},
        live     : BOOLEAN,
        filed    : Filed \cup {None},
        desc     : Descs \cup {None},
        mode     : Modes \cup {None},
        receipt  : Files \cup {None},
        link     : Requests \cup {None},
        post     : Companies \cup {None},
        reimb    : Payments \cup {None}]

NoRow == [approval |-> "absent", state |-> "absent", live |-> FALSE,
          filed |-> None, desc |-> None, mode |-> None, receipt |-> None,
          link |-> None, post |-> None, reimb |-> None]

\* CHECK expenses_state_pair_legal.
LegalPair(r) ==
    \/ r.approval \in {"draft", "submitted", "refused"} /\ r.state = r.approval
    \/ r.approval = "approved" /\ r.state \in {"approved", "posted", "done"}

At(r, approval, state) == r.live /\ r.approval = approval /\ r.state = state

-----------------------------------------------------------------------------

insert_expense(f, d, m, file) ==
    [NoRow EXCEPT !.approval = "draft", !.state = "draft", !.live = TRUE,
                  !.filed = f, !.desc = d, !.mode = m, !.receipt = file]

update_expense(r, f, d, m) ==
    IF At(r, "draft", "draft")
    THEN [r EXCEPT !.filed = f, !.desc = d, !.mode = m]
    ELSE r

\* Mutant: the write does not compare the payload with what was filed.
mark_submitted_uncompared(r, request, filed) ==
    IF At(r, "draft", "draft")
    THEN [r EXCEPT !.approval = "submitted", !.state = "submitted",
                   !.link = request]
    ELSE r

mark_submitted(r, request, filed) ==
    IF At(r, "draft", "draft") /\ r.filed = filed
    THEN [r EXCEPT !.approval = "submitted", !.state = "submitted",
                   !.link = request]
    ELSE r

mark_approved(r) ==
    IF At(r, "submitted", "submitted")
    THEN [r EXCEPT !.approval = "approved", !.state = "approved"]
    ELSE r

\* Mutants: one of the two lifecycle fields is forgotten; a refusal may
\* overtake an approval.
mark_refused_half(r) ==
    IF At(r, "submitted", "submitted")
    THEN [r EXCEPT !.approval = "refused"]
    ELSE r
mark_refused_late(r) ==
    IF At(r, "submitted", "submitted") \/ At(r, "approved", "approved")
    THEN [r EXCEPT !.approval = "refused", !.state = "refused"]
    ELSE r

mark_refused(r) ==
    IF At(r, "submitted", "submitted")
    THEN [r EXCEPT !.approval = "refused", !.state = "refused"]
    ELSE r

\* Mutants: both fields are moved, as the other transitions do; the state is
\* the one the handler read, not compared again.
mark_posted_both(r, ack) ==
    IF At(r, "approved", "approved")
    THEN [r EXCEPT !.approval = "posted", !.state = "posted", !.post = ack]
    ELSE r
mark_posted_uncompared(r, ack) ==
    IF r.live /\ r.approval = "approved"
    THEN [r EXCEPT !.state = "posted", !.post = ack]
    ELSE r

mark_posted(r, ack) ==
    IF At(r, "approved", "approved")
    THEN [r EXCEPT !.state = "posted", !.post = ack]
    ELSE r

\* Mutant: the acknowledgement of the payment is not kept.
mark_settled_unstamped(r, payment) ==
    IF r.live /\ r.state = "posted"
    THEN [r EXCEPT !.state = "done"]
    ELSE r

\* The approval state is not compared here: a posted row is an approved row.
mark_settled(r, payment) ==
    IF r.live /\ r.state = "posted"
    THEN [r EXCEPT !.state = "done", !.reimb = payment]
    ELSE r

\* Mutant: the receipt can be replaced until the claim is posted.
set_receipt_late(r, file) ==
    IF r.live /\ r.state \in {"draft", "submitted", "approved"}
    THEN [r EXCEPT !.receipt = file]
    ELSE r

set_receipt(r, file) ==
    IF r.live /\ r.approval \in {"draft", "submitted"}
    THEN [r EXCEPT !.receipt = file]
    ELSE r

\* The generic CRUD surface: soft_delete sets metadata.deleted_at, restore
\* clears it; neither looks at the lifecycle.
soft_delete(r) == [r EXCEPT !.live = FALSE]
restore(r) == [r EXCEPT !.live = (r.approval # "absent")]
=============================================================================
