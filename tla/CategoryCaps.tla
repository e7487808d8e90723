----------------------------- MODULE CategoryCaps -----------------------------
(***************************************************************************)
(* The spending caps of expense categories, enforced by submit_expense: it *)
(* reads the claim, the caps of its category and what the month's other    *)
(* claims add up to, in three statements of three transactions, files the  *)
(* claim and compare-and-sets it to submitted.  Nothing is locked in       *)
(* between, and nothing but the claim itself is compared at the end.       *)
(*                                                                         *)
(* The claims are those of one employee in one calendar month: the sum     *)
(* ranges over no others.  What mark_submitted compares of a claim is then *)
(* its category and its amount.  Posting and settling leave the approval   *)
(* state, the one the sum looks at, as it is.                              *)
(***************************************************************************)
EXTENDS Integers, FiniteSets, Functions

CONSTANTS
    Claims,             \* claims of one employee in one month
    Categories,         \* expense categories
    Amounts,            \* what a claim may claim
    Calls,              \* submits the service may be handling at one time
    Null,               \* SQL NULL: no cap, no claim
    CapPerClaim,        \* cap_per_claim of each category
    CapPerMonth,        \* cap_per_month of each category
    EditModes,          \* whether clients edit a claim that is being submitted
    CategoriesDeletable \* the category routes are used to delete categories

ASSUME AmountsOK == Amounts \subseteq Nat
ASSUME CapsOK == {CapPerClaim, CapPerMonth}
                   \subseteq [Categories -> (Nat \ {0}) \cup {Null}]
ASSUME NullOK == Null \notin Nat \cup Claims \cup Categories
ASSUME ClaimsFinite == IsFiniteSet(Claims)
ASSUME FlagsOK == /\ EditModes \subseteq BOOLEAN
                  /\ CategoriesDeletable \in BOOLEAN

VARIABLES
    claim,    \* the claims
    offered,  \* the categories that are not soft-deleted
    call,     \* the submits in flight
    edits     \* the clients of this behaviour edit what is being submitted

vars == <<claim, offered, call, edits>>

Absent == [approval |-> "absent", category |-> Null, amount_total |-> Null]
Claim == [approval : {"draft", "submitted", "approved", "refused"},
          category : Categories, amount_total : Amounts] \cup {Absent}

\* The next thing a submit does; what it read of its claim; the monthly cap.
Submit == [pc : {"idle", "caps", "sum", "mark"}, claim : Claims \cup {Null},
           seen : Claim, per_month : Nat \cup {Null}]
Idle == [pc |-> "idle", claim |-> Null, seen |-> Absent, per_month |-> Null]

TypeOK ==
    /\ claim \in [Claims -> Claim]
    /\ offered \subseteq Categories
    /\ call \in [Calls -> Submit]
    /\ edits \in EditModes

Init ==
    /\ claim = [c \in Claims |-> Absent]
    /\ offered = Categories
    /\ call = [k \in Calls |-> Idle]
    /\ edits \in EditModes

-----------------------------------------------------------------------------

BeingSubmitted(c) == \E k \in Calls : call[k].claim = c

\* create_expense and update_expense look the category up, then write in a
\* statement of its own: it was live once, as every category is at the start,
\* and need not be when the write comes.
Create(c) ==
    /\ claim[c].approval = "absent"
    /\ \E g \in Categories, a \in Amounts :
         claim' = [claim EXCEPT ![c] = [approval |-> "draft", category |-> g,
                                        amount_total |-> a]]
    /\ UNCHANGED <<offered, call, edits>>

\* Mutant: a field the patch leaves out is set to NULL.
Update_nulling(c) ==
    /\ claim[c].approval = "draft"
    /\ edits \/ ~BeingSubmitted(c)
    /\ \E g \in Categories, a \in Amounts \cup {Null} :
         claim' = [claim EXCEPT ![c].category = g, ![c].amount_total = a]
    /\ UNCHANGED <<offered, call, edits>>

Update(c) ==
    /\ claim[c].approval = "draft"
    /\ edits \/ ~BeingSubmitted(c)
    /\ \E g \in Categories, a \in Amounts :
         claim' = [claim EXCEPT ![c].category = g, ![c].amount_total = a]
    /\ UNCHANGED <<offered, call, edits>>

Decide(c) ==
    /\ claim[c].approval = "submitted"
    /\ \E v \in {"approved", "refused"} :
         claim' = [claim EXCEPT ![c].approval = v]
    /\ UNCHANGED <<offered, call, edits>>

\* The category routes are the full CRUD surface.
DeleteCategory(g) ==
    /\ CategoriesDeletable
    /\ offered' = offered \ {g}
    /\ UNCHANGED <<claim, call, edits>>

RestoreCategory(g) ==
    /\ CategoriesDeletable
    /\ offered' = offered \cup {g}
    /\ UNCHANGED <<claim, call, edits>>

-----------------------------------------------------------------------------
(* submit_expense.                                                         *)

SubmitRead(k, c) ==
    /\ call[k].pc = "idle"
    /\ claim[c].approval = "draft"
    /\ call' = [call EXCEPT ![k] = [pc |-> "caps", claim |-> c,
                                    seen |-> claim[c], per_month |-> Null]]
    /\ UNCHANGED <<claim, offered, edits>>

Within(amount, cap) == cap # Null => amount <= cap

\* A category that is not live has no caps.
SubmitCaps(k) ==
    LET g == call[k].seen.category
    IN  /\ call[k].pc = "caps"
        /\ \/ /\ g \notin offered
              /\ call' = [call EXCEPT ![k].pc = "mark"]
           \/ /\ g \in offered
              /\ Within(call[k].seen.amount_total, CapPerClaim[g])
              /\ call' = [call EXCEPT ![k].pc = "sum",
                                      ![k].per_month = CapPerMonth[g]]
        /\ UNCHANGED <<claim, offered, edits>>

SumOf(claims) == SumFunction([c \in claims |-> claim[c].amount_total])

\* Mutants: drafts do not count yet; the claim itself counts.
Spent_decided(c, g) ==
    SumOf({o \in Claims \ {c} :
             /\ claim[o].category = g
             /\ claim[o].approval \in {"submitted", "approved"}})
Spent_all(c, g) ==
    SumOf({o \in Claims : /\ claim[o].category = g
                          /\ claim[o].approval \in {"draft", "submitted", "approved"}})

\* The sum over the month's live claims, the claim itself left out.
Spent(c, g) ==
    SumOf({o \in Claims \ {c} :
             /\ claim[o].category = g
             /\ claim[o].approval \in {"draft", "submitted", "approved"}})

SubmitSum(k) ==
    LET seen == call[k].seen
    IN  /\ call[k].pc = "sum"
        /\ Within(Spent(call[k].claim, seen.category) + seen.amount_total,
                  call[k].per_month)
        /\ call' = [call EXCEPT ![k].pc = "mark"]
        /\ UNCHANGED <<claim, offered, edits>>

\* Mutant: the statement looks at the lifecycle alone.
SubmitMark_uncompared(k) ==
    LET c == call[k].claim
    IN  /\ call[k].pc = "mark"
        /\ claim' = IF claim[c].approval = "draft"
                    THEN [claim EXCEPT ![c].approval = "submitted"]
                    ELSE claim
        /\ call' = [call EXCEPT ![k] = Idle]
        /\ UNCHANGED <<offered, edits>>

SubmitMark(k) ==
    LET c == call[k].claim
    IN  /\ call[k].pc = "mark"
        /\ claim' = IF claim[c] = call[k].seen
                    THEN [claim EXCEPT ![c].approval = "submitted"]
                    ELSE claim
        /\ call' = [call EXCEPT ![k] = Idle]
        /\ UNCHANGED <<offered, edits>>

\* CategoryCapExceeded, or any failure before the write.
SubmitFails(k) ==
    /\ call[k] # Idle
    /\ call' = [call EXCEPT ![k] = Idle]
    /\ UNCHANGED <<claim, offered, edits>>

Next ==
    \/ \E c \in Claims : Create(c) \/ Update(c) \/ Decide(c)
    \/ \E g \in Categories : DeleteCategory(g) \/ RestoreCategory(g)
    \/ \E k \in Calls : \/ \E c \in Claims : SubmitRead(k, c)
                        \/ SubmitCaps(k) \/ SubmitSum(k)
                        \/ SubmitMark(k) \/ SubmitFails(k)

Spec == Init /\ [][Next]_vars

-----------------------------------------------------------------------------

Filed == {"submitted", "approved"}

\* "One claim over cap_per_claim refuses at submit": no claim beyond draft is
\* over its category's cap, edits while it is being submitted included.
WithinClaimCap ==
    \A c \in Claims :
        claim[c].approval \in Filed =>
            Within(claim[c].amount_total, CapPerClaim[claim[c].category])

\* "One employee's live claims for the calendar month over cap_per_month
\* refuse the claim that would cross the line": what was submitted and not
\* refused stays within the cap, however many submits race.  An edit away and
\* back is not seen by the compare at the end, so a claim has to be left alone
\* while it is being submitted.
WithinMonthCap ==
    ~edits => \A g \in Categories :
        Within(SumOf({c \in Claims : /\ claim[c].category = g
                                     /\ claim[c].approval \in Filed}),
               CapPerMonth[g])

-----------------------------------------------------------------------------

\* The server finishes a submit, and the employee retries a claim as long as
\* it is a draft.
Retried(c) ==
    LET Some(Step(_)) == \E k \in Calls : call[k].claim = c /\ Step(k)
    IN  /\ SF_vars(\E k \in Calls : SubmitRead(k, c))
        /\ SF_vars(Some(SubmitCaps))
        /\ SF_vars(Some(SubmitSum))
        /\ SF_vars(Some(SubmitMark))

Finished(k) == WF_vars(SubmitCaps(k) \/ SubmitSum(k) \/ SubmitMark(k)
                       \/ SubmitFails(k))

RetrySpec == /\ Spec
             /\ \A c \in Claims : Retried(c)
             /\ \A k \in Calls : Finished(k)

Fits(c) ==
    LET g == claim[c].category
    IN  /\ Within(claim[c].amount_total, CapPerClaim[g])
        /\ Within(SumOf({o \in Claims :
                     /\ claim[o].category = g
                     /\ claim[o].approval \in Filed \cup {"draft"}}),
                  CapPerMonth[g])

\* A draft that fits into the month with everything live does not stay one:
\* it is submitted, edited, or joined by a claim it no longer fits with.
FittingIsSubmitted ==
    \A c \in Claims : []<>~(claim[c].approval = "draft" /\ Fits(c))

=============================================================================
