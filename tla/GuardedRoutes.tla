---------------------------- MODULE GuardedRoutes ----------------------------
(***************************************************************************)
(* The surface that create_guarded_expenses_routes mounts, seen from the   *)
(* outside: bodies with keys that are there, null or missing, verbs on     *)
(* claims, the full CRUD of categories under live claims, and the report.  *)
(*                                                                         *)
(* An edit that names a category looks it up and writes in two statements  *)
(* of one READ COMMITTED transaction; posting reads the claim, looks the   *)
(* category up, builds the envelope, sends it and writes in five steps.    *)
(* Categories come and go in between: no foreign key holds them.  The      *)
(* overlay is replaced while the claim is a draft, but may be committed    *)
(* later.  Everything else is one statement, or one whose lookup no other  *)
(* transaction can tell apart from a lookup at the write.  The seams, the  *)
(* pair of lifecycle fields (one field here) and what a verb compares are  *)
(* in ClaimVerbs, the lines of the overlay, of which there is a net here,  *)
(* in TaxOverlay.                                                          *)
(***************************************************************************)
EXTENDS Integers, FiniteSets, Functions

CONSTANTS
    Claims,     \* ids of claims
    Retried,    \* those of them whose posting is retried
    Categories, \* ids of categories
    Calls,      \* requests the service may be handling at one time
    Null,       \* SQL NULL, JSON null, None
    Plain,      \* the body of a create with every key
    Sent,       \* what else clients send: pairs of a key and a value
    Nets,       \* what an overlay that is sent withholds, less its input tax
    MaxBodies,  \* bound: bodies that are accepted and not Plain; an edit of
                \* the category alone does not count
    FirstDay, LastDay

Columns == {"employee_id", "category_id", "expense_date", "amount_total",
            "currency", "payment_mode", "reference"}

\* A currency is a code in upper or lower case, or text that is no code.
Codes == {"IDR", "idr"}
Uppercase(text) == IF text = "idr" THEN "IDR" ELSE text
Modes == {"own_account", "company_account"}
Days == FirstDay..LastDay

ASSUME PlainOK ==
    /\ DOMAIN Plain = Columns
    /\ Plain["category_id"] \in Categories
    /\ Plain["expense_date"] \in Days
    /\ Plain["amount_total"] \in Nat
    /\ Plain["currency"] \in Codes
    /\ Plain["payment_mode"] \in Modes
ASSUME SentOK ==
    \A s \in Sent : \/ s[1] \in Columns \ {"expense_date", "amount_total"}
                    \/ s[1] = "expense_date" /\ s[2] \in Days
                    \/ s[1] = "amount_total" /\ s[2] \in Int
ASSUME BoundsOK == /\ Nets \subseteq Int
                   /\ MaxBodies \in Nat
                   /\ FirstDay \in Nat /\ LastDay \in Nat
                   /\ IsFiniteSet(Claims)
                   /\ Retried \subseteq Claims
ASSUME NullOK == Null \notin Int \cup Codes \cup Modes

VARIABLES
    claim,     \* the claims: their columns and the financial state
    category,  \* the metadata's deleted_at of each category, or that it is gone
    withheld,  \* what the overlay of each claim withholds, less its input tax
    call,      \* the requests in flight
    ledger,    \* the entries made: by claim, the expense debited, the currency
    bodies,    \* how many bodies were accepted that count
    named      \* history: for each claim, the last value a write named, by column

vars == <<claim, category, withheld, call, ledger, bodies, named>>

Absent == [state |-> "absent"]
Idle == [pc |-> "idle"]
NoEntry == [entry |-> FALSE]

\* What an answer shows of a claim.
ExpenseBody(row) == [col \in Columns \cup {"state"} |-> row[col]]

States == {"draft", "submitted", "approved", "posted", "done", "refused"}

\* What a column holds, if the statements and checks in front of it do.
Holds(col, v) ==
    /\ col = "expense_date" => v \in Days
    /\ col = "amount_total" => v \in Nat
    /\ col = "payment_mode" => v \in Modes
    /\ col = "currency" => v \in Codes
    /\ col = "category_id" => v \in Categories
    /\ col # "reference" => v # Null

TypeOK ==
    /\ \A c \in Claims : claim[c] # Absent =>
         /\ claim[c].state \in States
         /\ \A col \in Columns : Holds(col, claim[c][col])
    /\ category \in [Categories -> {"unset", "null", "set", "gone"}]
    /\ withheld \in [Claims -> Nets \cup {0}]
    /\ \A k \in Calls : call[k].pc \in {"idle", "update", "taxes", "find",
                                      "envelope", "sink", "mark"}
    /\ \A c \in Claims : ledger[c] # NoEntry =>
         /\ ledger[c].amount \in Nat
         /\ ledger[c].currency \in Codes
    /\ bodies \in 0..MaxBodies

\* The column's default has deleted_at as null, as a restore leaves it; a
\* metadata that a writer puts together himself may lack the key.
Init ==
    /\ claim = [c \in Claims |-> Absent]
    /\ category \in [Categories -> {"unset", "null"}]
    /\ withheld = [c \in Claims |-> 0]
    /\ call = [k \in Calls |-> Idle]
    /\ ledger = [c \in Claims |-> NoEntry]
    /\ bodies = 0
    /\ named = [c \in Claims |-> [col \in {} |-> Null]]

-----------------------------------------------------------------------------
(* Statements and checks.                                                  *)

\* Mutant: the key must not be there.
Found_keyless(g) == category[g] = "unset"

\* find_category: deleted_at ->> is NULL where the key is missing or null.
Found(g) == g \in Categories /\ category[g] \in {"unset", "null"}

validate_amount(amount) == amount >= 0

\* Mutant: any text of three characters is a code.
validate_currency_any(currency) == currency # Null
validate_currency(currency) == currency \in Codes

parse_payment_mode(s) ==
    IF s = Null THEN "own_account"
    ELSE IF s \in Modes THEN s ELSE "unknown"

\* A body of a request: a function from the keys it has.
Keys(body) == {key \in DOMAIN body : body[key] # Null}

\* What is checked of a body, as far as it has the key: a mode has to be one, a
\* category live.
Accepted(patch) ==
    /\ "payment_mode" \in DOMAIN patch =>
           parse_payment_mode(patch["payment_mode"]) \in Modes
    /\ "amount_total" \in DOMAIN patch => validate_amount(patch["amount_total"])
    /\ "currency" \in DOMAIN patch => validate_currency(patch["currency"])
    /\ "category_id" \in DOMAIN patch => Found(patch["category_id"])

-----------------------------------------------------------------------------
(* Creating a claim.                                                       *)

\* Every key that has no default has to be there and not null.
CreateBodies ==
    {Plain} \cup {[Plain EXCEPT ![s[1]] = s[2]] : s \in Sent}
    \cup {[key \in Columns \ {d} |-> Plain[key]] :
             d \in {"currency", "payment_mode", "reference"}}

NewExpense(body) ==
    [key \in Columns |->
        IF key = "payment_mode"
        THEN parse_payment_mode(IF key \in DOMAIN body THEN body[key] ELSE Null)
        ELSE IF key \in DOMAIN body THEN body[key]
        ELSE IF key = "currency" THEN "IDR" ELSE Null]

Draft(new) ==
    [key \in Columns \cup {"state"} |->
        IF key = "state" THEN "draft"
        ELSE IF key = "currency" THEN Uppercase(new.currency)
        ELSE new[key]]

Counted(body) ==
    /\ bodies' = bodies + (IF body = Plain \/ DOMAIN body = {"category_id"}
                          THEN 0 ELSE 1)
    /\ bodies' <= MaxBodies

Create(c) ==
    /\ claim[c] = Absent
    /\ \E body \in CreateBodies :
         LET new == NewExpense(body)
         IN  /\ \A key \in Columns \ {"reference"} : new[key] # Null
             /\ Accepted(new)
             /\ claim' = [claim EXCEPT ![c] = Draft(new)]
             /\ named' = [named EXCEPT ![c] =
                             [new EXCEPT !.currency = Uppercase(@)]]
             /\ Counted(body)
    /\ UNCHANGED <<category, withheld, call, ledger>>

-----------------------------------------------------------------------------
(* Editing a draft.                                                        *)

\* employee_id is no key of the body; a key of another pair, or of none.
EditBodies ==
    {[key \in {s[1]} |-> s[2]] : s \in {x \in Sent : x[1] # "employee_id"}}

\* Mutant: a null reference is taken for a missing one.
ExpensePatch_coalesced(body) == [key \in Keys(body) |-> body[key]]

\* Null leaves a column as it is, but the reference (a double Option).
ExpensePatch(body) ==
    [key \in Keys(body) \cup (DOMAIN body \cap {"reference"}) |-> body[key]]

\* update_expense: the statement merges the patch into the row it finds.
Patched(row, patch) ==
    [key \in DOMAIN row |-> IF key \in DOMAIN patch THEN patch[key]
                            ELSE row[key]]

\* NotDraft where the claim is none, or none any more.
Write(c, body) ==
    /\ claim[c].state = "draft"
    /\ claim' = [claim EXCEPT ![c] = Patched(claim[c], ExpensePatch(body))]
    /\ named' = [named EXCEPT ![c] = [key \in Columns |->
         IF key \in DOMAIN body /\ (body[key] # Null \/ key = "reference")
         THEN body[key] ELSE named[c][key]]]
    /\ Counted(body)

Edit(c) ==
    /\ \E body \in EditBodies :
         /\ "category_id" \notin DOMAIN ExpensePatch(body)
         /\ Accepted(ExpensePatch(body))
         /\ Write(c, body)
    /\ UNCHANGED <<category, withheld, call, ledger>>

EditFind(k, c) ==
    /\ call[k] = Idle
    /\ claim[c] # Absent
    /\ \E body \in EditBodies :
         /\ "category_id" \in DOMAIN ExpensePatch(body)
         /\ Accepted(ExpensePatch(body))
         /\ call' = [call EXCEPT ![k] = [pc |-> "update", claim |-> c,
                                         body |-> body]]
    /\ UNCHANGED <<claim, category, withheld, ledger, bodies, named>>

EditUpdate(k) ==
    /\ call[k].pc = "update"
    /\ Write(call[k].claim, call[k].body)
    /\ call' = [call EXCEPT ![k] = Idle]
    /\ UNCHANGED <<category, withheld, ledger>>

-----------------------------------------------------------------------------
(* Replacing the overlay of a draft.                                       *)

\* set_tax_lines up to its last guarded statement, which finds a draft.
TaxWrite(k, c) ==
    /\ call[k] = Idle
    /\ claim[c].state = "draft"
    /\ \E net \in Nets :
         call' = [call EXCEPT ![k] = [pc |-> "taxes", claim |-> c, net |-> net]]
    /\ bodies' = bodies + 1
    /\ bodies' <= MaxBodies
    /\ UNCHANGED <<claim, category, withheld, ledger, named>>

\* Nothing keeps the claim a draft until the commit.
TaxCommit(k) ==
    /\ call[k].pc = "taxes"
    /\ withheld' = [withheld EXCEPT ![call[k].claim] = call[k].net]
    /\ call' = [call EXCEPT ![k] = Idle]
    /\ UNCHANGED <<claim, category, ledger, bodies, named>>

-----------------------------------------------------------------------------
(* The verbs that move a claim on.                                         *)

\* A refusal without a reason (missing, null or blank) does not get here.
Move(c, from, to) ==
    /\ claim[c].state = from
    /\ claim' = [claim EXCEPT ![c].state = to]
    /\ UNCHANGED <<category, withheld, call, ledger, bodies, named>>

Submit(c) == Move(c, "draft", "submitted")
Approve(c) == Move(c, "submitted", "approved")
Refuse(c) == Move(c, "submitted", "refused")
Settle(c) ==
    /\ claim[c].state = "posted"
    /\ claim[c].payment_mode = "own_account"
    /\ Move(c, "posted", "done")

PostRead(k, c) ==
    /\ call[k] = Idle
    /\ claim[c].state = "approved"
    /\ call' = [call EXCEPT ![k] = [pc |-> "find", claim |-> c,
                                    seen |-> claim[c]]]
    /\ UNCHANGED <<claim, category, withheld, ledger, bodies, named>>

PostFind(k) ==
    /\ call[k].pc = "find"
    /\ Found(call[k].seen.category_id)
    /\ call' = [call EXCEPT ![k].pc = "envelope"]
    /\ UNCHANGED <<claim, category, withheld, ledger, bodies, named>>

\* tax_lines_for and build_expense_envelope, which fails where more is
\* withheld than there is.
PostEnvelope(k) ==
    /\ call[k].pc = "envelope"
    /\ withheld[call[k].claim] <= call[k].seen.amount_total
    /\ call' = [call EXCEPT ![k].pc = "sink"]
    /\ UNCHANGED <<claim, category, withheld, ledger, bodies, named>>

\* The sink has one entry per idempotency key.
PostSink(k) ==
    LET c == call[k].claim
        seen == call[k].seen
    IN  /\ call[k].pc = "sink"
        /\ ledger' = IF ledger[c] # NoEntry THEN ledger
                     ELSE [ledger EXCEPT ![c] =
                             [amount |-> seen.amount_total,
                              currency |-> seen.currency]]
        /\ call' = [call EXCEPT ![k].pc = "mark"]
        /\ UNCHANGED <<claim, category, withheld, bodies, named>>

PostMark(k) ==
    LET c == call[k].claim
    IN  /\ call[k].pc = "mark"
        /\ claim' = IF claim[c].state = "approved"
                    THEN [claim EXCEPT ![c].state = "posted"] ELSE claim
        /\ call' = [call EXCEPT ![k] = Idle]
        /\ UNCHANGED <<category, withheld, ledger, bodies, named>>

\* Any error answer, or the process is gone.
Fail(k) ==
    /\ call[k] # Idle
    /\ call' = [call EXCEPT ![k] = Idle]
    /\ UNCHANGED <<claim, category, withheld, ledger, bodies, named>>

-----------------------------------------------------------------------------
(* The category routes.                                                    *)

DeleteCategory(g) ==
    /\ category[g] \in {"unset", "null"}
    /\ category' = [category EXCEPT ![g] = "set"]
    /\ UNCHANGED <<claim, withheld, call, ledger, bodies, named>>

RestoreCategory(g) ==
    /\ category[g] = "set"
    /\ category' = [category EXCEPT ![g] = "null"]
    /\ UNCHANGED <<claim, withheld, call, ledger, bodies, named>>

PurgeCategory(g) ==
    /\ category[g] = "set"
    /\ category' = [category EXCEPT ![g] = "gone"]
    /\ UNCHANGED <<claim, withheld, call, ledger, bodies, named>>

-----------------------------------------------------------------------------
(* The report.                                                             *)

\* Mutant: the join leaves out categories that are soft-deleted.
Joins_live(g) == category[g] \in {"unset", "null"}

\* The join is on the id alone.
Joins(g) == category[g] # "gone"

Matching(employee, from, to) ==
    {c \in Claims : /\ claim[c] # Absent
                    /\ claim[c].expense_date \in from..to
                    /\ employee \in {Null, claim[c].employee_id}
                    /\ Joins(claim[c].category_id)}

Group(c) == [employee_id |-> claim[c].employee_id,
             category_id |-> claim[c].category_id,
             state       |-> claim[c].state,
             currency    |-> claim[c].currency]

SumOfClaims(claims) == SumFunction([c \in claims |-> claim[c].amount_total])

BadDateRange == {[error |-> "bad_date_range"]}

report(employee, from, to) ==
    LET matching == Matching(employee, from, to)
        In(group) == {c \in matching : Group(c) = group}
    IN  IF from > to THEN BadDateRange
        ELSE {[group        |-> group,
               line_count   |-> Cardinality(In(group)),
               amount_total |-> SumOfClaims(In(group))] :
                 group \in {Group(c) : c \in matching}}

-----------------------------------------------------------------------------

Next ==
    \/ \E k \in Calls :
         \/ \E c \in Claims : EditFind(k, c) \/ TaxWrite(k, c) \/ PostRead(k, c)
         \/ EditUpdate(k) \/ TaxCommit(k) \/ PostFind(k) \/ PostEnvelope(k)
         \/ PostSink(k) \/ PostMark(k) \/ Fail(k)
    \/ \E c \in Claims : Create(c) \/ Edit(c) \/ Submit(c) \/ Approve(c) \/ Refuse(c) \/ Settle(c)
    \/ \E g \in Categories :
         DeleteCategory(g) \/ RestoreCategory(g) \/ PurgeCategory(g)

Spec == Init /\ [][Next]_vars

\* The server finishes a request; a claim that is approved is posted again
\* until it is.
RetrySpec ==
    /\ Spec
    /\ \A k \in Calls : WF_vars(EditUpdate(k) \/ TaxCommit(k) \/ PostFind(k)
                                \/ PostEnvelope(k) \/ PostSink(k)
                                \/ PostMark(k) \/ Fail(k))
    /\ \A c \in Retried :
         LET Some(Step(_)) == \E k \in Calls : call[k] # Idle
                                /\ call[k].claim = c /\ Step(k)
         IN  /\ SF_vars(\E k \in Calls : PostRead(k, c))
             /\ SF_vars(Some(PostFind))
             /\ SF_vars(Some(PostEnvelope))
             /\ SF_vars(Some(PostSink))
             /\ SF_vars(Some(PostMark))

-----------------------------------------------------------------------------

\* What a claim reads as is, column by column, the last value that a create
\* or an edit which came through had named: of edits that overlap none undoes
\* another's column, null clears the reference and nothing else, an edit that
\* lost the race against submit left no trace.
LastNamedWins ==
    \A c \in Claims : claim[c] # Absent =>
        \A col \in Columns : ExpenseBody(claim[c])[col] = named[c][col]

\* What the report, asked for two adjacent ranges of days, says is posted or
\* done of an employee's claims, or of all, is what the ledger has of them, in
\* every currency: soft-deleted categories are in it, claims on the days where
\* the ranges meet are in it once, and what was booked has not been edited
\* since.  Claims of a purged category are not in it.
BooksAreReported ==
    \A employee \in {Null} \cup {claim[c].employee_id :
                                   c \in {x \in Claims : claim[x] # Absent}},
       day \in FirstDay..LastDay - 1, currency \in Codes :
        LET Booked == {c \in Claims : /\ ledger[c] # NoEntry
                                      /\ claim[c].state \in {"posted", "done"}
                                      /\ employee \in {Null, claim[c].employee_id}
                                      /\ category[claim[c].category_id] # "gone"
                                      /\ ledger[c].currency = currency}
            Rows(from, to) == {r \in report(employee, from, to) :
                                 /\ r.group.currency = currency
                                 /\ r.group.state \in {"posted", "done"}}
            Said(from, to) ==
                SumFunction([r \in Rows(from, to) |-> r.amount_total])
        IN  Said(FirstDay, day) + Said(day + 1, LastDay)
              = SumFunction([c \in Booked |-> ledger[c].amount])

\* An approved claim is posted, unless its category is not live or its
\* overlay withholds more than the envelope can: a category that was deleted
\* after the approval delays the posting but, once restored to stay, no longer.
\* An overlay like that is not refused when it is sent, submitted or approved,
\* and can be neither replaced nor refused after: the claim stays approved.
ApprovedIsPosted ==
    \A c \in Retried :
        claim[c].state = "approved" ~>
            \/ claim[c].state # "approved"
            \/ category[claim[c].category_id] \in {"set", "gone"}
            \/ withheld[c] > claim[c].amount_total
=============================================================================
