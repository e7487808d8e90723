# Expense claims in TLA+

A specification of backbone-expenses beside its code: what a claim goes through, what the
write service, its database and its three seams do to it concurrently, and what holds of them.
`src/` below is the repository's own `src/` directory.

## The system

The crate keeps employee expense claims in Postgres and offers verbs on them over HTTP.

| Part | State | Operations | Talks to |
|---|---|---|---|
| write service (`application/service/expenses_write_service.rs`) | three seams; the calls it is serving | create, update, submit, approve, refuse, post, settle, attach/detach receipt, set_tax_lines, report | the repository in short transactions; the seams, outside any transaction |
| write repository (`infrastructure/persistence/expenses_write_repository.rs`) | tables `expenses`, `expense_tax_lines`, `expense_categories` | compare-and-set statements guarded by the row's lifecycle | Postgres, READ COMMITTED |
| approvals seam (`approvals_port.rs`) | unwired, or the host's engine | file, status | approvals engine |
| GL seam and envelope (`expense_gl.rs`) | unwired, or the host's ledger | build_expense_envelope, post | general ledger, idempotent by `expense:{company}:{claim}` |
| reimbursement seam (`reimbursement_port.rs`) | unwired, or the host's payments | reimburse | payment module, no idempotency key |
| guarded routes (`presentation/http/guarded_routes.rs`) | none | one route per verb, category CRUD, the report, reads | write service, generic services |
| generic CRUD (`lib.rs`, `*_handler.rs`, `*_service.rs`) | the same tables | create, update, patch, upsert, bulk, soft delete, restore, empty trash | Postgres; row rules and CHECKs guard it |
| entities and DTOs (`domain/entity/*`, `presentation/dto/*`) | none | builders, patches, a conversion per request and answer, each listing every column | generic CRUD, hosts that use the crate as a library |
| audit history (`expense_handler.rs`) | the trail of the audit log module | list, rebuild the row at an instant | trigger, trail table |
| tenancy (`request_pool.rs`, strip migration) | request pool, org scope | bind, resolve; drop `company_id` | the composing service |

What is hard about it: submit, approve, post and settle read a row in one transaction, call
another module over the network, and write the row in a second transaction. In between anything
can happen to the row, to the seam and to the process, and there is no sweeper: what was filed,
booked or paid by a call that got no further stays. set_tax_lines writes several statements whose
guards do not lock the claim. The caps of a category are sums over other claims. Categories are
deleted, restored and purged under the claims that name them. The generic surface loads a row,
checks it against rules that are younger than some of the rows, and writes all of its columns back.

What makes each part correct is stated as the properties below; `PROJECT.json` lists every hazard
with the properties that watch it.

## The modules

| Module | Models | State |
|---|---|---|
| `ClaimRows` | a row of `expenses` and the repository's statements on it, each a function from a row to the row it leaves | none: operators |
| `ClaimVerbs` | the write service: verbs over the rows, calls in flight, seams, crashes | `row`, `call`, `request`, `booked`, `paid`, `wired` |
| `ClaimLifecycle` | the abstract claim: what the module promises with no seams, races or failures | `life`, `content`, `entries`, `payments` |
| `TaxOverlay` | set_tax_lines statement by statement, with post's and settle's readings of the overlay | `state`, `live`, `overlay`, `tx`, `post`, `settle`, `booked`, `paid`, `prompt` |
| `CategoryCaps` | the caps submit enforces, in its three statements, and category deletions | `claim`, `offered`, `call`, `edits` |
| `AuditTrail` | the trail of a row's changes, written in overlapping transactions, and its replay at an instant | `row`, `tx`, `trail`, `clock`, `next`, `stamp`, `fine`, `alone`, `versions` |
| `TenancyStrip` | the migration that drops `company_id`, with the decorator, the earlier migrations and the application | `present`, `company`, `unit`, `rows`, `strip`, the environment, `first` |
| `GlEnvelope` | the loop that builds a ledger entry, and settle's own sum | the inputs, `next`, `lines`, the sums, `result` |
| `EntityShape` | the three entities as the lists of columns that the code has of them, and what each list is used for | none: operators |
| `GenericCrud` | POST, PUT and purge of the generic service, whichever the entity, beside hosts and verbs that write past it and the migration of the CHECKs | `kind`, `row`, `blocks`, `checks`, `put`, `writes`, `bypassed` |
| `GuardedRoutes` | the mounted surface: bodies, verbs, what an overlay withholds, the CRUD of categories under live claims, the report | `claim`, `category`, `withheld`, `call`, `ledger`, `bodies`, `named` |
| `MC*` | constants and symmetry for TLC | |
| `*_proofs` | theorems about `ClaimVerbs`, `TaxOverlay` with `GlEnvelope`, `CategoryCaps`, `AuditTrail`, `TenancyStrip`, `GenericCrud` and `GuardedRoutes` | |
| `Sums` | lemmas about sums over finite sets that the proofs share | |

`ClaimVerbs` extends `ClaimRows` and instantiates `ClaimLifecycle`. `TaxOverlay`, `CategoryCaps` and
`GlEnvelope` take a part of one verb each at a finer grain, and keep of the claim what that part
looks at: `TaxOverlay` only
the financial state, which decides the other (`LegalPairs`); `CategoryCaps` only the approval
state, the category and the amount; `GlEnvelope` one call of a pure function, with names of its own
(`EnvelopeSpec`) so that `TaxOverlay_proofs` can extend it beside `TaxOverlay`. `AuditTrail` is about
a row of any table with the trigger, whatever changes it; `TenancyStrip` about the tables, of whose
rows it keeps what they are keyed by. `GuardedRoutes` composes what the guarded surface mounts, with
all columns of a claim, one field for the lifecycle (`LegalPairs`) and the seams reduced to the
ledger; what races inside a verb is in `ClaimVerbs`. `GenericCrud` extends `EntityShape` and takes
one row of any of the three entities, its lifecycle columns being columns like the others.

### How the model corresponds to the code

* A **statement** of the repository is a function in `ClaimRows`. Where the `WHERE` does not match
  it returns the row unchanged, which the service reports as 404 or 409.
* A **verb** with one transaction and no seam is one action (`UpdateExpense`). A verb with a seam
  is an action per part: `PostRead` (get_expense and its guards), `PostSink` (the sink), `PostMark`
  (the statement). Where a part fails for what is stored, and not by chance, is in the modules that
  have what it depends on: `ClaimVerbs` has any failure as an `Abort`, `GuardedRoutes` the category
  (`PostFind`) and the envelope (`PostEnvelope`), `CategoryCaps` the caps. `call[k]` holds what the handler's locals hold: the row as it
  was read, the ambient scope, the acknowledgement. An early return is `Abort`, which is also a
  failed seam, a lost connection and a client that went away; it may come at any point, after the
  seam's effect included (the seam's action, then `Abort`). `Restart` drops every call and brings
  the process up in any of the deployment's wirings; `SetApprovals` arms the approvals seam of a
  service that is serving.
* The **data** of a claim is what the statements tell apart: `filed` is the five fields that
  `mark_submitted` compares, `desc` the description, which is filed and not compared, `mode` the
  payment mode. Amounts are in the modules that compute with them.
* The **seams** are modelled by what the code relies on. The engine answers a filing with a fresh
  request, or, where `EngineDedups`, with the pending one of the claim; a decision is final. The
  ledger keeps one entry per idempotency key. The payment side makes a payment per request, or,
  where `SinkDedups`, one per claim.
* A **transaction** of one statement is atomic. The statements of set_tax_lines are steps of their
  own, each seeing what was committed when it started; the `UPDATE` that deletes is two steps, its
  snapshot and the locks it waits for; `ReplaceReread` is the claim's re-read before the commit. The
  check of the strip is three statements per table, `Look`, `Count` and `CountNulls`.
* Some variables are **the environment's**, chosen at the start and never changed, so that one run
  covers every choice. `TaxOverlay!prompt` closes the window between the last statement of a replace and
  its commit: what holds only then is what the guards achieve, the rest is what that window breaks.
  `CategoryCaps!edits` lets clients edit a claim that is being submitted. `AuditTrail!stamp` is what
  the trigger, whose function is another module's, stamps an entry with: the start of the
  transaction or the time of the change; `fine` is whether its clock tells a commit from the next
  change. `TenancyStrip` has three: the runner of migrations sends a
  file as one transaction or statement by statement, the application is stopped for the strip or
  not, and its inserts carry a unit where there is a column for it or not.
* `AuditTrail!versions` and `alone`, and `TenancyStrip!first` and its rows called `lost`, are
  **history**: they remember what the properties compare with, and no step looks at them. So are
  `GenericCrud!bypassed` and `GuardedRoutes!named`. `GenericCrud!writes` and
  `GuardedRoutes!bodies` count what a bound is set to.
* The **columns** of an entity are written down by hand, or by a generator, over and over: in the
  struct, the builder, a DTO per request, a conversion per direction, a patch arm each. `EntityShape`
  has a definition for each of these lists and an operator for what the code does with it: a
  conversion is a function from columns to the field each is assigned from, so that the map names the
  lines of each list, and a list that loses a column or takes another's field is a change of one
  definition. That the lists agree today is what they say and no property; the properties are of what
  is done with them.
  Of a value it keeps what the rules and CHECKs look at: blank, too long, negative, null.
* A **PUT** of the generic service is two steps: `PutLoad` reads the row and the body, `PutWrite` has
  the guard compare the body's row with the one that was loaded and writes all columns. The
  service and its handlers are another crate's; what is modelled is what the types in `src/` give
  them. What passes the guard by is `WritePast`, at any time: a host that uses the entity and the
  repository as a library (`HostSave`, `HostPatch`), and the verbs, which have statements of their
  own and look at amounts, currencies and bases only (`VerbInsert`, `VerbUpdate`).
* A **body** in `GuardedRoutes` and `GenericCrud` is a function from the keys it has; a key may be
  missing, null or there, which the DTOs tell apart differently for each field.
* In `CategoryCaps` the claims are those of one employee in one month. Moving a claim to another
  month or employee takes it out of the sum like moving it to another category, which `Update` does.

## The runs

Passing runs:

| Run | Question | Bounds, and why they are enough |
|---|---|---|
| `ClaimVerbs_core` | do the row, the books, the payments, the verdicts and the calls in flight agree, whatever races and fails; does the service implement `ClaimLifecycle`; is the evidence fixed | one claim (claims meet only in an engine that dedups, and by claim), two calls, two contents, a receipt, two requests and payments so that each call can have its own; no adapter or all, approvals armed while serving; soft delete and restore mounted |
| `ClaimVerbs_retry` | is a composed deployment's claim always tracked; is a posted one settled | one claim, two calls, dedup on both sides (retries do not use up ids) |
| `TaxOverlay_races` | is a replace all or nothing; is the overlay frozen at submit; is what is paid what is booked | two writers, three lines (one input, two withholdings, one more than the claim), every list, the empty one included; commits prompt or not; the claim soft-deleted and restored at any time |
| `CategoryCaps_races` | does a claim over the cap stay a draft; does the month hold | two claims, two categories, two submits, edits meanwhile or not; two claims of one category can fit one at a time and not together |
| `CategoryCaps_retry` | is a claim that fits submitted | two claims, two submits, the category deleted and restored |
| `AuditTrail_replay` | is the image at an instant the row at that instant; does the past stand | three transactions (two overlap while a third is before or after), two columns of two values so that diffs are partial, four instants (one per commit of a fine clock; all changes may be of one instant of a coarse one), ids from 9, which order differently as texts, and from 10 |
| `TenancyStrip_guard` | does a row lose its only tenancy key; is a refusal for the sake of one; is everything stripped in the end | two tables (one stripped, one not, when a run fails in between), every chain of migrations before it, the decorator between any two statements, failures and re-runs without bound |
| `GenericCrud_races` | does the guard keep broken values out but those that were written past it; is it as strict as the CHECKs | one row, each of the three entities in turn, two clients (one PUT gets stale while the other writes); two varied columns of each: an Option with a rule, a text with a default, one with two rules, an Option and a number with a CHECK; good, blank, too long, negative, null and unparsable values; three writes, so that a row written past the guard is put twice |
| `GuardedRoutes_desk` | is what a claim reads as what was named last; do two adjacent reports add up to the ledger; is an approved claim posted unless its category is not live or more is withheld than there is | two claims, two categories, one request in flight besides the one-step ones, two days; every kind of body once (good, null, refused), one that is not plain per behaviour, an overlay that withholds more than the plain claim and no more than an edited one; any number of changes of category |
| `GlEnvelope_lines` | does the envelope balance and agree with settle | claims of 0 to 2, up to three tax rows of −1 to 2 (refused, zero, equal, exceeding), a basis unknown to the loop |

What each property says is stated above its definition in the module. Runs whose expected outcome
is a violation check a sentence of the repository's documentation that the code does not keep;
`PROJECT.json` quotes it:

| Run | What the counterexample shows |
|---|---|
| `ClaimVerbs_stale_filing` | a claim edited between a failed submit and its retry is linked to the request that was filed for its old contents |
| `TaxOverlay_late_commit` | a submit between a replace's last statement and its commit: the overlay of a submitted claim changes |

Both break a property that holds elsewhere: `FiledAsSubmitted` holds, and is proved, with an
engine that never reuses a request, and `FrozenAtSubmit` is `Frozen` without its condition that
commits are prompt. The counterexample is about the difference.

Differences of the same kind that were met while modelling and have no run of their own:

* Of two concurrent settles the slower one asks for a payment of a claim that is done: the request
  is made outside any transaction, on an earlier read, without an idempotency key, where
  `reimbursement_port.rs` says what is asked for is "now due" (`SettlePay` has no guard on the row).
* An overlay that withholds more than the gross is stored, submitted and approved without a check;
  then its envelope cannot be built, every post answers with 500, the overlay is frozen and no verb
  refuses an approved claim: it stays approved for ever, where the head of
  `expenses_write_service.rs` has `state` advance "approved → posted (GL ack) → done" (the last
  disjunct of `GuardedRoutes!ApprovedIsPosted`). A claim whose category is soft-deleted is stuck until it is
  restored.
* A company-paid claim is never done: settle refuses it and nothing else moves it on, where
  `schema/models/expense.model.yaml` says of done "reimbursed (own_account) or company-paid
  (company_account)". `PostedIsSettled` is
  about own-account claims for that reason.
* A strip that failed between two drops leaves a table without `company_id`; rows inserted into it
  without a unit make every retry refuse, where the header of the migration says that "a failed run
  retries cleanly after the decorator lands". `AllStripped` is about scoped inserts for that reason.
* A currency is checked by create and edit alike and upper-cased by create only, so one currency may
  be in two groups of a report (`GuardedRoutes!Draft` and `Patched`).
* The category routes of the guarded surface soft-delete and purge categories that live claims name,
  where the head of `guarded_routes.rs` names just that as what the generic routes would let happen:
  a claim of a deleted category is not posted, one of a purged category is not reported, for the
  report's join is an inner one (`GuardedRoutes!Joins`).
* A description that is blank or too long comes through the verbs and is refused by the CHECK with
  500, or is stored where the migration left the CHECK out; of the generic service
  `expense_service.rs` says 422, and its handlers answer a violation with 400.
* A PUT clears the optional columns its body leaves out, where `expense_dto.rs` says that all fields
  are required; and it writes back all the columns it was sent, so a PUT of what a client was shown
  before a verb undoes the verb as far as the CHECK on the pair lets it (`GenericCrud!PutWrite`).
* The write guard is the service's: a host that saves through the repository passes it by.
* The caps are read from the live category and no live category means no caps, so a claim of any
  amount in a soft-deleted category is submitted (`WithinClaimCap` is checked with
  `CategoriesDeletable = FALSE`); `guarded_routes.rs` mounts the category routes that delete.
* The net credit of a company-paid claim goes to the bank and carries the employee as its party,
  where `expense_gl.rs` says that only the payable credit does (`GlEnvelope!Finish`).
* The check of the strip reads whether a table has `org_unit_id` and counts its rows in statements of
  their own. A decorator that is run in between makes it count all rows as not covered and refuse a
  table that is; the retry passes (`Overtaken` in `RefusesToProtect`).
* The strip lets an empty table pass and holds nothing against inserts, so a row inserted between
  the check and the drop loses its company; `KeysKept` excludes it by its two conditions. 
* With entries stamped at the start of their transaction, `ImageIsRow` fails for overlapping ones; and
  of entries of one instant it fails where the ids' order as texts is not theirs as numbers, from 9 to
  10 and at every power of ten, for `txid` is a text. `Followed` has both conditions. A transaction
  that is open may still add an entry for an instant that was answered already, and the answer for it
  changes then (`Unsettled`).
* `mark_submitted` does not compare the description, which is filed: an edit of it alone between the
  filing and the write is not noticed (`ClaimRows!mark_submitted` has the five compared fields).
* The idempotency key contains the company of the caller's scope, so two posts of one claim under
  scopes of different companies are two entries. `BooksOnlyApproved` holds of both.
* submit resolves the company before it asks the port, so a deployment with no port and no scope
  cannot submit (`LegacyCompany` guards `SubmitFile` in both branches).
* Two replaces that start from an empty overlay both insert, and the claim has the lines of both;
  `AllOrNothing` is about the lines of each call for that reason.
* A replace by an empty list inserts zero of zero lines and succeeds on a claim that was submitted
  meanwhile; `Guarded` excludes it where it matters.
* An edit away and back while a claim is being submitted passes the compare of `mark_submitted`, and
  what was summed in between may be over the month's cap; hence `~edits` in `WithinMonthCap`.
* An envelope error is answered with 500, where `expense_gl.rs` says 422.

**Deadlock** is checked in every run of `ClaimVerbs`. It is not in the others, whose systems stop:
a writer of `TaxOverlay` is one call and the claim reaches a final state, the claims of
`CategoryCaps` are a bounded pool that is all decided in the end, a build of an envelope ends,
`AuditTrail` stops at its last instant, `GenericCrud` after its last write, and the claims of
`GuardedRoutes` are refused or done in the end and its categories purged. `TenancyStrip` does not
stop, and is checked.

**Symmetry** is declared over calls, clients, writers, ids, contents, categories, transactions, columns and
their values in safety runs only. None
of these is ordered or compared but for equality, and the caps are the same for every category.

**Fairness.** `RetrySpec` in `ClaimVerbs` assumes that the server gets on with a call it started
(weak fairness on its next step or its failure; tokio runs every handler's future), that clients
retry to settle a claim that is posted, and that not every attempt at the payment or at its write
fails (strong fairness, because a failed attempt disables the step until the next call): a settle
has no step that fails for what is stored. Nothing is assumed of a post, whose steps have such
failures, which `ClaimVerbs` does not tell apart. Nothing makes
the server retry by itself and nothing is assumed of the engine's decisions. `CategoryCaps` assumes
the same of each claim's submits. `TenancyStrip` assumes that earlier migrations and the decorator
are applied in the end (strong fairness, because they wait for a strip that runs), that a run gets on
or fails, that it is begun again, and that failures that are nobody's doing come to an end: a missing
table or rows that are not covered fail every run until they are there or covered.
`GuardedRoutes` assumes of one claim that its posting is retried, that a step of it that is enabled
again and again is taken, and that replaces of overlays end; the lookup of the category and the
envelope are enabled by what is stored only. Nothing is assumed of the other claims or of who deletes
and restores categories.

## What is proved

The proofs are for all values of the constants, under the assumptions the modules state of them:
that `None`, `Null` or `Gone` is no id or value, scopes are companies or `None`, wirings and flags
are Booleans, amounts, caps and bounds are numbers, what is summed is finite, `Order` lists no table
twice, the first transaction id has one digit or two. Each argument goes through an inductive invariant: what
a request has read, been answered or let through is part of it, because a property of rows alone does
not survive the write that comes later. Every invariant and action property of the passing runs is
stated by a theorem.

**`ClaimVerbs_proofs`** (any claims, contents, requests, companies, payments and calls, engines and
payment sides of either kind, with soft delete and restore of the generic routes mounted or not): `TypeOK`, `LegalPairs`,
`PostedIsBooked`, `DoneIsPaid`, `BooksOnlyApproved`, `PaysOnlyPosted`, `VerdictHonoured` and
`HeldIsGood`; `FiledAsSubmitted` where the engine does not dedup; `EvidenceFixed`; `Tracked`.

None of them but `LegalPairs` is inductive by itself. That a stamped claim is in the
books follows only if the call that stamps it holds an acknowledgement of what the row says at that
time; that, from the row not having changed since the read; that, from what every other call could
have done to an approved row. The inductive invariant `IInv` is therefore `TypeOK` with all the
properties together: `HeldIsGood` carries the facts from a read to the write, and the properties of
rows, books and payments are what a read finds. The proof is organised by what an action disturbs.
`RowOps` and `RowKeeps` say what a statement may do to a good row: nothing to contents, link or
decision once they matter. `CarryRow`, `CarryCall` and `CarryBooks` carry the invariant over a
change of one row, of one call, or of the seams' books that only grow. Then there is a lemma for
each kind of action: verbs of one statement, reads, seam calls, writes, the host. `Inductive`
collects them, and the theorems follow. `StepIsStatement` reduces a step of any kind to a statement
on one row, from which `EvidenceFixed` follows; `Tracked` needs besides that a call that is about to
mark a claim submitted holds a link where the port is wired (`Filing`).

Its last part is the refinement, `Implements`: every behaviour of `ClaimVerbs` is one of
`ClaimLifecycle`. `Mapped` states the lifecycle's steps in terms of the mapping; `StatementSteps` takes
every statement to one of them or to a stutter; the seams that keep books are `Enter` and `Pay`. The
guards of the abstract `Post` and `Settle`, that one set of contents is in the books, are
`BooksAreSingle`, which follows from `IInv`.

**`Sums`** (any finite set, any numbers): a sum unfolds, is split (`SumUnion`), filtered, grouped
(`SumPartition`), renamed (`SumReindex`) and is no less for more terms (`SumMonotonic`). The community modules
define sums by a recursion on subsets, and the library's rules of induction take a predicate, which
the provers cannot instantiate; `SubsetInduction` and `AddInduction` take a set of good subsets
instead, and follow from the library's `WFMin`: of the subsets that are not good one would be minimal.

**`TaxOverlay_proofs`** (any writers, lines and amounts): `AllOrNothing`, `Frozen`, `NetAgrees`, `TypeOK` and
`PaysBookedAmounts`, of which `Frozen`, `NetAgrees` and `PaysBookedAmounts` are stated where `Guarded`:
where commits are prompt and no call clears the overlay; of `GlEnvelope`, any amounts, bases and number of rows: `Balanced` and
`SettlesWhatIsPosted`; and `OverlayAmounts`, that the two modules fit. The
rows of one call are all there or all gone not only in what is committed but in what every
other replace has seen and deleted; with prompt commits, a replace that has all its lines written
wrote the last one of a draft; and from the submit on all amounts in hand are sums over the same
overlay. The two sums of the code are shown equal because stored bases are two. That payments are
not negative is `NetAgrees` with the type of what is booked, for which only the envelope has a check.
For the envelope, `EnvelopeInv` ties the sums of the loop to the rows read and both sides of the lines
to those sums; its balance and settle's amount are two readings of it. `OverlayAmounts` then says, of
rows of an overlay listed in any order, that the loop builds an envelope where `PostEnvelope` goes on,
that its credit is `EnvelopeNet`, and that what settle asks for is `SettleAmount`: what `TaxOverlay`
takes for granted of the envelope is what the envelope does.

**`CategoryCaps_proofs`**: `TypeOK`; and, where categories stay, `WithinClaimCap` and `WithinMonthCap` for
any claims, caps and amounts. Of the first: the copy in hand passed the cap, and the write compares
the row with it. The second is not inductive: a submit that has passed the sum is not in it until it
writes. `MonthInv` bounds what is filed together with what has passed and is about to be; a submit
joins these only by a sum that had all of them in it, as drafts at least (`OneJoins`), and no other step
adds to them or changes an amount while a claim is left alone (`NoneJoins`).

**`AuditTrail_proofs`** (any columns, values, transactions and instants): `ImageIsRow`, `LatestIsRow` and
`PastStands`. The walk is a recursion on sets of entries, unfolded once for all by `SubsetInduction`: an
entry later than all others is applied to the image of those. The invariant is that the image is the
row, and that the entry a transaction with the row's lock will leave comes after all there are and
turns the row into the transaction's. On a fine clock that is by the lock and the time a commit takes
where entries are stamped as changes are made, and by the absence of overlaps where they are stamped
with starts; on a coarse one by the ids of transactions that do not overlap, whose texts have one
width. `PrecedesIsOrder` is that the order of the query is one.

**`TenancyStrip_proofs`** (any list of tables): `TypeOK`, `KeysKept` and `RefusesToProtect`, the last one
for runs that the decorator did not overtake in the middle of a check. A table that passed the check has no row of a company alone and gets none until the strip is over.

**`GenericCrud_proofs`** (any clients, varied columns, values sent and number of writes): `TypeOK`,
`BreaksAreBypassed` and `GuardCoversChecks`. The invariant says of every row that a PUT
in flight has loaded, as of the stored one, that the rules it breaks were broken by a write past the
guard; and of the stored one that it keeps the CHECKs. `ListsAgree` is where the column lists are
compared.

**`GuardedRoutes_proofs`** (any claims, categories, calls and bodies): `TypeOK`, `LastNamedWins` and
`BooksAreReported`. The invariant adds that a body in flight was accepted. For the report `Books` adds
that what a post in flight has read is its claim still, that every entry is of an approved claim and
says what the claim says, and that a posted claim has one; the rows of a report are then a partition
of the claims it covers, which `SumPartition` adds up.

Only model-checked are the liveness properties, which are out of the prover's reach: `ApprovedIsPosted`,
`PostedIsSettled`, `FittingIsSubmitted` and `AllStripped`; and `FrozenAtSubmit` and `FiledAsSubmitted` with
an engine that dedups, which do not hold.

## Not modelled

* PATCH, upsert, bulk, list filters and pagination of the generic routes: handlers of another crate;
  what they do with the patch, list and summary DTOs and the repositories cannot be read off `src/`.
  `apply_patch`, which `src/` has, is in `GenericCrud` as a host uses it.
* Export types, event types and their handlers: declarations that nothing in `src/` publishes or
  calls. Seeders: fixture data, run by hand.
* HTTP status codes and the wording of answers, except that an error writes nothing.
* The routing of a request to its pool: a lookup without state of its own.
* Of the history its listing, which is the same order backwards; of the strip its indexes, policies
  and the down sketch, which restores no data; of the migrations indexes, triggers and row-level
  security, but for the audit trigger.
* The insides of the approvals engine, the ledger and the payment module: other repositories.

## Plan

Done, in the order of importance: `ClaimRows`, `ClaimVerbs` and its lifecycle; the proof of its
safety; `TaxOverlay`; `CategoryCaps`; `GlEnvelope`; `AuditTrail`; `TenancyStrip`; `EntityShape` and
`GenericCrud`; `GuardedRoutes`; the proofs of the refinement and of the safety of all modules, sums and
replay included.

Next:

1. Two claims in `ClaimVerbs` with an engine that dedups by something coarser than the claim, if a host
   with one is to be supported.
2. A PUT of the generic surface beside the verbs of `ClaimVerbs`: which of its invariants survive,
   beyond `LegalPairs`, which the CHECK keeps.
