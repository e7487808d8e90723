------------------------------ MODULE ClaimVerbs ------------------------------
(***************************************************************************)
(* The expense write service: the verbs create, update, submit, approve,   *)
(* refuse, post, settle and the receipt writer, over the claim rows and    *)
(* the three seams (approvals engine, general ledger, payments).           *)
(*                                                                         *)
(* submit, approve, post and settle read the row in one transaction, call  *)
(* a seam outside any transaction and compare-and-set the row in another.  *)
(* Each of those parts is an action of a call in flight, so every          *)
(* interleaving of several calls, and a failure between any two parts, is  *)
(* a behaviour.  The other verbs have one write and no seam: one action.   *)
(*                                                                         *)
(* What ends a call early is one action, Abort, that may always be taken:  *)
(* which claims have a category that is not live, a cap they are over, or  *)
(* an overlay no envelope can be built from depends on data that is in     *)
(* CategoryCaps and GuardedRoutes.  That is more than the code does, so    *)
(* this module has no liveness of the verbs that may fail for ever.        *)
(***************************************************************************)
EXTENDS ClaimRows

CONSTANTS
    Calls,         \* requests the service may be handling at one time
    Scopes,        \* ambient org scopes: companies, None when none is bound
    Wirings,       \* wirings of the three seams a deployment may start with
    EngineDedups,  \* filing again returns the live request of the claim
    SinkDedups,    \* paying again returns the payment of the claim
    CrudMounted    \* the generic expense routes are mounted as well

ASSUME ScopesOK == Scopes \subseteq Companies \cup {None}
ASSUME WiringsOK ==
    Wirings \subseteq [approvals : BOOLEAN, gl : BOOLEAN, pay : BOOLEAN]
ASSUME FlagsOK == {EngineDedups, SinkDedups, CrudMounted} \subseteq BOOLEAN

VARIABLES
    row,      \* expenses.expenses, by claim
    call,     \* the calls in flight
    request,  \* the approvals engine's requests
    booked,   \* the general ledger's entries for claims
    paid,     \* the payment module's payments for claims
    wired     \* which seams have an adapter

vars == <<row, call, request, booked, paid, wired>>

Verdicts == {"unfiled", "pending", "approved", "rejected", "cancelled"}
Request == [verdict : Verdicts, claim : Claims \cup {None},
            filed : Filed \cup {None}, desc : Descs \cup {None}]
Unfiled == [verdict |-> "unfiled", claim |-> None,
            filed |-> None, desc |-> None]
Entry == [claim : Claims, company : Companies,
          filed : Filed \cup {None}, mode : Modes \cup {None}]
Payment == [id : Payments, claim : Claims, filed : Filed \cup {None}]

\* Where a call is: the next thing it does.
Pcs == {"idle", "file", "mark_submitted", "status", "mark_approved",
        "gl_post", "mark_posted", "reimburse", "mark_settled"}

\* What a handler holds across its steps: the row as it read it, the ambient
\* scope and the acknowledgement of the seam.
Call == [pc : Pcs, claim : Claims \cup {None}, seen : Row,
         scope : Companies \cup {None}, link : Requests \cup {None},
         pay : Payments \cup {None}]
Idle == [pc |-> "idle", claim |-> None, seen |-> NoRow,
         scope |-> None, link |-> None, pay |-> None]

TypeOK ==
    /\ row \in [Claims -> Row]
    /\ call \in [Calls -> Call]
    /\ request \in [Requests -> Request]
    /\ booked \subseteq Entry
    /\ paid \subseteq Payment
    /\ wired \in [approvals : BOOLEAN, gl : BOOLEAN, pay : BOOLEAN]

Init ==
    /\ row = [c \in Claims |-> NoRow]
    /\ call = [k \in Calls |-> Idle]
    /\ request = [q \in Requests |-> Unfiled]
    /\ booked = {}
    /\ paid = {}
    /\ wired \in Wirings

-----------------------------------------------------------------------------
(* Verbs with a single write.                                              *)

Write(c, r) ==
    /\ row' = [row EXCEPT ![c] = r]
    /\ UNCHANGED <<call, request, booked, paid, wired>>

CreateExpense(c) ==
    \E f \in Filed, d \in Descs, m \in Modes, file \in Files \cup {None} :
        /\ row[c] = NoRow
        /\ Write(c, insert_expense(f, d, m, file))

UpdateExpense(c) ==
    \E f \in Filed, d \in Descs, m \in Modes :
        Write(c, update_expense(row[c], f, d, m))

RefuseExpense(c) == Write(c, mark_refused(row[c]))

\* attach_receipt and detach_receipt.
SetReceipt(c) ==
    \E file \in Files \cup {None} : Write(c, set_receipt(row[c], file))

CrudDelete(c) == CrudMounted /\ Write(c, soft_delete(row[c]))
CrudRestore(c) == CrudMounted /\ Write(c, restore(row[c]))

-----------------------------------------------------------------------------
(* The steps of a call in flight.                                          *)

\* Call k starts on claim c: get_expense sees the live row.
Start(k, c, pc) ==
    /\ call[k] = Idle
    /\ row[c].live
    /\ \E s \in Scopes :
         call' = [call EXCEPT ![k] = [Idle EXCEPT !.pc = pc, !.claim = c,
                                      !.seen = row[c], !.scope = s]]
    /\ UNCHANGED <<row, request, booked, paid, wired>>

\* Call k ends with the write of r to its claim.
Finish(k, r) ==
    /\ row' = [row EXCEPT ![call[k].claim] = r]
    /\ call' = [call EXCEPT ![k] = Idle]
    /\ UNCHANGED <<request, booked, paid, wired>>

\* legacy_company_id: a call without an ambient scope gets no further.
LegacyCompany(k) == call[k].scope # None

SubmitRead(k, c) == row[c].approval = "draft" /\ Start(k, c, "file")

\* The requests the engine may answer a filing for claim c with.
Answers(c) ==
    LET live == {q \in Requests : /\ request[q].claim = c
                                  /\ request[q].verdict = "pending"}
    IN  IF EngineDedups /\ live # {} THEN live
        ELSE {q \in Requests : request[q] = Unfiled}

\* Mutant: a filing that fails is no reason not to submit.
SubmitFile_best_effort(k) ==
    /\ call[k].pc = "file"
    /\ LegacyCompany(k)
    /\ call' = [call EXCEPT ![k].pc = "mark_submitted"]
    /\ UNCHANGED <<row, request, booked, paid, wired>>

SubmitFile(k) ==
    /\ call[k].pc = "file"
    /\ LegacyCompany(k)
    /\ \/ /\ ~wired.approvals
          /\ call' = [call EXCEPT ![k].pc = "mark_submitted"]
          /\ UNCHANGED request
       \/ /\ wired.approvals
          /\ \E q \in Answers(call[k].claim) :
               /\ call' = [call EXCEPT ![k].pc = "mark_submitted",
                                       ![k].link = q]
               /\ request' = IF request[q] # Unfiled THEN request
                             ELSE [request EXCEPT ![q] =
                                    [verdict |-> "pending",
                                     claim |-> call[k].claim,
                                     filed |-> call[k].seen.filed,
                                     desc |-> call[k].seen.desc]]
    /\ UNCHANGED <<row, booked, paid, wired>>

SubmitMark(k) ==
    /\ call[k].pc = "mark_submitted"
    /\ Finish(k, mark_submitted(row[call[k].claim], call[k].link,
                                call[k].seen.filed))

ApproveRead(k, c) ==
    /\ row[c].approval = "submitted"
    /\ Start(k, c, IF row[c].link = None THEN "mark_approved" ELSE "status")

\* Mutant: whatever is not rejected is approved.
ApproveStatus_unrejected(k) ==
    /\ call[k].pc = "status"
    /\ wired.approvals
    /\ request[call[k].seen.link].verdict # "rejected"
    /\ call' = [call EXCEPT ![k].pc = "mark_approved"]
    /\ UNCHANGED <<row, request, booked, paid, wired>>

ApproveStatus(k) ==
    /\ call[k].pc = "status"
    /\ wired.approvals
    /\ request[call[k].seen.link].verdict = "approved"
    /\ call' = [call EXCEPT ![k].pc = "mark_approved"]
    /\ UNCHANGED <<row, request, booked, paid, wired>>

ApproveMark(k) ==
    /\ call[k].pc = "mark_approved"
    /\ Finish(k, mark_approved(row[call[k].claim]))

\* Mutant: the stamp alone is checked before the ledger is written.
PostRead_unstamped(k, c) == row[c].post = None /\ Start(k, c, "gl_post")

PostRead(k, c) ==
    /\ row[c].post = None
    /\ row[c].approval = "approved"
    /\ row[c].state = "approved"
    /\ Start(k, c, "gl_post")

\* Mutant: an unwired ledger acknowledges the entry.
PostSink_unwired(k) ==
    /\ call[k].pc = "gl_post"
    /\ LegacyCompany(k)
    /\ ~wired.gl
    /\ call' = [call EXCEPT ![k].pc = "mark_posted"]
    /\ UNCHANGED <<row, request, booked, paid, wired>>

\* The ledger keeps one entry per idempotency key expense:{company}:{claim}.
\* A category that is not live and an envelope that cannot be built end the
\* call before the sink is called (Abort).
PostSink(k) ==
    LET entry == [claim |-> call[k].claim, company |-> call[k].scope,
                  filed |-> call[k].seen.filed, mode |-> call[k].seen.mode]
        held == {e \in booked : /\ e.claim = entry.claim
                                /\ e.company = entry.company}
    IN  /\ call[k].pc = "gl_post"
        /\ LegacyCompany(k)
        /\ wired.gl
        /\ booked' = IF held = {} THEN booked \cup {entry} ELSE booked
        /\ call' = [call EXCEPT ![k].pc = "mark_posted"]
        /\ UNCHANGED <<row, request, paid, wired>>

PostMark(k) ==
    /\ call[k].pc = "mark_posted"
    /\ Finish(k, mark_posted(row[call[k].claim], call[k].scope))

\* Mutant: a claim the company paid is reimbursed.
SettleRead_any_mode(k, c) ==
    row[c].state = "posted" /\ Start(k, c, "reimburse")

SettleRead(k, c) ==
    /\ row[c].state = "posted"
    /\ row[c].mode # "company_account"
    /\ Start(k, c, "reimburse")

\* Mutant: a payment that was made is refused, not answered again.
SettlePay_once(k) ==
    /\ call[k].pc = "reimburse"
    /\ LegacyCompany(k)
    /\ wired.pay
    /\ \A p \in paid : p.claim # call[k].claim
    /\ \E p \in Payments \ {m.id : m \in paid} :
         /\ call' = [call EXCEPT ![k].pc = "mark_settled", ![k].pay = p]
         /\ paid' = paid \cup {[id |-> p, claim |-> call[k].claim,
                                filed |-> call[k].seen.filed]}
    /\ UNCHANGED <<row, request, booked, wired>>

\* The request carries no idempotency key: unless the payment side dedups on
\* the claim, every request is a payment.
SettlePay(k) ==
    LET made == {p \in paid : p.claim = call[k].claim}
        used == {p.id : p \in paid}
    IN  /\ call[k].pc = "reimburse"
        /\ LegacyCompany(k)
        /\ wired.pay
        /\ \E p \in Payments :
             /\ call' = [call EXCEPT ![k].pc = "mark_settled", ![k].pay = p]
             /\ IF SinkDedups /\ made # {}
                THEN /\ p \in {m.id : m \in made}
                     /\ UNCHANGED paid
                ELSE /\ p \notin used
                     /\ paid' = paid \cup {[id |-> p, claim |-> call[k].claim,
                                            filed |-> call[k].seen.filed]}
        /\ UNCHANGED <<row, request, booked, wired>>

SettleMark(k) ==
    /\ call[k].pc = "mark_settled"
    /\ Finish(k, mark_settled(row[call[k].claim], call[k].pay))

-----------------------------------------------------------------------------
(* Failures, the composing host and the approvals engine.                  *)

\* A call ends early: an error of a seam (whose effect may have happened), a
\* cap, no scope, no live category, no envelope, a verdict that is not
\* Approved, a lost connection, a client that hangs up.  What it did so far
\* stays done.
Abort(k) ==
    /\ call[k] # Idle
    /\ call' = [call EXCEPT ![k] = Idle]
    /\ UNCHANGED <<row, request, booked, paid, wired>>

\* The host arms the approvals seam of a service that is already serving.
SetApprovals ==
    /\ wired' = [wired EXCEPT !.approvals = TRUE]
    /\ UNCHANGED <<row, call, request, booked, paid>>

\* The process dies and comes back composed in any of the wirings.
Restart ==
    /\ call' = [k \in Calls |-> Idle]
    /\ wired' \in Wirings
    /\ UNCHANGED <<row, request, booked, paid>>

\* The engine decides a pending request; a decision is final.
Decide(q) ==
    /\ request[q].verdict = "pending"
    /\ \E v \in {"approved", "rejected", "cancelled"} :
         request' = [request EXCEPT ![q].verdict = v]
    /\ UNCHANGED <<row, call, booked, paid, wired>>

Verb(c) == CreateExpense(c) \/ UpdateExpense(c) \/ RefuseExpense(c)
           \/ SetReceipt(c) \/ CrudDelete(c) \/ CrudRestore(c)
Read(k, c) == SubmitRead(k, c) \/ ApproveRead(k, c)
              \/ PostRead(k, c) \/ SettleRead(k, c)
Ask(k) == SubmitFile(k) \/ ApproveStatus(k) \/ PostSink(k) \/ SettlePay(k)
Mark(k) == SubmitMark(k) \/ ApproveMark(k) \/ PostMark(k) \/ SettleMark(k)

Next ==
    \/ \E c \in Claims : Verb(c)
    \/ \E k \in Calls, c \in Claims : Read(k, c)
    \/ \E k \in Calls : Ask(k) \/ Mark(k) \/ Abort(k)
    \/ \E q \in Requests : Decide(q)
    \/ SetApprovals
    \/ Restart

Spec == Init /\ [][Next]_vars

-----------------------------------------------------------------------------
(* Safety.                                                                 *)

\* The pair of lifecycle fields is legal on every row, by the guards of the
\* verbs alone: the table's CHECK constraint never has to refuse a write.
\* mark_settled compares one of the two fields only.
LegalPairs == \A c \in Claims : row[c] = NoRow \/ LegalPair(row[c])

\* A row that says posted or done carries the stamp of a ledger entry, no
\* other row carries one, and the entry is there, for this claim, with what
\* the row says now: whatever failed between the entry and the stamp, and
\* whichever of several posts won.
PostedIsBooked ==
    \A c \in Claims :
        /\ row[c].state \in {"posted", "done"} <=> row[c].post # None
        /\ row[c].post # None =>
             [claim |-> c, company |-> row[c].post, filed |-> row[c].filed,
              mode |-> row[c].mode] \in booked

\* A row that says done carries the id of a payment, no other row carries
\* one, and the payment is there, for this claim and for what it says now.
\* The company's own payments never get there.
DoneIsPaid ==
    \A c \in Claims :
        /\ row[c].state = "done" <=> row[c].reimb # None
        /\ row[c].reimb # None =>
             /\ row[c].mode = "own_account"
             /\ [id |-> row[c].reimb, claim |-> c,
                 filed |-> row[c].filed] \in paid

\* The ledger holds entries of approved claims only, each saying what the
\* claim says now, the ones no row was ever stamped with included: a post
\* that is retried meets an entry it could have made itself.
BooksOnlyApproved ==
    \A e \in booked : /\ row[e.claim].approval = "approved"
                      /\ e.filed = row[e.claim].filed
                      /\ e.mode = row[e.claim].mode

\* Money goes to an employee for a posted claim the employee paid, for what
\* the claim says, orphaned payments included.
PaysOnlyPosted ==
    \A p \in paid : /\ row[p.claim].state \in {"posted", "done"}
                    /\ row[p.claim].mode = "own_account"
                    /\ p.filed = row[p.claim].filed

\* TR2: an approved claim that is linked into the approvals engine has an
\* Approved verdict on a request of its own, whatever happened to the port
\* or to the process in between; the engine is never bypassed.
VerdictHonoured ==
    \A c \in Claims :
        row[c].approval = "approved" /\ row[c].link # None =>
            /\ request[row[c].link].verdict = "approved"
            /\ request[row[c].link].claim = c

\* What the approver is shown is what the claim says: the filing a claim is
\* linked to describes the compared fields of the row.  An engine that gives
\* every filing a request of its own is what this takes.
FiledAsSubmitted ==
    \A c \in Claims :
        row[c].link # None =>
            /\ request[row[c].link].claim = c
            /\ request[row[c].link].filed = row[c].filed

\* No silently untracked claim: where the approvals port is always wired,
\* every claim beyond draft is linked to a filing.
Tracked ==
    (\A w \in Wirings : w.approvals) =>
        \A c \in Claims :
            row[c].approval \in {"submitted", "approved", "refused"} =>
                row[c].link # None

\* What a call in flight read is still good when it is used: between the read
\* of an approved or posted row and the write that follows the seam, no other
\* call changes the contents, the link or the decision the seam was told of,
\* and the acknowledgement in hand is of an entry or a payment that is there.
SameLink(r, seen) ==
    r.approval \in {"submitted", "approved", "refused"} /\ r.link = seen.link

SameContents(r, seen) ==
    r.approval = "approved" /\ r.filed = seen.filed /\ r.mode = seen.mode

\* An engine that gives every filing a request of its own keeps its contents.
Describes(q, f) == EngineDedups \/ request[q].filed = f

HeldGood(l, r) ==
    /\ l.pc # "idle" => l.claim \in Claims /\ r # NoRow
    /\ l.pc \in {"file", "mark_submitted"} /\ l.link # None =>
         /\ request[l.link].claim = l.claim
         /\ Describes(l.link, l.seen.filed)
    /\ l.pc = "status" => SameLink(r, l.seen) /\ r.link # None
    /\ l.pc = "mark_approved" =>
         /\ SameLink(r, l.seen)
         /\ r.link # None => request[r.link].verdict = "approved"
    /\ l.pc \in {"gl_post", "mark_posted"} => SameContents(r, l.seen)
    /\ l.pc = "mark_posted" =>
         [claim |-> l.claim, company |-> l.scope,
          filed |-> r.filed, mode |-> r.mode] \in booked
    /\ l.pc \in {"reimburse", "mark_settled"} =>
         /\ SameContents(r, l.seen)
         /\ r.state \in {"posted", "done"}
         /\ r.mode = "own_account"
    /\ l.pc = "mark_settled" =>
         [id |-> l.pay, claim |-> l.claim, filed |-> r.filed] \in paid

HeldIsGood ==
    \A k \in Calls : call[k] = Idle \/ HeldGood(call[k], row[call[k].claim])

\* The receipt is evidence: from the decision on, no step changes it, and a
\* decided claim is never undecided.
EvidenceFixed ==
    [][\A c \in Claims :
         row[c].approval \in {"approved", "refused"} =>
             /\ row'[c].receipt = row[c].receipt
             /\ row'[c].approval = row[c].approval]_row

-----------------------------------------------------------------------------
(* Liveness, for clients that retry.                                       *)

\* The server finishes every call it started, and the clients of a posted
\* claim ask again while it is not settled: it is not every single settle that
\* fails at its seam, nor every single one that fails between the seam and its
\* write.  Settle has no failure of its own once a claim is posted.
Retried(k) ==
    /\ WF_vars(Ask(k) \/ Mark(k) \/ Abort(k))
    /\ SF_vars(\E c \in Claims : SettleRead(k, c))
    /\ SF_vars(SettlePay(k))
    /\ SF_vars(SettleMark(k))

RetrySpec == Spec /\ \A k \in Calls : Retried(k)

\* An employee's posted claim is settled in the end, a payment whose
\* acknowledgement was lost notwithstanding.
PostedIsSettled ==
    \A c \in Claims :
        row[c].state = "posted" /\ row[c].mode = "own_account" ~>
            row[c].state = "done"

-----------------------------------------------------------------------------
(* Refinement: the service implements the lifecycle it promises.           *)

\* What the ledger and the payment side see of a claim.
Content(r) == [filed |-> r.filed, mode |-> r.mode]

Lifecycle == INSTANCE ClaimLifecycle WITH
    Contents <- [filed : Filed, mode : Modes],
    Nothing <- Content(NoRow),
    PaidByEmployee <- LAMBDA x : x.mode = "own_account",
    life <- [c \in Claims |-> row[c].state],
    content <- [c \in Claims |-> Content(row[c])],
    entries <- [c \in Claims |->
                  {Content(e) : e \in {b \in booked : b.claim = c}}],
    payments <- [c \in Claims |->
                  {[filed |-> p.filed, mode |-> "own_account"] :
                     p \in {b \in paid : b.claim = c}}]

\* Every behaviour of the service, its races and failures included, is one
\* of the lifecycle: contents frozen from the submit on, posted only with
\* one set of contents in the ledger, done only with one paid.
ImplementsLifecycle == Lifecycle!Spec

=============================================================================
