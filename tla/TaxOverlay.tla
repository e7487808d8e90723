------------------------------ MODULE TaxOverlay ------------------------------
(***************************************************************************)
(* The tax overlay of one claim: set_tax_lines replaces it in a READ       *)
(* COMMITTED transaction of several statements while the claim moves on;   *)
(* post and settle each read it, in transactions of their own, to say what *)
(* is owed.                                                                *)
(*                                                                         *)
(* A statement sees what was committed when it started.  The statements of *)
(* the replace look at the claim's row in a subquery and do not lock it.   *)
(* The UPDATE that deletes waits for the rows another transaction is       *)
(* deleting; rows inserted meanwhile are not among the ones it deletes.    *)
(*                                                                         *)
(* The claim is reduced to its financial state, which decides the approval *)
(* state (ClaimVerbs!LegalPairs), and whether it is soft-deleted; the      *)
(* verbs that move it are one step, the statement that does.               *)
(***************************************************************************)
EXTENDS Integers, FiniteSets, Functions

CONSTANTS
    Writers,       \* calls of set_tax_lines
    Lines,         \* what a line says: its basis and its tax_amount
    Lists,         \* the overlays a client may ask for
    AmountTotal,   \* what the claim claims, before tax
    Promptness     \* whether commits may be, or may not be, prompt

Bases == {"input", "withholding"}

ASSUME LinesOK == Lines \subseteq [basis : Bases, tax_amount : Nat]
ASSUME LinesFinite == IsFiniteSet(Lines)
ASSUME ListsOK == Lists \subseteq SUBSET Lines
ASSUME AmountOK == AmountTotal \in Nat
ASSUME PromptnessOK == Promptness \subseteq BOOLEAN

VARIABLES
    state,    \* the claim's financial state
    live,     \* it is not soft-deleted
    overlay,  \* the live rows of expense_tax_lines, as committed
    tx,       \* the replaces, one for each writer
    post,     \* the post in flight
    settle,   \* the settle in flight
    booked,   \* the net credit of the claim's ledger entry
    paid,     \* the amounts of the payments asked for
    prompt    \* environment: nothing runs between a replace's last guarded
              \* statement and its commit

vars == <<state, live, overlay, tx, post, settle, booked, paid, prompt>>

States == {"draft", "submitted", "approved", "posted", "done", "refused"}
TaxRow == [by : Writers, line : Lines]

\* pc is the next thing a replace does.  seen holds the rows its UPDATE
\* found, deleted and inserted what it has written, tried the lines whose
\* INSERT has run.
Replace == [pc : {"read", "find", "delete", "insert", "commit", "accepted",
                  "failed"},
            asked : SUBSET Lines, seen : SUBSET TaxRow,
            deleted : SUBSET TaxRow, tried : SUBSET Lines,
            inserted : SUBSET Lines]
Fresh == [pc |-> "read", asked |-> {}, seen |-> {},
          deleted |-> {}, tried |-> {}, inserted |-> {}]

\* No amount: nothing computed, nothing booked.
Nothing == -1
InFlight == [pc : {"idle", "lines", "sink", "mark"}, net : Int]
Idle == [pc |-> "idle", net |-> Nothing]

TypeOK ==
    /\ state \in States
    /\ live \in BOOLEAN
    /\ overlay \subseteq TaxRow
    /\ tx \in [Writers -> Replace]
    /\ post \in InFlight /\ settle \in InFlight
    /\ booked \in Nat \cup {Nothing}
    /\ paid \subseteq Int
    /\ prompt \in BOOLEAN

Init ==
    /\ state = "draft" /\ live = TRUE
    /\ overlay = {}
    /\ tx = [w \in Writers |-> Fresh]
    /\ post = Idle /\ settle = Idle
    /\ booked = Nothing
    /\ paid = {}
    /\ prompt \in Promptness

-----------------------------------------------------------------------------
(* set_tax_lines.                                                          *)

RowsOf(w, lines) == {[by |-> w, line |-> l] : l \in lines}

\* Mutant: the pre-read of the service is all the guard there is.
AnyParent == TRUE

\* EXISTS (SELECT 1 FROM expenses e WHERE ... draft, draft, not deleted).
DraftParent == state = "draft" /\ live

\* Mutant: the number of lines inserted is not compared.
Written_uncounted(t) == t.pc = "insert" /\ t.tried = t.asked

\* Every statement has run and every line asked for was inserted.
Written(t) == t.pc = "insert" /\ t.tried = t.asked /\ t.inserted = t.asked

\* Writer w has run a statement and is where t says.
Ran(w, t) ==
    /\ tx' = [tx EXCEPT ![w] = t]
    /\ UNCHANGED <<state, live, overlay, post, settle, booked, paid>>

ReplaceRead(w) ==
    /\ tx[w].pc = "read"
    /\ state = "draft" /\ live
    /\ \E asked \in Lists :
         Ran(w, [tx[w] EXCEPT !.pc = "find", !.asked = asked])

\* The UPDATE starts: its snapshot decides the guard and the rows.
ReplaceFind(w) ==
    /\ tx[w].pc = "find"
    /\ Ran(w, [tx[w] EXCEPT !.pc = "delete",
                            !.seen = IF DraftParent THEN overlay ELSE {}])

\* The UPDATE has its locks: it deletes the rows that are still live.
ReplaceDelete(w) ==
    /\ tx[w].pc = "delete"
    /\ \A v \in Writers \ {w} :
         tx[v].pc \in {"insert", "commit"} => tx[v].deleted \cap tx[w].seen = {}
    /\ Ran(w, [tx[w] EXCEPT !.pc = "insert",
                            !.deleted = tx[w].seen \cap overlay])

ReplaceInsert(w) ==
    /\ tx[w].pc = "insert"
    /\ \E l \in tx[w].asked \ tx[w].tried :
         Ran(w, [tx[w] EXCEPT !.tried = @ \cup {l},
                              !.inserted = IF DraftParent THEN @ \cup {l}
                                           ELSE @])

\* get_expense for the answer: the claim has to be live, not to be a draft.
ReplaceReread(w) ==
    /\ Written(tx[w])
    /\ live
    /\ Ran(w, [tx[w] EXCEPT !.pc = "commit"])

ReplaceCommit(w) ==
    /\ tx[w].pc = "commit"
    /\ overlay' = (overlay \ tx[w].deleted) \cup RowsOf(w, tx[w].inserted)
    /\ tx' = [tx EXCEPT ![w].pc = "accepted"]
    /\ UNCHANGED <<state, live, post, settle, booked, paid>>

\* NotDraft, NotFound, a lost connection, a victim of the deadlock detector.
ReplaceRollback(w) ==
    /\ tx[w].pc \in {"find", "delete", "insert", "commit"}
    /\ Ran(w, [Fresh EXCEPT !.pc = "failed"])

-----------------------------------------------------------------------------
(* The verbs that move the claim.                                          *)

Move(from, to) ==
    /\ state = from /\ live
    /\ state' = to
    /\ UNCHANGED <<live, overlay, tx, post, settle, booked, paid>>

Submit == Move("draft", "submitted")
Approve == Move("submitted", "approved")
Refuse == Move("submitted", "refused")

\* The generic routes' soft delete and restore, in any state.
Trash ==
    /\ live' = ~live
    /\ UNCHANGED <<state, overlay, tx, post, settle, booked, paid>>

Taxes(rows) == SumFunction([r \in rows |-> r.line.tax_amount])
Total(rows, basis) == Taxes({r \in rows : r.line.basis = basis})

\* The credit to the payee in the envelope that post builds.
Gross(rows) == AmountTotal + Total(rows, "input")
EnvelopeNet(rows) == Gross(rows) - Total(rows, "withholding")

PostRead ==
    /\ post.pc = "idle"
    /\ state = "approved" /\ live
    /\ post' = [post EXCEPT !.pc = "lines"]
    /\ UNCHANGED <<state, live, overlay, tx, settle, booked, paid>>

\* Mutant: withholding is not compared with the claim.
PostEnvelope_unbounded ==
    /\ post.pc = "lines"
    /\ post' = [pc |-> "sink", net |-> EnvelopeNet(overlay)]
    /\ UNCHANGED <<state, live, overlay, tx, settle, booked, paid>>

PostEnvelope ==
    /\ post.pc = "lines"
    /\ Total(overlay, "withholding") <= Gross(overlay)
    /\ post' = [pc |-> "sink", net |-> EnvelopeNet(overlay)]
    /\ UNCHANGED <<state, live, overlay, tx, settle, booked, paid>>

\* A replay of the idempotency key meets the entry that is there.
PostSink ==
    /\ post.pc = "sink"
    /\ booked' = IF booked = Nothing THEN post.net ELSE booked
    /\ post' = [post EXCEPT !.pc = "mark"]
    /\ UNCHANGED <<state, live, overlay, tx, settle, paid>>

PostMark ==
    /\ post.pc = "mark"
    /\ state' = IF state = "approved" /\ live THEN "posted" ELSE state
    /\ post' = Idle
    /\ UNCHANGED <<live, overlay, tx, settle, booked, paid>>

SettleRead ==
    /\ settle.pc = "idle"
    /\ state = "posted" /\ live
    /\ settle' = [settle EXCEPT !.pc = "lines"]
    /\ UNCHANGED <<state, live, overlay, tx, post, booked, paid>>

\* Mutants: input tax is taken for withholding; withholding is forgotten.
SettleAmount_all_withheld(rows) ==
    AmountTotal - Total(rows, "input") - Total(rows, "withholding")
SettleAmount_gross(rows) == Gross(rows)

\* What the employee is owed, computed anew: what is not input is withheld.
SettleAmount(rows) ==
    Gross(rows) - Taxes({r \in rows : r.line.basis # "input"})

SettleLines ==
    /\ settle.pc = "lines"
    /\ settle' = [pc |-> "sink", net |-> SettleAmount(overlay)]
    /\ UNCHANGED <<state, live, overlay, tx, post, booked, paid>>

SettlePay ==
    /\ settle.pc = "sink"
    /\ paid' = paid \cup {settle.net}
    /\ settle' = [settle EXCEPT !.pc = "mark"]
    /\ UNCHANGED <<state, live, overlay, tx, post, booked>>

SettleMark ==
    /\ settle.pc = "mark"
    /\ state' = IF state = "posted" /\ live THEN "done" ELSE state
    /\ settle' = Idle
    /\ UNCHANGED <<live, overlay, tx, post, booked, paid>>

\* An error of a seam, of the envelope or of the connection.
PostAbort ==
    /\ post.pc # "idle"
    /\ post' = Idle
    /\ UNCHANGED <<state, live, overlay, tx, settle, booked, paid>>

SettleAbort ==
    /\ settle.pc # "idle"
    /\ settle' = Idle
    /\ UNCHANGED <<state, live, overlay, tx, post, booked, paid>>

Statement ==
    \E w \in Writers : \/ ReplaceRead(w) \/ ReplaceFind(w) \/ ReplaceDelete(w)
                       \/ ReplaceInsert(w)
Ending ==
    \E w \in Writers : ReplaceReread(w) \/ ReplaceCommit(w) \/ ReplaceRollback(w)
Verb ==
    \/ Submit \/ Approve \/ Refuse \/ Trash
    \/ PostRead \/ PostEnvelope \/ PostSink \/ PostMark \/ PostAbort
    \/ SettleRead \/ SettleLines \/ SettlePay \/ SettleMark \/ SettleAbort

\* A prompt commit comes before anything else.
MayWait ==
    prompt => \A w \in Writers : ~Written(tx[w]) /\ tx[w].pc # "commit"

Next ==
    /\ \/ Ending
       \/ MayWait /\ (Statement \/ Verb)
    /\ UNCHANGED prompt

Spec == Init /\ [][Next]_vars

-----------------------------------------------------------------------------

\* The replace is all or nothing, whatever submits, fails or replaces the
\* overlay at the same time: the lines of a call are all there or all gone.
AllOrNothing ==
    \A w \in Writers :
        {r.line : r \in {x \in overlay : x.by = w}} \in {{}, tx[w].asked}

\* Nothing comes between a check of the guard and the commit: commits are
\* prompt and no call clears the overlay, which takes no guarded INSERT.
Guarded ==
    prompt /\ \A w \in Writers :
                tx[w].pc \in {"read", "failed"} \/ tx[w].asked # {}

\* The guards freeze the overlay at submit, however statements interleave
\* with the submit: that each looks at the claim again is enough.
Frozen == [][Guarded /\ state # "draft" => overlay' = overlay]_overlay

\* Where Guarded holds, what the employee is paid is what the ledger says is
\* owed, although each is computed from a reading of the overlay of its own.
\* With a commit after the submit the two readings, and amounts, may differ.
NetAgrees == Guarded /\ booked # Nothing => paid \subseteq {booked}

\* Where Guarded holds, nothing is paid before it is booked, and nobody is
\* asked to pay a negative amount, although settle does not check: the
\* envelope's bound carries over.
PaysBookedAmounts == Guarded => \A a \in paid : a >= 0 /\ booked # Nothing

\* "The overlay is frozen at submit so the approver and the GL always see the
\* same lines": no step changes the overlay of a claim that is no draft.
FrozenAtSubmit == [][state # "draft" => overlay' = overlay]_overlay
=============================================================================
