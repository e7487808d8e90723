--------------------------- MODULE ClaimVerbs_proofs ---------------------------
(***************************************************************************)
(* Proofs about ClaimVerbs, for any number of claims, calls, requests,     *)
(* companies and payments, any wirings, and either kind of engine or sink. *)
(***************************************************************************)
EXTENDS ClaimVerbs, TLAPS

(***************************************************************************)
(* The inductive invariant.  RowGood says of one row everything the        *)
(* invariants say of it; it refers to the engine, the books and the        *)
(* payments, so that BooksOnlyApproved, PaysOnlyPosted and what the calls  *)
(* in flight hold (HeldIsGood) are needed to carry it over a step.         *)
(***************************************************************************)
RowGood(c, r) ==
    \/ r = NoRow
    \/ /\ LegalPair(r)
       /\ r.filed \in Filed /\ r.mode \in Modes
       /\ r.approval = "draft" => r.link = None
       /\ r.link # None =>
            /\ request[r.link].claim = c
            /\ Describes(r.link, r.filed)
            /\ r.approval = "approved" => request[r.link].verdict = "approved"
       /\ r.state \in {"posted", "done"} <=> r.post # None
       /\ r.post # None => [claim |-> c, company |-> r.post,
                            filed |-> r.filed, mode |-> r.mode] \in booked
       /\ r.state = "done" <=> r.reimb # None
       /\ r.reimb # None =>
            /\ r.mode = "own_account"
            /\ [id |-> r.reimb, claim |-> c, filed |-> r.filed] \in paid

IInv == /\ TypeOK
        /\ \A c \in Claims : RowGood(c, row[c])
        /\ BooksOnlyApproved
        /\ PaysOnlyPosted
        /\ HeldIsGood

(***************************************************************************)
(* What no statement undoes on a row, and no step of the engine on a       *)
(* request: enough to carry over what others know about them.              *)
(***************************************************************************)
Keeps(r, n) ==
    /\ r # NoRow => n # NoRow
    /\ r.approval = "approved" =>
         n.approval = "approved" /\ n.filed = r.filed /\ n.mode = r.mode
    /\ r.approval \in {"submitted", "approved", "refused"} =>
         n.approval \in {"submitted", "approved", "refused"} /\ n.link = r.link
    /\ r.state \in {"posted", "done"} => n.state \in {"posted", "done"}

Stays(q, n) ==
    /\ q.claim \in Claims => n.claim = q.claim /\ n.filed = q.filed
    /\ q.verdict = "approved" => n.verdict = "approved"

Grows == /\ \A c \in Claims : Keeps(row[c], row'[c])
         /\ \A q \in Requests : Stays(request[q], request'[q])
         /\ booked \subseteq booked'
         /\ paid \subseteq paid'

-----------------------------------------------------------------------------

\* The statements of the write repository return rows.
LEMMA RowOps ==
    ASSUME NEW r \in Row
    PROVE  /\ \A f \in Filed, d \in Descs, m \in Modes, file \in Files \cup {None} :
                /\ insert_expense(f, d, m, file) \in Row
                /\ update_expense(r, f, d, m) \in Row
           /\ \A q \in Requests \cup {None} : \A g : mark_submitted(r, q, g) \in Row
           /\ mark_approved(r) \in Row
           /\ mark_refused(r) \in Row
           /\ \A co \in Companies \cup {None} : mark_posted(r, co) \in Row
           /\ \A p \in Payments \cup {None} : mark_settled(r, p) \in Row
           /\ \A file \in Files \cup {None} : set_receipt(r, file) \in Row
           /\ soft_delete(r) \in Row
           /\ restore(r) \in Row
<1>1. ASSUME NEW f \in Filed, NEW d \in Descs, NEW m \in Modes,
             NEW file \in Files \cup {None}
      PROVE  insert_expense(f, d, m, file) \in Row
  BY DEF insert_expense, NoRow, Row, ApprovalStates, FinancialStates
<1>2. ASSUME NEW f \in Filed, NEW d \in Descs, NEW m \in Modes
      PROVE  update_expense(r, f, d, m) \in Row
  <2>1. [r EXCEPT !.filed = f, !.desc = d, !.mode = m] \in Row
    BY Zenon DEF Row
  <2> QED  BY <2>1, Zenon DEF update_expense
<1>3. ASSUME NEW q \in Requests \cup {None}, NEW g
      PROVE  mark_submitted(r, q, g) \in Row
  <2>1. [r EXCEPT !.approval = "submitted", !.state = "submitted",
                  !.link = q] \in Row
    BY Zenon DEF Row, ApprovalStates, FinancialStates
  <2> QED  BY <2>1, Zenon DEF mark_submitted
<1>4. mark_approved(r) \in Row
  <2>1. [r EXCEPT !.approval = "approved", !.state = "approved"] \in Row
    BY Zenon DEF Row, ApprovalStates, FinancialStates
  <2> QED  BY <2>1, Zenon DEF mark_approved
<1>5. mark_refused(r) \in Row
  <2>1. [r EXCEPT !.approval = "refused", !.state = "refused"] \in Row
    BY Zenon DEF Row, ApprovalStates, FinancialStates
  <2> QED  BY <2>1, Zenon DEF mark_refused
<1>6. ASSUME NEW co \in Companies \cup {None}
      PROVE  mark_posted(r, co) \in Row
  <2>1. [r EXCEPT !.state = "posted", !.post = co] \in Row
    BY Zenon DEF Row, FinancialStates
  <2> QED  BY <2>1, Zenon DEF mark_posted
<1>7. ASSUME NEW p \in Payments \cup {None}
      PROVE  mark_settled(r, p) \in Row
  <2>1. [r EXCEPT !.state = "done", !.reimb = p] \in Row
    BY Zenon DEF Row, FinancialStates
  <2> QED  BY <2>1, Zenon DEF mark_settled
<1>8. ASSUME NEW file \in Files \cup {None}
      PROVE  set_receipt(r, file) \in Row
  <2>1. [r EXCEPT !.receipt = file] \in Row
    BY Zenon DEF Row
  <2> QED  BY <2>1, Zenon DEF set_receipt
<1>9. soft_delete(r) \in Row
  BY Zenon DEF soft_delete, Row
<1>10. restore(r) \in Row
  <2>1. ASSUME NEW b \in BOOLEAN  PROVE [r EXCEPT !.live = b] \in Row
    BY Zenon DEF Row
  <2>2. CASE r.approval = "absent"
    <3>1. restore(r) = [r EXCEPT !.live = FALSE]  BY <2>2 DEF restore
    <3> QED  BY <2>1, <3>1, Zenon
  <2>3. CASE r.approval # "absent"
    <3>1. restore(r) = [r EXCEPT !.live = TRUE]  BY <2>3 DEF restore
    <3> QED  BY <2>1, <3>1, Zenon
  <2> QED  BY <2>2, <2>3
<1> QED
  BY <1>1, <1>2, <1>3, <1>4, <1>5, <1>6, <1>7, <1>8, <1>9, <1>10

\* No statement undoes what Keeps names.
LEMMA RowKeeps ==
    ASSUME NEW r \in Row, NEW f, NEW d, NEW m, NEW file, NEW q, NEW co,
           NEW p, NEW g, r = NoRow \/ LegalPair(r)
    PROVE  /\ Keeps(r, r)
           /\ r = NoRow => Keeps(r, insert_expense(f, d, m, file))
           /\ Keeps(r, update_expense(r, f, d, m))
           /\ Keeps(r, mark_submitted(r, q, g))
           /\ Keeps(r, mark_approved(r))
           /\ Keeps(r, mark_refused(r))
           /\ Keeps(r, mark_posted(r, co))
           /\ Keeps(r, mark_settled(r, p))
           /\ Keeps(r, set_receipt(r, file))
           /\ Keeps(r, soft_delete(r))
           /\ Keeps(r, restore(r))
<1> USE DEF Keeps, At, Row, NoRow
<1>1. Keeps(r, r)  OBVIOUS
<1>2. r = NoRow => Keeps(r, insert_expense(f, d, m, file))
  BY DEF insert_expense
<1>3. Keeps(r, update_expense(r, f, d, m))  BY DEF update_expense
<1>4. Keeps(r, mark_submitted(r, q, g))  BY DEF mark_submitted
<1>5. Keeps(r, mark_approved(r))  BY DEF mark_approved
<1>6. Keeps(r, mark_refused(r))  BY DEF mark_refused
<1>7. Keeps(r, mark_posted(r, co))  BY DEF mark_posted
<1>8. Keeps(r, mark_settled(r, p))  BY DEF mark_settled
<1>9. Keeps(r, set_receipt(r, file))  BY DEF set_receipt
<1>10. Keeps(r, soft_delete(r))  BY DEF soft_delete, LegalPair
<1>11. Keeps(r, restore(r))  BY DEF restore, LegalPair
<1> HIDE DEF Keeps, At, Row, NoRow
<1> QED
  BY <1>1, <1>2, <1>3, <1>4, <1>5, <1>6, <1>7, <1>8, <1>9, <1>10, <1>11

\* The statements keep a row good, given what the service found out before it
\* runs them: the request filed, the verdict, the entry and the payment.
LEMMA GoodOps ==
    ASSUME NEW c \in Claims, NEW r \in Row, RowGood(c, r),
           NEW d, NEW file, NEW q, NEW co, NEW p, NEW g
    PROVE  /\ \A f \in Filed, m \in Modes :
                /\ RowGood(c, insert_expense(f, d, m, file))
                /\ RowGood(c, update_expense(r, f, d, m))
           /\ (q # None => /\ request[q].claim = c
                           /\ Describes(q, g))
                => RowGood(c, mark_submitted(r, q, g))
           /\ (r.link # None => request[r.link].verdict = "approved")
                => RowGood(c, mark_approved(r))
           /\ RowGood(c, mark_refused(r))
           /\ (/\ co # None
               /\ [claim |-> c, company |-> co,
                   filed |-> r.filed, mode |-> r.mode] \in booked)
                => RowGood(c, mark_posted(r, co))
           /\ (/\ p # None /\ r.mode = "own_account"
               /\ [id |-> p, claim |-> c, filed |-> r.filed] \in paid)
                => RowGood(c, mark_settled(r, p))
           /\ RowGood(c, set_receipt(r, file))
           /\ RowGood(c, soft_delete(r))
           /\ RowGood(c, restore(r))
<1>0. r.live => r # NoRow
  BY DEF NoRow
<1>1. ASSUME NEW f \in Filed, NEW m \in Modes
      PROVE  RowGood(c, insert_expense(f, d, m, file))
  BY DEF insert_expense, NoRow, RowGood, LegalPair
<1>2. ASSUME NEW f \in Filed, NEW m \in Modes
      PROVE  RowGood(c, update_expense(r, f, d, m))
  <2>1. CASE At(r, "draft", "draft")
    <3> DEFINE n == update_expense(r, f, d, m)
    <3>1. /\ n.approval = r.approval
          /\ n.state = r.state
          /\ n.filed = f
          /\ n.mode = m
          /\ n.link = r.link
          /\ n.post = r.post
          /\ n.reimb = r.reimb
      BY <2>1 DEF update_expense, At, Row
    <3>2. r.link = None /\ r.post = None /\ r.reimb = None
      BY <1>0, <2>1 DEF RowGood, LegalPair, At
    <3> HIDE DEF n
    <3>3. RowGood(c, n)
      BY <2>1, <3>1, <3>2 DEF RowGood, LegalPair, At
    <3> QED  BY <3>3 DEF n
  <2>2. CASE ~(At(r, "draft", "draft"))
    BY <2>2 DEF update_expense
  <2> QED  BY <2>1, <2>2
<1>3. ASSUME q # None => /\ request[q].claim = c
                         /\ Describes(q, g)
      PROVE  RowGood(c, mark_submitted(r, q, g))
  <2>1. CASE At(r, "draft", "draft") /\ r.filed = g
    <3> DEFINE n == mark_submitted(r, q, g)
    <3>1. /\ n.approval = "submitted"
          /\ n.state = "submitted"
          /\ n.filed = r.filed
          /\ n.mode = r.mode
          /\ n.link = q
          /\ n.post = r.post
          /\ n.reimb = r.reimb
      BY <2>1 DEF mark_submitted, At, Row
    <3>2. /\ r.filed \in Filed /\ r.mode \in Modes
          /\ r.post = None /\ r.reimb = None
      BY <1>0, <2>1 DEF RowGood, LegalPair, At
    <3> HIDE DEF n
    <3>3. RowGood(c, n)
      BY <1>3, <2>1, <3>1, <3>2 DEF RowGood, LegalPair, At
    <3> QED  BY <3>3 DEF n
  <2>2. CASE ~(At(r, "draft", "draft") /\ r.filed = g)
    BY <2>2 DEF mark_submitted
  <2> QED  BY <2>1, <2>2
<1>4. ASSUME r.link # None => request[r.link].verdict = "approved"
      PROVE  RowGood(c, mark_approved(r))
  <2>1. CASE At(r, "submitted", "submitted")
    <3> DEFINE n == mark_approved(r)
    <3>1. /\ n.approval = "approved"
          /\ n.state = "approved"
          /\ n.filed = r.filed
          /\ n.mode = r.mode
          /\ n.link = r.link
          /\ n.post = r.post
          /\ n.reimb = r.reimb
      BY <2>1 DEF mark_approved, At, Row
    <3>2. /\ r.filed \in Filed /\ r.mode \in Modes
          /\ r.post = None /\ r.reimb = None
          /\ r.link # None => /\ request[r.link].claim = c
                             /\ Describes(r.link, r.filed)
      BY <1>0, <2>1 DEF RowGood, LegalPair, At
    <3> HIDE DEF n
    <3>3. RowGood(c, n)
      BY <1>4, <2>1, <3>1, <3>2 DEF RowGood, LegalPair, At
    <3> QED  BY <3>3 DEF n
  <2>2. CASE ~(At(r, "submitted", "submitted"))
    BY <2>2 DEF mark_approved
  <2> QED  BY <2>1, <2>2
<1>5. RowGood(c, mark_refused(r))
  <2>1. CASE At(r, "submitted", "submitted")
    <3> DEFINE n == mark_refused(r)
    <3>1. /\ n.approval = "refused"
          /\ n.state = "refused"
          /\ n.filed = r.filed
          /\ n.mode = r.mode
          /\ n.link = r.link
          /\ n.post = r.post
          /\ n.reimb = r.reimb
      BY <2>1 DEF mark_refused, At, Row
    <3>2. /\ r.filed \in Filed /\ r.mode \in Modes
          /\ r.post = None /\ r.reimb = None
          /\ r.link # None => /\ request[r.link].claim = c
                             /\ Describes(r.link, r.filed)
      BY <1>0, <2>1 DEF RowGood, LegalPair, At
    <3> HIDE DEF n
    <3>3. RowGood(c, n)
      BY <2>1, <3>1, <3>2 DEF RowGood, LegalPair, At
    <3> QED  BY <3>3 DEF n
  <2>2. CASE ~(At(r, "submitted", "submitted"))
    BY <2>2 DEF mark_refused
  <2> QED  BY <2>1, <2>2
<1>6. ASSUME co # None,
             [claim |-> c, company |-> co,
              filed |-> r.filed, mode |-> r.mode] \in booked
      PROVE  RowGood(c, mark_posted(r, co))
  <2>1. CASE At(r, "approved", "approved")
    <3> DEFINE n == mark_posted(r, co)
    <3>1. /\ n.approval = r.approval
          /\ n.state = "posted"
          /\ n.filed = r.filed
          /\ n.mode = r.mode
          /\ n.link = r.link
          /\ n.post = co
          /\ n.reimb = r.reimb
      BY <2>1 DEF mark_posted, At, Row
    <3>2. r # NoRow /\ r.reimb = None
      BY <1>0, <2>1 DEF RowGood, LegalPair, At
    <3> HIDE DEF n
    <3>3. RowGood(c, n)
      BY <1>6, <2>1, <3>1, <3>2 DEF RowGood, LegalPair, At
    <3> QED  BY <3>3 DEF n
  <2>2. CASE ~(At(r, "approved", "approved"))
    BY <2>2 DEF mark_posted
  <2> QED  BY <2>1, <2>2
<1>7. ASSUME p # None, r.mode = "own_account",
             [id |-> p, claim |-> c, filed |-> r.filed] \in paid
      PROVE  RowGood(c, mark_settled(r, p))
  <2>1. CASE r.live /\ r.state = "posted"
    <3> DEFINE n == mark_settled(r, p)
    <3>1. /\ n.approval = r.approval
          /\ n.state = "done"
          /\ n.filed = r.filed
          /\ n.mode = r.mode
          /\ n.link = r.link
          /\ n.post = r.post
          /\ n.reimb = p
      BY <2>1 DEF mark_settled, At, Row
    <3>2. r # NoRow /\ r.approval = "approved"
      BY <1>0, <2>1 DEF RowGood, LegalPair, At
    <3> HIDE DEF n
    <3>3. RowGood(c, n)
      BY <1>7, <2>1, <3>1, <3>2 DEF RowGood, LegalPair, At
    <3> QED  BY <3>3 DEF n
  <2>2. CASE ~(r.live /\ r.state = "posted")
    BY <2>2 DEF mark_settled
  <2> QED  BY <2>1, <2>2
<1>8. RowGood(c, set_receipt(r, file))
  <2>1. CASE r.live /\ r.approval \in {"draft", "submitted"}
    <3> DEFINE n == set_receipt(r, file)
    <3>1. /\ n.approval = r.approval
          /\ n.state = r.state
          /\ n.filed = r.filed
          /\ n.mode = r.mode
          /\ n.link = r.link
          /\ n.post = r.post
          /\ n.reimb = r.reimb
      BY <2>1 DEF set_receipt, At, Row
    <3>2. r # NoRow
      BY <1>0, <2>1 DEF RowGood, LegalPair, At
    <3> HIDE DEF n
    <3>3. RowGood(c, n)
      BY <2>1, <3>1, <3>2 DEF RowGood, LegalPair, At
    <3> QED  BY <3>3 DEF n
  <2>2. CASE ~(r.live /\ r.approval \in {"draft", "submitted"})
    BY <2>2 DEF set_receipt
  <2> QED  BY <2>1, <2>2
<1>9. RowGood(c, soft_delete(r))
  <2>1. CASE r = NoRow
    <3>1. soft_delete(NoRow) = NoRow
      <4> soft_delete(NoRow) = [NoRow EXCEPT !.live = NoRow.live]
        BY DEF soft_delete, NoRow
      <4> QED  BY Zenon DEF NoRow
    <3> QED  BY <2>1, <3>1 DEF RowGood
  <2>2. CASE r # NoRow
    <3> DEFINE n == soft_delete(r)
    <3>1. /\ n.approval = r.approval /\ n.state = r.state
          /\ n.filed = r.filed /\ n.mode = r.mode /\ n.link = r.link
          /\ n.post = r.post /\ n.reimb = r.reimb
      BY DEF soft_delete, Row
    <3> HIDE DEF n
    <3>2. RowGood(c, n)  BY <2>2, <3>1 DEF RowGood, LegalPair
    <3> QED  BY <3>2 DEF n
  <2> QED  BY <2>1, <2>2
<1>10. RowGood(c, restore(r))
  <2>1. CASE r = NoRow
    <3>1. restore(NoRow) = NoRow
      <4> restore(NoRow) = [NoRow EXCEPT !.live = NoRow.live]
        BY DEF restore, NoRow
      <4> QED  BY Zenon DEF NoRow
    <3> QED  BY <2>1, <3>1 DEF RowGood
  <2>2. CASE r # NoRow
    <3> DEFINE n == restore(r)
    <3>1. /\ n.approval = r.approval /\ n.state = r.state
          /\ n.filed = r.filed /\ n.mode = r.mode /\ n.link = r.link
          /\ n.post = r.post /\ n.reimb = r.reimb
      BY DEF restore, Row
    <3> HIDE DEF n
    <3>2. RowGood(c, n)  BY <2>2, <3>1 DEF RowGood, LegalPair
    <3> QED  BY <3>2 DEF n
  <2> QED  BY <2>1, <2>2
<1> QED
  BY <1>1, <1>2, <1>3, <1>4, <1>5, <1>6, <1>7, <1>8, <1>9, <1>10

-----------------------------------------------------------------------------
(* A step that Grows carries over what it does not write itself.           *)

\* A row that is not written stays good.
LEMMA CarryRow ==
    ASSUME IInv, Grows, NEW c \in Claims, row'[c] = row[c]
    PROVE  RowGood(c, row[c])'
<1> DEFINE r == row[c]
<1>1. r \in Row /\ RowGood(c, r)
  BY DEF IInv, TypeOK
<1>2. CASE r = NoRow
  BY <1>2 DEF RowGood
<1>3. CASE r # NoRow
  <2>1. r.link # None => r.link \in Requests
    BY <1>1 DEF Row
  <2>2. r.link # None /\ request[r.link].claim = c =>
          /\ request'[r.link].claim = c
          /\ Describes(r.link, r.filed) => Describes(r.link, r.filed)'
          /\ request[r.link].verdict = "approved" =>
               request'[r.link].verdict = "approved"
    BY <2>1 DEF Grows, Stays, Describes
  <2>3. booked \subseteq booked' /\ paid \subseteq paid'
    BY DEF Grows
  <2>4. RowGood(c, r)'
    BY <1>1, <1>3, <2>2, <2>3 DEF RowGood
  <2> QED  BY <2>4
<1> QED  BY <1>2, <1>3

\* What a call holds stays good while the call does not move.
LEMMA CarryCall ==
    ASSUME IInv, Grows, NEW k \in Calls, call'[k] = call[k]
    PROVE  (call[k] = Idle \/ HeldGood(call[k], row[call[k].claim]))'
<1> DEFINE l == call[k]
           r == row[l.claim]
           n == row'[l.claim]
<1>1. CASE l = Idle
  BY <1>1
<1>2. CASE l # Idle /\ l.claim \notin Claims
  <2>1. l.pc = "idle"
    BY <1>2 DEF IInv, HeldIsGood, HeldGood
  <2> QED
    BY <2>1 DEF HeldGood
<1>3. CASE l # Idle /\ l.claim \in Claims
  <2>1. HeldGood(l, r) /\ Keeps(r, n) /\ l \in Call /\ r \in Row
    BY <1>3 DEF IInv, HeldIsGood, Grows, TypeOK
  <2>2. l.link # None => l.link \in Requests
    BY <2>1 DEF Call
  <2>3. r.link # None => r.link \in Requests
    BY <2>1 DEF Row
  <2>4. l.link # None /\ request[l.link].claim = l.claim =>
          /\ request'[l.link].claim = l.claim
          /\ Describes(l.link, l.seen.filed) =>
               Describes(l.link, l.seen.filed)'
    BY <1>3, <2>2 DEF Grows, Stays, Describes
  <2>5. r.link # None /\ request[r.link].verdict = "approved" =>
          request'[r.link].verdict = "approved"
    BY <2>3 DEF Grows, Stays
  <2>6. booked \subseteq booked' /\ paid \subseteq paid'
    BY DEF Grows
  <2>7. HeldGood(l, r)'
    BY <2>1, <2>4, <2>5, <2>6 DEF HeldGood, Keeps, SameLink, SameContents
  <2> QED  BY <2>7
<1> QED  BY <1>1, <1>2, <1>3

\* The entries and payments there are stay good.
LEMMA CarryBooks ==
    ASSUME IInv, Grows
    PROVE  /\ booked' = booked => BooksOnlyApproved'
           /\ paid' = paid => PaysOnlyPosted'
<1>1. \A e \in booked : e.claim \in Claims
  BY DEF IInv, TypeOK, Entry
<1>2. \A p \in paid : p.claim \in Claims /\ row[p.claim].approval = "approved"
  <2> TAKE p \in paid
  <2>1. p.claim \in Claims  BY DEF IInv, TypeOK, Payment
  <2>2. row[p.claim].state \in {"posted", "done"}
    BY DEF IInv, PaysOnlyPosted
  <2>3. row[p.claim] # NoRow  BY <2>2 DEF NoRow
  <2>4. LegalPair(row[p.claim])  BY <2>1, <2>3 DEF IInv, RowGood
  <2> QED  BY <2>1, <2>2, <2>4 DEF LegalPair
<1>3. ASSUME booked' = booked  PROVE BooksOnlyApproved'
  BY <1>1, <1>3 DEF IInv, BooksOnlyApproved, Grows, Keeps
<1>4. ASSUME paid' = paid  PROVE PaysOnlyPosted'
  BY <1>2, <1>4 DEF IInv, PaysOnlyPosted, Grows, Keeps
<1> QED  BY <1>3, <1>4

-----------------------------------------------------------------------------
(* The steps.                                                              *)

\* A statement that keeps the row and leaves it good, alone or as the end of
\* a call.
LEMMA RowWritten ==
    ASSUME IInv, NEW c \in Claims, NEW n \in Row,
           Keeps(row[c], n), RowGood(c, n),
           row' = [row EXCEPT ![c] = n],
           UNCHANGED <<request, booked, paid, wired>>,
           call' \in [Calls -> Call],
           \A k \in Calls : call'[k] \in {call[k], Idle}
    PROVE  IInv'
<1>1. /\ row \in [Claims -> Row]
      /\ \A d \in Claims : row[d] = NoRow \/ LegalPair(row[d])
  BY DEF IInv, TypeOK, RowGood
<1>2. TypeOK'
  BY <1>1 DEF IInv, TypeOK
<1>3. row'[c] = n /\ \A d \in Claims \ {c} : row'[d] = row[d]
  BY <1>1
<1>4. Grows
  <2>1. \A d \in Claims : Keeps(row[d], row'[d])
    BY <1>1, <1>3, RowKeeps
  <2> QED  BY <2>1 DEF Grows, Stays
<1>5. ASSUME NEW d \in Claims  PROVE RowGood(d, row[d])'
  <2>1. CASE d = c
    <3>1. RowGood(c, n)'
      BY DEF RowGood, Describes
    <3> QED  BY <2>1, <3>1, <1>3
  <2>2. CASE d # c
    BY <2>2, <1>3, <1>4, CarryRow
  <2> QED  BY <2>1, <2>2
<1>6. HeldIsGood'
  <2> SUFFICES ASSUME NEW k \in Calls
               PROVE  (call[k] = Idle \/ HeldGood(call[k], row[call[k].claim]))'
    BY DEF HeldIsGood
  <2>1. CASE call'[k] = call[k]
    BY <2>1, <1>4, CarryCall
  <2> QED  BY <2>1
<1>7. BooksOnlyApproved' /\ PaysOnlyPosted'
  BY <1>4, CarryBooks
<1> QED  BY <1>2, <1>5, <1>6, <1>7 DEF IInv

\* The verbs with a single write.
LEMMA VerbStep ==
    ASSUME IInv, NEW c \in Claims, Verb(c)
    PROVE  IInv'
<1>1. /\ row[c] \in Row /\ RowGood(c, row[c])
      /\ row[c] = NoRow \/ LegalPair(row[c])
      /\ call \in [Calls -> Call]
  BY DEF IInv, TypeOK, RowGood
<1>2. ASSUME NEW n \in Row, Keeps(row[c], n), RowGood(c, n), Write(c, n)
      PROVE  IInv'
  BY <1>1, <1>2, RowWritten DEF Write
<1>3. CASE CreateExpense(c)
  <2>1. PICK f \in Filed, d \in Descs, m \in Modes, file \in Files \cup {None} :
          /\ row[c] = NoRow
          /\ Write(c, insert_expense(f, d, m, file))
    BY <1>3 DEF CreateExpense
  <2> QED  BY <1>1, <1>2, <2>1, RowOps, GoodOps, RowKeeps
<1>4. CASE UpdateExpense(c)
  <2>1. PICK f \in Filed, d \in Descs, m \in Modes :
          Write(c, update_expense(row[c], f, d, m))
    BY <1>4 DEF UpdateExpense
  <2> QED  BY <1>1, <1>2, <2>1, RowOps, GoodOps, RowKeeps
<1>5. CASE RefuseExpense(c)
  BY <1>1, <1>2, <1>5, RowOps, GoodOps, RowKeeps DEF RefuseExpense
<1>6. CASE SetReceipt(c)
  <2>1. PICK file \in Files \cup {None} : Write(c, set_receipt(row[c], file))
    BY <1>6 DEF SetReceipt
  <2> QED  BY <1>1, <1>2, <2>1, RowOps, GoodOps, RowKeeps
<1>7. CASE CrudDelete(c)
  BY <1>1, <1>2, <1>7, RowOps, GoodOps, RowKeeps DEF CrudDelete
<1>8. CASE CrudRestore(c)
  BY <1>1, <1>2, <1>8, RowOps, GoodOps, RowKeeps DEF CrudRestore
<1> QED
  BY <1>3, <1>4, <1>5, <1>6, <1>7, <1>8 DEF Verb

\* A step of call k alone, which may add to what the engine, the books and
\* the payments hold.
LEMMA CallMoved ==
    ASSUME IInv, TypeOK', Grows, row' = row, NEW k \in Calls,
           \A j \in Calls \ {k} : call'[j] = call[j],
           (call[k] = Idle \/ HeldGood(call[k], row[call[k].claim]))',
           booked' = booked \/ BooksOnlyApproved',
           paid' = paid \/ PaysOnlyPosted'
    PROVE  IInv'
<1>1. \A c \in Claims : RowGood(c, row[c])'
  BY CarryRow
<1>2. ASSUME NEW j \in Calls
      PROVE  (call[j] = Idle \/ HeldGood(call[j], row[call[j].claim]))'
  BY CarryCall
<1>3. HeldIsGood'
  BY <1>2 DEF HeldIsGood
<1>4. BooksOnlyApproved' /\ PaysOnlyPosted'
  BY CarryBooks
<1> QED  BY <1>1, <1>3, <1>4 DEF IInv

\* Nothing shrinks where only calls and wirings move.
LEMMA Still ==
    ASSUME IInv, row' = row, request' = request, booked' = booked, paid' = paid
    PROVE  Grows
<1>1. \A c \in Claims : row[c] \in Row /\ (row[c] = NoRow \/ LegalPair(row[c]))
  BY DEF IInv, TypeOK, RowGood
<1>2. \A c \in Claims : Keeps(row[c], row'[c])
  BY <1>1, RowKeeps
<1> QED  BY <1>2 DEF Grows, Stays

\* The read that starts a call.
LEMMA ReadStep ==
    ASSUME IInv, NEW k \in Calls, NEW c \in Claims, Read(k, c)
    PROVE  IInv'
<1> DEFINE r == row[c]
<1>1. r \in Row /\ RowGood(c, r)
  BY DEF IInv, TypeOK
<1>2. PICK pc \in {"file", "status", "mark_approved", "gl_post", "reimburse"} :
        /\ Start(k, c, pc)
        /\ pc = "status" => r.approval = "submitted" /\ r.link # None
        /\ pc = "mark_approved" => r.approval = "submitted" /\ r.link = None
        /\ pc = "gl_post" => r.approval = "approved"
        /\ pc = "reimburse" => r.state = "posted" /\ r.mode # "company_account"
  BY DEF Read, SubmitRead, ApproveRead, PostRead, SettleRead
<1>3. PICK s \in Scopes :
        call' = [call EXCEPT ![k] = [Idle EXCEPT !.pc = pc, !.claim = c,
                                                 !.seen = r, !.scope = s]]
  BY <1>2 DEF Start
<1>4. row' = row /\ request' = request /\ booked' = booked /\ paid' = paid
      /\ wired' = wired /\ r.live
  BY <1>2 DEF Start
<1> DEFINE l == [Idle EXCEPT !.pc = pc, !.claim = c, !.seen = r, !.scope = s]
<1>5. /\ l.pc = pc /\ l.claim = c /\ l.seen = r /\ l.scope = s
      /\ l.link = None /\ l.pay = None
  BY DEF Idle
<1>6. l \in Call
  <2>1. s \in Companies \cup {None}  BY ScopesOK
  <2> QED  BY <1>1, <2>1, Zenon DEF Call, Idle, Pcs
<1> HIDE DEF l
<1>7. call' = [call EXCEPT ![k] = l]
  BY <1>3 DEF l
<1>8. call \in [Calls -> Call]
  BY DEF IInv, TypeOK
<1>9. call'[k] = l /\ \A j \in Calls \ {k} : call'[j] = call[j]
  BY <1>7, <1>8
<1>10. TypeOK'
  BY <1>4, <1>6, <1>7, <1>8 DEF IInv, TypeOK
<1>11. r # NoRow
  BY <1>4 DEF NoRow
<1>12. pc = "reimburse" => r.approval = "approved" /\ r.mode = "own_account"
  BY <1>1, <1>2, <1>11 DEF RowGood, LegalPair, Modes
<1>13. HeldGood(call[k], row[call[k].claim])'
  BY <1>2, <1>4, <1>5, <1>9, <1>11, <1>12
     DEF HeldGood, SameLink, SameContents
<1> QED
  BY <1>4, <1>9, <1>10, <1>13, Still, CallMoved

\* The compare-and-set that ends a call.
LEMMA MarkStep ==
    ASSUME IInv, NEW k \in Calls, Mark(k)
    PROVE  IInv'
<1> DEFINE l == call[k]
           c == l.claim
           r == row[c]
<1>1. l \in Call /\ l.pc # "idle"
  BY DEF IInv, TypeOK, Mark, SubmitMark, ApproveMark, PostMark, SettleMark
<1>2. c \in Claims /\ HeldGood(l, r) /\ r # NoRow
  <2>1. l # Idle  BY <1>1 DEF Idle
  <2> QED  BY <1>1, <2>1 DEF IInv, HeldIsGood, HeldGood
<1>3. r \in Row /\ RowGood(c, r) /\ (r = NoRow \/ LegalPair(r))
  BY <1>2 DEF IInv, TypeOK, RowGood
<1>4. ASSUME NEW n \in Row, Keeps(r, n), RowGood(c, n), Finish(k, n)
      PROVE  IInv'
  <2>1. Idle \in Call
    BY DEF Idle, Call, Pcs, NoRow, Row, ApprovalStates, FinancialStates
  <2>2. call \in [Calls -> Call]
    BY DEF IInv, TypeOK
  <2>3. call' \in [Calls -> Call] /\ \A j \in Calls : call'[j] \in {call[j], Idle}
    BY <1>4, <2>1, <2>2 DEF Finish
  <2> QED
    BY <1>2, <1>4, <2>3, RowWritten DEF Finish
<1>5. CASE SubmitMark(k)
  <2>1. l.link \in Requests \cup {None}
    BY <1>1 DEF Call
  <2>2. l.link # None => /\ request[l.link].claim = c
                         /\ Describes(l.link, l.seen.filed)
    BY <1>2, <1>5 DEF HeldGood, SubmitMark
  <2> DEFINE n == mark_submitted(r, l.link, l.seen.filed)
  <2>3. n \in Row /\ Keeps(r, n)
    BY <1>3, <2>1, RowOps, RowKeeps
  <2>4. RowGood(c, n)
    BY <1>2, <1>3, <2>2, GoodOps
  <2> QED  BY <1>4, <1>5, <2>3, <2>4 DEF SubmitMark
<1>6. CASE ApproveMark(k)
  <2>1. r.link # None => request[r.link].verdict = "approved"
    BY <1>2, <1>6 DEF HeldGood, ApproveMark
  <2> DEFINE n == mark_approved(r)
  <2>2. n \in Row /\ Keeps(r, n)
    BY <1>3, RowOps, RowKeeps
  <2>3. RowGood(c, n)
    BY <1>2, <1>3, <2>1, GoodOps
  <2> QED  BY <1>4, <1>6, <2>2, <2>3 DEF ApproveMark
<1>7. CASE PostMark(k)
  <2>1. l.scope \in Companies \cup {None}
    BY <1>1 DEF Call
  <2>2. [claim |-> c, company |-> l.scope,
         filed |-> r.filed, mode |-> r.mode] \in booked
    BY <1>2, <1>7 DEF HeldGood, PostMark
  <2>3. l.scope # None
    <3>1. l.scope \in Companies  BY <2>2 DEF IInv, TypeOK, Entry
    <3> QED  BY <3>1, NoneIsNothing
  <2> DEFINE n == mark_posted(r, l.scope)
  <2>4. n \in Row /\ Keeps(r, n)
    BY <1>3, <2>1, RowOps, RowKeeps
  <2>5. RowGood(c, n)
    BY <1>2, <1>3, <2>2, <2>3, GoodOps
  <2> QED  BY <1>4, <1>7, <2>4, <2>5 DEF PostMark
<1>8. CASE SettleMark(k)
  <2>1. l.pay \in Payments \cup {None}
    BY <1>1 DEF Call
  <2>2. /\ [id |-> l.pay, claim |-> c, filed |-> r.filed] \in paid
        /\ r.mode = "own_account"
    BY <1>2, <1>8 DEF HeldGood, SettleMark
  <2>3. l.pay # None
    <3>1. l.pay \in Payments  BY <2>2 DEF IInv, TypeOK, Payment
    <3> QED  BY <3>1, NoneIsNothing
  <2> DEFINE n == mark_settled(r, l.pay)
  <2>4. n \in Row /\ Keeps(r, n)
    BY <1>3, <2>1, RowOps, RowKeeps
  <2>5. RowGood(c, n)
    BY <1>2, <1>3, <2>2, <2>3, GoodOps
  <2> QED  BY <1>4, <1>8, <2>4, <2>5 DEF SettleMark
<1> QED  BY <1>5, <1>6, <1>7, <1>8 DEF Mark

\* The steps that ask a seam.
LEMMA AskStep ==
    ASSUME IInv, NEW k \in Calls, Ask(k)
    PROVE  IInv'
<1> DEFINE l == call[k]
           c == l.claim
           r == row[c]
<1>1. l \in Call /\ l.pc # "idle" /\ call \in [Calls -> Call]
  BY DEF IInv, TypeOK, Ask, SubmitFile, ApproveStatus, PostSink, SettlePay
<1>2. c \in Claims /\ HeldGood(l, r) /\ r # NoRow
  <2>1. l # Idle  BY <1>1 DEF Idle
  <2> QED  BY <1>1, <2>1 DEF IInv, HeldIsGood, HeldGood
<1>3. r \in Row /\ RowGood(c, r) /\ l.seen \in Row
  BY <1>1, <1>2 DEF IInv, TypeOK, Call
<1>4. row' = row /\ \A d \in Claims : Keeps(row[d], row'[d])
  <2>1. row' = row
    BY DEF Ask, SubmitFile, ApproveStatus, PostSink, SettlePay
  <2>2. \A d \in Claims : row[d] \in Row /\ (row[d] = NoRow \/ LegalPair(row[d]))
    BY DEF IInv, TypeOK, RowGood
  <2> QED  BY <2>1, <2>2, RowKeeps
<1>5. ASSUME call' \in [Calls -> Call],
             \A j \in Calls \ {k} : call'[j] = call[j],
             request' \in [Requests -> Request],
             \A q \in Requests : Stays(request[q], request'[q]),
             booked \subseteq booked', booked' \subseteq Entry,
             paid \subseteq paid', paid' \subseteq Payment,
             wired' = wired,
             HeldGood(call[k], row[call[k].claim])',
             booked' = booked \/ BooksOnlyApproved',
             paid' = paid \/ PaysOnlyPosted'
      PROVE  IInv'
  <2>1. TypeOK'
    BY <1>4, <1>5 DEF IInv, TypeOK
  <2>2. Grows
    BY <1>4, <1>5 DEF Grows
  <2> QED  BY <1>4, <1>5, <2>1, <2>2, CallMoved
<1>6. ASSUME NEW n \in Call, call' = [call EXCEPT ![k] = n], n.claim = c
       PROVE  /\ call' \in [Calls -> Call]
              /\ \A j \in Calls \ {k} : call'[j] = call[j]
              /\ call'[k] = n
              /\ row'[call'[k].claim] = r
  BY <1>1, <1>4, <1>6
<1>7. request \in [Requests -> Request] /\ booked \subseteq Entry /\ paid \subseteq Payment
  BY DEF IInv, TypeOK
<1>8. request' = request => \A q \in Requests : Stays(request[q], request'[q])
  BY DEF Stays
<1>9. CASE SubmitFile(k) /\ ~wired.approvals
  <2> DEFINE n == [l EXCEPT !.pc = "mark_submitted"]
  <2>1. /\ call' = [call EXCEPT ![k] = n]
        /\ request' = request /\ booked' = booked /\ paid' = paid /\ wired' = wired
    BY <1>9 DEF SubmitFile
  <2>2. n \in Call
    BY <1>1, Zenon DEF Call, Pcs
  <2>3. /\ n.pc = "mark_submitted" /\ n.claim = c
        /\ n.seen = l.seen /\ n.link = l.link
    BY <1>1 DEF Call
  <2> HIDE DEF n
  <2>4. /\ call' \in [Calls -> Call] /\ \A j \in Calls \ {k} : call'[j] = call[j]
        /\ call'[k] = n /\ row'[call'[k].claim] = r
    BY <1>6, <2>1, <2>2, <2>3
  <2>5. l.pc = "file"
    BY <1>9 DEF SubmitFile
  <2>6. l.link # None => Describes(call[k].link, call[k].seen.filed)'
    <3>1. l.link # None => Describes(l.link, l.seen.filed)
      BY <1>2, <2>5 DEF HeldGood
    <3> QED  BY <2>1, <2>3, <2>4, <3>1, Zenon DEF Describes
  <2>7. HeldGood(call[k], row[call[k].claim])'
    BY <1>2, <2>1, <2>3, <2>4, <2>5, <2>6 DEF HeldGood
  <2> QED  BY <1>5, <1>7, <1>8, <2>1, <2>4, <2>7
<1>10. CASE SubmitFile(k) /\ wired.approvals
  <2>1. PICK q \in Answers(c) :
          /\ call' = [call EXCEPT ![k].pc = "mark_submitted", ![k].link = q]
          /\ request' = IF request[q] # Unfiled THEN request
                        ELSE [request EXCEPT ![q] =
                               [verdict |-> "pending", claim |-> c,
                                filed |-> l.seen.filed, desc |-> l.seen.desc]]
    BY <1>10 DEF SubmitFile
  <2>2. booked' = booked /\ paid' = paid /\ wired' = wired
    BY <1>10 DEF SubmitFile
  <2>3. /\ q \in Requests
        /\ \/ request[q] = Unfiled
           \/ EngineDedups /\ request[q].claim = c /\ request[q].verdict = "pending"
    BY DEF Answers
  <2> DEFINE n == [l EXCEPT !.pc = "mark_submitted", !.link = q]
  <2>4. call' = [call EXCEPT ![k] = n]
    BY <1>1, <2>1, Zenon
  <2>5. n \in Call
    BY <1>1, <2>3, Zenon DEF Call, Pcs
  <2>6. /\ n.pc = "mark_submitted" /\ n.claim = c
        /\ n.seen = l.seen /\ n.link = q
    BY <1>1 DEF Call
  <2> HIDE DEF n
  <2>7. /\ call' \in [Calls -> Call] /\ \A j \in Calls \ {k} : call'[j] = call[j]
        /\ call'[k] = n /\ row'[call'[k].claim] = r
    BY <1>6, <2>4, <2>5, <2>6
  <2>8. CASE request[q] = Unfiled
    <3> DEFINE x == [verdict |-> "pending", claim |-> c,
                     filed |-> l.seen.filed, desc |-> l.seen.desc]
    <3>1. request' = [request EXCEPT ![q] = x]
      BY <2>1, <2>8
    <3>2. x \in Request
      BY <1>2, <1>3 DEF Request, Verdicts, Row
    <3>3. x.claim = c /\ x.filed = l.seen.filed
      OBVIOUS
    <3> HIDE DEF x
    <3>4. request' \in [Requests -> Request] /\ request'[q] = x
      BY <1>7, <2>3, <3>1, <3>2
    <3>5. Stays(request[q], request'[q])
      BY <2>8, NoneIsNothing DEF Stays, Unfiled
    <3>6. \A p \in Requests : Stays(request[p], request'[p])
      BY <1>7, <3>1, <3>5 DEF Stays
    <3>7. Describes(call[k].link, call[k].seen.filed)'
      BY <2>6, <2>7, <3>3, <3>4, Zenon DEF Describes
    <3>8. HeldGood(call[k], row[call[k].claim])'
      BY <1>2, <2>6, <2>7, <3>3, <3>4, <3>7 DEF HeldGood
    <3> QED  BY <1>5, <1>7, <2>2, <2>7, <3>4, <3>6, <3>8
  <2>9. CASE request[q] # Unfiled
    <3>1. request' = request
      BY <2>1, <2>9
    <3>2. Describes(call[k].link, call[k].seen.filed)'
      BY <2>3, <2>9, Zenon DEF Describes
    <3>3. HeldGood(call[k], row[call[k].claim])'
      BY <1>2, <2>3, <2>6, <2>7, <2>9, <3>1, <3>2 DEF HeldGood
    <3> QED  BY <1>5, <1>7, <1>8, <2>2, <2>7, <3>1, <3>3
  <2> QED  BY <2>8, <2>9
<1>11. CASE ApproveStatus(k)
  <2> DEFINE n == [l EXCEPT !.pc = "mark_approved"]
  <2>1. /\ call' = [call EXCEPT ![k] = n]
        /\ request' = request /\ booked' = booked /\ paid' = paid /\ wired' = wired
    BY <1>11 DEF ApproveStatus
  <2>2. n \in Call
    BY <1>1, Zenon DEF Call, Pcs
  <2>3. n.pc = "mark_approved" /\ n.claim = c /\ n.seen = l.seen
    BY <1>1 DEF Call
  <2> HIDE DEF n
  <2>4. l.pc = "status" /\ request[l.seen.link].verdict = "approved"
    BY <1>11 DEF ApproveStatus
  <2>5. /\ call' \in [Calls -> Call] /\ \A j \in Calls \ {k} : call'[j] = call[j]
        /\ call'[k] = n /\ row'[call'[k].claim] = r
    BY <1>6, <2>1, <2>2, <2>3
  <2>6. HeldGood(call[k], row[call[k].claim])'
    BY <1>2, <2>1, <2>3, <2>4, <2>5 DEF HeldGood, SameLink
  <2> QED  BY <1>5, <1>7, <1>8, <2>1, <2>5, <2>6
<1>12. CASE PostSink(k)
  <2> DEFINE n == [l EXCEPT !.pc = "mark_posted"]
             entry == [claim |-> c, company |-> l.scope,
                       filed |-> l.seen.filed, mode |-> l.seen.mode]
             held == {e \in booked : e.claim = entry.claim
                                     /\ e.company = entry.company}
  <2>1. /\ call' = [call EXCEPT ![k] = n]
        /\ booked' = IF held = {} THEN booked \cup {entry} ELSE booked
        /\ request' = request /\ paid' = paid /\ wired' = wired
        /\ l.pc = "gl_post" /\ l.scope # None
    BY <1>12 DEF PostSink, LegacyCompany
  <2>2. n \in Call
    BY <1>1, Zenon DEF Call, Pcs
  <2>3. n.pc = "mark_posted" /\ n.claim = c /\ n.seen = l.seen /\ n.scope = l.scope
    BY <1>1 DEF Call
  <2> HIDE DEF n
  <2>4. r.approval = "approved" /\ r.filed = l.seen.filed /\ r.mode = l.seen.mode
    BY <1>2, <2>1 DEF HeldGood, SameContents
  <2>5. entry \in Entry
    BY <1>1, <1>2, <1>3, <2>1 DEF Entry, Call, Row
  <2>6. entry = [claim |-> c, company |-> l.scope,
                 filed |-> r.filed, mode |-> r.mode]
    BY <2>4
  <2>7. entry \in booked' /\ booked \subseteq booked' /\ booked' \subseteq Entry
    <3>1. CASE held = {}
      BY <1>7, <2>1, <2>5, <3>1
    <3>2. CASE held # {}
      <4>1. PICK e \in booked : e.claim = c /\ e.company = l.scope
        BY <3>2
      <4>2. e \in Entry /\ e.filed = r.filed /\ e.mode = r.mode
        BY <1>7, <4>1 DEF IInv, BooksOnlyApproved
      <4>3. e = entry
        BY <2>6, <4>1, <4>2 DEF Entry
      <4> QED  BY <1>7, <2>1, <3>2, <4>1, <4>3
    <3> QED  BY <3>1, <3>2
  <2>8. BooksOnlyApproved'
    <3>1. \A e \in booked' : e \in booked \/ e = entry
      BY <2>1
    <3>2. entry.claim = c /\ entry.filed = r.filed /\ entry.mode = r.mode
      BY <2>4
    <3> HIDE DEF entry
    <3> QED  BY <1>4, <2>4, <3>1, <3>2 DEF IInv, BooksOnlyApproved
  <2>9. /\ call' \in [Calls -> Call] /\ \A j \in Calls \ {k} : call'[j] = call[j]
        /\ call'[k] = n /\ row'[call'[k].claim] = r
    BY <1>6, <2>1, <2>2, <2>3
  <2>10. HeldGood(call[k], row[call[k].claim])'
    BY <1>2, <2>3, <2>4, <2>6, <2>7, <2>9 DEF HeldGood, SameContents
  <2> QED  BY <1>5, <1>7, <1>8, <2>1, <2>7, <2>8, <2>9, <2>10
<1>13. CASE SettlePay(k)
  <2> DEFINE made == {p \in paid : p.claim = c}
             used == {p.id : p \in paid}
  <2>1. PICK p \in Payments :
          /\ call' = [call EXCEPT ![k].pc = "mark_settled", ![k].pay = p]
          /\ \/ p \in {m.id : m \in made} /\ UNCHANGED paid
             \/ paid' = paid \cup {[id |-> p, claim |-> c,
                                    filed |-> l.seen.filed]}
    BY <1>13 DEF SettlePay
  <2>2. /\ request' = request /\ booked' = booked /\ wired' = wired
        /\ l.pc = "reimburse"
    BY <1>13 DEF SettlePay
  <2> DEFINE n == [l EXCEPT !.pc = "mark_settled", !.pay = p]
             new == [id |-> p, claim |-> c, filed |-> l.seen.filed]
  <2>3. call' = [call EXCEPT ![k] = n]
    BY <1>1, <2>1, Zenon
  <2>4. n \in Call
    BY <1>1, Zenon DEF Call, Pcs
  <2>5. n.pc = "mark_settled" /\ n.claim = c /\ n.seen = l.seen /\ n.pay = p
    BY <1>1 DEF Call
  <2> HIDE DEF n
  <2>6. /\ r.approval = "approved" /\ r.filed = l.seen.filed /\ r.mode = l.seen.mode
        /\ r.state \in {"posted", "done"} /\ r.mode = "own_account"
    BY <1>2, <2>2 DEF HeldGood, SameContents
  <2>7. new \in Payment
    BY <1>2, <1>3 DEF Payment, Row
  <2>8. new.claim = c /\ new.filed = r.filed
        /\ new = [id |-> p, claim |-> c, filed |-> r.filed]
    BY <2>6
  <2>9. new \in paid' /\ paid \subseteq paid' /\ paid' \subseteq Payment
        /\ \A m \in paid' : m \in paid \/ m = new
    <3>1. CASE p \in {m.id : m \in made} /\ UNCHANGED paid
      <4>1. PICK m \in paid : m.claim = c /\ m.id = p
        BY <3>1
      <4>2. m \in Payment /\ m.filed = r.filed
        BY <1>7, <4>1 DEF IInv, PaysOnlyPosted
      <4>3. m = new
        BY <2>6, <4>1, <4>2 DEF Payment
      <4> QED  BY <1>7, <3>1, <4>1, <4>3
    <3>2. CASE paid' = paid \cup {new}
      BY <1>7, <2>7, <3>2
    <3> QED  BY <2>1, <3>1, <3>2
  <2> HIDE DEF new
  <2>10. PaysOnlyPosted'
    BY <1>4, <2>6, <2>8, <2>9 DEF IInv, PaysOnlyPosted
  <2>11. /\ call' \in [Calls -> Call] /\ \A j \in Calls \ {k} : call'[j] = call[j]
         /\ call'[k] = n /\ row'[call'[k].claim] = r
    BY <1>6, <2>3, <2>4, <2>5
  <2>12. HeldGood(call[k], row[call[k].claim])'
    BY <1>2, <2>5, <2>6, <2>8, <2>9, <2>11 DEF HeldGood, SameContents
  <2> QED  BY <1>5, <1>7, <1>8, <2>2, <2>9, <2>10, <2>11, <2>12
<1> QED  BY <1>9, <1>10, <1>11, <1>12, <1>13 DEF Ask

\* A call that ends early, a restart, the arming of a seam and a decision of
\* the engine write no row.
LEMMA HostStep ==
    ASSUME IInv,
           \/ \E k \in Calls : Abort(k)
           \/ \E q \in Requests : Decide(q)
           \/ SetApprovals
           \/ Restart
           \/ UNCHANGED vars
    PROVE  IInv'
<1>1. Idle \in Call
  BY DEF Idle, Call, Pcs, NoRow, Row, ApprovalStates, FinancialStates
<1>2. TypeOK
  BY DEF IInv
<1>3. ASSUME row' = row, TypeOK', Grows, booked' = booked, paid' = paid,
             \A k \in Calls : call'[k] \in {call[k], Idle}
      PROVE  IInv'
  <2>1. \A c \in Claims : RowGood(c, row[c])'
    BY <1>3, CarryRow
  <2>2. ASSUME NEW k \in Calls
        PROVE  (call[k] = Idle \/ HeldGood(call[k], row[call[k].claim]))'
    <3>1. CASE call'[k] = call[k]
      BY <1>3, <3>1, CarryCall
    <3> QED  BY <1>3, <3>1
  <2>3. HeldIsGood'
    BY <2>2 DEF HeldIsGood
  <2> QED  BY <1>3, <2>1, <2>3, CarryBooks DEF IInv
<1>4. ASSUME NEW k \in Calls, Abort(k)  PROVE IInv'
  BY <1>1, <1>2, <1>3, <1>4, Still DEF Abort, TypeOK
<1>5. ASSUME NEW q \in Requests, Decide(q)  PROVE IInv'
  <2>1. PICK v \in {"approved", "rejected", "cancelled"} :
          request' = [request EXCEPT ![q].verdict = v]
    BY <1>5 DEF Decide
  <2>2. /\ request[q].verdict = "pending" /\ row' = row /\ call' = call
        /\ booked' = booked /\ paid' = paid /\ wired' = wired
    BY <1>5 DEF Decide
  <2>3. request \in [Requests -> Request]
    BY <1>2 DEF TypeOK
  <2> DEFINE n == [request[q] EXCEPT !.verdict = v]
  <2>4. n \in Request
    BY <2>3, Zenon DEF Request, Verdicts
  <2>5. n.claim = request[q].claim /\ n.filed = request[q].filed
    BY <2>3 DEF Request
  <2>6. request' = [request EXCEPT ![q] = n]
    BY <2>1
  <2> HIDE DEF n
  <2>7. request' \in [Requests -> Request]
    BY <2>3, <2>4, <2>6
  <2>8. \A p \in Requests : Stays(request[p], request'[p])
    BY <2>2, <2>3, <2>5, <2>6 DEF Stays
  <2>9. \A c \in Claims : row[c] \in Row /\ (row[c] = NoRow \/ LegalPair(row[c]))
    BY DEF IInv, TypeOK, RowGood
  <2>10. \A c \in Claims : Keeps(row[c], row'[c])
    BY <2>2, <2>9, RowKeeps
  <2>11. Grows
    BY <2>2, <2>8, <2>10 DEF Grows
  <2> QED  BY <1>2, <1>3, <2>2, <2>7, <2>11 DEF TypeOK
<1>6. CASE SetApprovals
  BY <1>2, <1>3, <1>6, Still DEF SetApprovals, TypeOK
<1>7. CASE Restart
  BY <1>1, <1>2, <1>3, <1>7, Still, WiringsOK DEF Restart, TypeOK
<1>8. CASE UNCHANGED vars
  BY <1>2, <1>3, <1>8, Still DEF vars, TypeOK
<1> QED  BY <1>4, <1>5, <1>6, <1>7, <1>8

\* The invariant holds when the service starts on an empty table.
LEMMA Initially == Init => IInv
<1> SUFFICES ASSUME Init  PROVE IInv
  OBVIOUS
<1>1. NoRow \in Row
  BY DEF NoRow, Row, ApprovalStates, FinancialStates
<1>2. Idle \in Call
  BY <1>1, Zenon DEF Idle, Call, Pcs
<1>3. Unfiled \in Request
  BY DEF Unfiled, Request, Verdicts
<1>4. TypeOK
  BY <1>1, <1>2, <1>3, WiringsOK DEF Init, TypeOK
<1>5. \A c \in Claims : RowGood(c, row[c])
  BY DEF Init, RowGood
<1>6. BooksOnlyApproved /\ PaysOnlyPosted /\ HeldIsGood
  BY DEF Init, BooksOnlyApproved, PaysOnlyPosted, HeldIsGood
<1> QED  BY <1>4, <1>5, <1>6 DEF IInv

\* Every step of the service keeps the invariant.
LEMMA Inductive == IInv /\ [Next]_vars => IInv'
<1> SUFFICES ASSUME IInv, [Next]_vars  PROVE IInv'
  OBVIOUS
<1>1. CASE Next
  BY <1>1, VerbStep, ReadStep, AskStep, MarkStep, HostStep DEF Next
<1>2. CASE UNCHANGED vars
  BY <1>2, HostStep
<1> QED  BY <1>1, <1>2

-----------------------------------------------------------------------------
(* What holds in every state of the service.                               *)

\* The inductive invariant is an invariant.
THEOREM Invariance == Spec => []IInv
  BY Initially, Inductive, PTL DEF Spec

\* The state of the service is of its type.
THEOREM TypeCorrect == Spec => []TypeOK
<1>1. IInv => TypeOK
  BY DEF IInv
<1> QED  BY <1>1, Invariance, PTL

\* The verbs never write a pair the table's CHECK refuses, mark_settled, which
\* compares one of the two fields, included.
THEOREM PairsAreLegal == Spec => []LegalPairs
<1>1. IInv => LegalPairs
  BY DEF IInv, RowGood, LegalPairs
<1> QED  BY <1>1, Invariance, PTL

\* A posted claim is in the books with the contents of its row, whatever
\* raced or failed on the way.
THEOREM PostedBooked == Spec => []PostedIsBooked
<1>1. IInv => PostedIsBooked
  <2> SUFFICES ASSUME IInv, NEW c \in Claims
               PROVE  /\ row[c].state \in {"posted", "done"} <=> row[c].post # None
                      /\ row[c].post # None =>
                           [claim |-> c, company |-> row[c].post,
                            filed |-> row[c].filed, mode |-> row[c].mode] \in booked
    BY DEF PostedIsBooked
  <2>1. CASE row[c] = NoRow
    BY <2>1 DEF NoRow
  <2>2. CASE row[c] # NoRow
    BY <2>2 DEF IInv, RowGood
  <2> QED  BY <2>1, <2>2
<1> QED  BY <1>1, Invariance, PTL

\* No claim reaches done without a payment of what its row says, and none
\* that the company paid gets there.
THEOREM DonePaid == Spec => []DoneIsPaid
<1>1. IInv => DoneIsPaid
  <2> SUFFICES ASSUME IInv, NEW c \in Claims
               PROVE  /\ row[c].state = "done" <=> row[c].reimb # None
                      /\ row[c].reimb # None =>
                           /\ row[c].mode = "own_account"
                           /\ [id |-> row[c].reimb, claim |-> c,
                               filed |-> row[c].filed] \in paid
    BY DEF DoneIsPaid
  <2>1. CASE row[c] = NoRow
    BY <2>1 DEF NoRow
  <2>2. CASE row[c] # NoRow
    BY <2>2 DEF IInv, RowGood
  <2> QED  BY <2>1, <2>2
<1> QED  BY <1>1, Invariance, PTL

\* The ledger has entries of approved claims only, orphaned ones included.
THEOREM OnlyApprovedBooked == Spec => []BooksOnlyApproved
<1>1. IInv => BooksOnlyApproved
  BY DEF IInv
<1> QED  BY <1>1, Invariance, PTL

\* Payments are made for posted claims of employees only, orphaned ones
\* included.
THEOREM OnlyPostedPaid == Spec => []PaysOnlyPosted
<1>1. IInv => PaysOnlyPosted
  BY DEF IInv
<1> QED  BY <1>1, Invariance, PTL

\* A linked claim is approved on an Approved verdict of its own request only.
THEOREM EngineNotBypassed == Spec => []VerdictHonoured
<1>1. IInv => VerdictHonoured
  <2> SUFFICES ASSUME IInv, NEW c \in Claims,
                      row[c].approval = "approved", row[c].link # None
               PROVE  /\ request[row[c].link].verdict = "approved"
                      /\ request[row[c].link].claim = c
    BY DEF VerdictHonoured
  <2>1. row[c] # NoRow
    BY DEF NoRow
  <2> QED  BY <2>1 DEF IInv, RowGood
<1> QED  BY <1>1, Invariance, PTL

\* What a call in flight has read and been told is still so when it writes.
THEOREM HeldStaysGood == Spec => []HeldIsGood
<1>1. IInv => HeldIsGood
  BY DEF IInv
<1> QED  BY <1>1, Invariance, PTL

\* With an engine that gives every filing a request of its own, the filing a
\* claim is linked to describes the compared fields of its row.
THEOREM FiledIsSubmitted == EngineDedups = FALSE => (Spec => []FiledAsSubmitted)
<1> SUFFICES ASSUME EngineDedups = FALSE  PROVE Spec => []FiledAsSubmitted
  OBVIOUS
<1>1. IInv => FiledAsSubmitted
  <2> SUFFICES ASSUME IInv, NEW c \in Claims, row[c].link # None
               PROVE  /\ request[row[c].link].claim = c
                      /\ request[row[c].link].filed = row[c].filed
    BY DEF FiledAsSubmitted
  <2>1. row[c] # NoRow
    BY DEF NoRow
  <2>2. /\ request[row[c].link].claim = c
        /\ Describes(row[c].link, row[c].filed)
    BY <2>1 DEF IInv, RowGood
  <2> QED  BY <2>2, Zenon DEF Describes
<1> QED  BY <1>1, Invariance, PTL

-----------------------------------------------------------------------------

\* What a step does to a single row: nothing, or one statement, which a
\* submit runs with the link its call holds.
Statement(r, n) ==
    \/ n = r
    \/ r = NoRow /\ \E f, d, m, file : n = insert_expense(f, d, m, file)
    \/ \E f, d, m : n = update_expense(r, f, d, m)
    \/ \E k \in Calls : /\ call[k].pc = "mark_submitted"
                        /\ n = mark_submitted(r, call[k].link, call[k].seen.filed)
    \/ n = mark_approved(r)
    \/ n = mark_refused(r)
    \/ \E co : n = mark_posted(r, co)
    \/ \E p : n = mark_settled(r, p)
    \/ \E file : n = set_receipt(r, file)
    \/ n = soft_delete(r)
    \/ n = restore(r)

\* Rows change by statements only.
LEMMA StepIsStatement ==
    ASSUME IInv, [Next]_vars, NEW c \in Claims
    PROVE  Statement(row[c], row'[c])
<1>1. row \in [Claims -> Row]
  BY DEF IInv, TypeOK
<1>2. ASSUME NEW e, NEW n, row' = [row EXCEPT ![e] = n]
      PROVE  row'[c] = row[c] \/ (e = c /\ row'[c] = n)
  BY <1>1, <1>2
<1>3. ASSUME NEW e \in Claims, Verb(e)
      PROVE  Statement(row[c], row'[c])
  <2>1. CASE CreateExpense(e)
    <3>1. PICK f \in Filed, d \in Descs, m \in Modes, file \in Files \cup {None} :
            row[e] = NoRow /\ row' = [row EXCEPT ![e] = insert_expense(f, d, m, file)]
      BY <2>1 DEF CreateExpense, Write
    <3> QED  BY <1>2, <3>1, Zenon DEF Statement
  <2>2. CASE UpdateExpense(e)
    <3>1. PICK f \in Filed, d \in Descs, m \in Modes :
            row' = [row EXCEPT ![e] = update_expense(row[e], f, d, m)]
      BY <2>2 DEF UpdateExpense, Write
    <3> QED  BY <1>2, <3>1, Zenon DEF Statement
  <2>3. CASE RefuseExpense(e)
    BY <1>2, <2>3, Zenon DEF RefuseExpense, Write, Statement
  <2>4. CASE SetReceipt(e)
    <3>1. PICK file \in Files \cup {None} :
            row' = [row EXCEPT ![e] = set_receipt(row[e], file)]
      BY <2>4 DEF SetReceipt, Write
    <3> QED  BY <1>2, <3>1, Zenon DEF Statement
  <2>5. CASE CrudDelete(e)
    BY <1>2, <2>5, Zenon DEF CrudDelete, Write, Statement
  <2>6. CASE CrudRestore(e)
    BY <1>2, <2>6, Zenon DEF CrudRestore, Write, Statement
  <2> QED  BY <1>3, <2>1, <2>2, <2>3, <2>4, <2>5, <2>6 DEF Verb
<1>4. ASSUME NEW k \in Calls, Mark(k)
      PROVE  Statement(row[c], row'[c])
  <2>1. CASE SubmitMark(k)
    BY <1>2, <2>1, Zenon DEF SubmitMark, Finish, Statement
  <2>2. CASE ApproveMark(k)
    BY <1>2, <2>2, Zenon DEF ApproveMark, Finish, Statement
  <2>3. CASE PostMark(k)
    BY <1>2, <2>3, Zenon DEF PostMark, Finish, Statement
  <2>4. CASE SettleMark(k)
    BY <1>2, <2>4, Zenon DEF SettleMark, Finish, Statement
  <2> QED  BY <1>4, <2>1, <2>2, <2>3, <2>4 DEF Mark
<1>5. ASSUME row' = row  PROVE Statement(row[c], row'[c])
  BY <1>5 DEF Statement
<1>6. ASSUME NEW k \in Calls, \/ \E e \in Claims : Read(k, e)
                              \/ Ask(k) \/ Abort(k)
      PROVE  row' = row
  BY <1>6 DEF Read, SubmitRead, ApproveRead, PostRead, SettleRead, Start, Ask,
              SubmitFile, ApproveStatus, PostSink, SettlePay, Abort
<1>7. ASSUME \/ \E q \in Requests : Decide(q)
             \/ SetApprovals \/ Restart \/ UNCHANGED vars
      PROVE  row' = row
  BY <1>7 DEF Decide, SetApprovals, Restart, vars
<1> QED
  BY <1>3, <1>4, <1>5, <1>6, <1>7 DEF Next

\* What a statement leaves of a row that was decided, or submitted: the
\* receipt and the decision; the link.
LEMMA StatementKeeps ==
    ASSUME NEW r \in Row, NEW n, Statement(r, n)
    PROVE  /\ r.approval \in {"approved", "refused"} =>
                n.receipt = r.receipt /\ n.approval = r.approval
           /\ n.approval \in {"submitted", "approved", "refused"} =>
                \/ /\ r.approval \in {"submitted", "approved", "refused"}
                   /\ n.link = r.link
                \/ \E k \in Calls : /\ call[k].pc = "mark_submitted"
                                    /\ n.link = call[k].link
<1> USE DEF At, Row
<1>1. CASE n = r  BY <1>1
<1>2. CASE r = NoRow /\ \E f, d, m, file : n = insert_expense(f, d, m, file)
  BY <1>2 DEF insert_expense, NoRow
<1>3. CASE \E f, d, m : n = update_expense(r, f, d, m)
  BY <1>3 DEF update_expense
<1>4. CASE \E k \in Calls :
             /\ call[k].pc = "mark_submitted"
             /\ n = mark_submitted(r, call[k].link, call[k].seen.filed)
  BY <1>4 DEF mark_submitted
<1>5. CASE n = mark_approved(r)  BY <1>5 DEF mark_approved
<1>6. CASE n = mark_refused(r)  BY <1>6 DEF mark_refused
<1>7. CASE \E co : n = mark_posted(r, co)  BY <1>7 DEF mark_posted
<1>8. CASE \E p : n = mark_settled(r, p)  BY <1>8 DEF mark_settled
<1>9. CASE \E file : n = set_receipt(r, file)  BY <1>9 DEF set_receipt
<1>10. CASE n = soft_delete(r)  BY <1>10 DEF soft_delete
<1>11. CASE n = restore(r)  BY <1>11 DEF restore
<1> HIDE DEF At, Row
<1> QED
  BY <1>1, <1>2, <1>3, <1>4, <1>5, <1>6, <1>7, <1>8, <1>9, <1>10, <1>11
     DEF Statement

\* From the decision on neither the receipt nor the decision changes, by no
\* verb, late call or generic route.
THEOREM EvidenceStands == Spec => EvidenceFixed
<1>1. ASSUME IInv, [Next]_vars, NEW c \in Claims,
             row[c].approval \in {"approved", "refused"}
      PROVE  row'[c].receipt = row[c].receipt /\ row'[c].approval = row[c].approval
  <2>1. row[c] \in Row
    BY <1>1 DEF IInv, TypeOK
  <2> QED  BY <1>1, <2>1, StepIsStatement, StatementKeeps
<1>2. IInv /\ [Next]_vars =>
        [\A c \in Claims :
           row[c].approval \in {"approved", "refused"} =>
             /\ row'[c].receipt = row[c].receipt
             /\ row'[c].approval = row[c].approval]_row
  BY <1>1
<1> QED  BY <1>2, Invariance, PTL DEF Spec, EvidenceFixed

\* Where no deployment starts without the approvals port, the port stays, a
\* call that is about to submit holds a link, and so does what was submitted.
Filing == /\ wired.approvals
          /\ \A k \in Calls : call[k].pc = "mark_submitted" => call[k].link # None
          /\ \A c \in Claims :
               row[c].approval \in {"submitted", "approved", "refused"} =>
                 row[c].link # None

\* No step gives a call that is about to submit an empty link.
LEMMA CallsHoldLinks ==
    ASSUME IInv, [Next]_vars, Filing, NEW k \in Calls,
           call'[k].pc = "mark_submitted"
    PROVE  call'[k].link # None
<1> USE DEF Filing
<1>1. call \in [Calls -> Call]
  BY DEF IInv, TypeOK
<1>2. CASE call'[k] = call[k]
  BY <1>2
<1>3. ASSUME call'[k] = Idle  PROVE FALSE
  BY <1>3 DEF Idle
<1>4. ASSUME NEW j \in Calls, NEW c \in Claims, Read(j, c)
      PROVE  call'[k] = call[k] \/ call'[k].pc # "mark_submitted"
  <2>1. PICK pc \in {"file", "status", "mark_approved", "gl_post", "reimburse"} :
          Start(j, c, pc)
    BY <1>4 DEF Read, SubmitRead, ApproveRead, PostRead, SettleRead
  <2> QED  BY <1>1, <2>1 DEF Start, Idle
<1>5. ASSUME NEW j \in Calls, Ask(j)
      PROVE  call'[k] = call[k] \/ call'[k].link # None
  <2>1. CASE SubmitFile(j)
    <3>1. PICK q \in Requests :
            call' = [call EXCEPT ![j].pc = "mark_submitted", ![j].link = q]
      BY <2>1 DEF SubmitFile, Answers
    <3>2. q # None
      BY NoneIsNothing
    <3> QED  BY <1>1, <3>1, <3>2 DEF Call
  <2>2. CASE ApproveStatus(j) \/ PostSink(j) \/ SettlePay(j)
    <3>1. \/ call'[k] = call[k]
          \/ call'[k].pc \in {"mark_approved", "mark_posted", "mark_settled"}
      BY <1>1, <2>2 DEF ApproveStatus, PostSink, SettlePay, Call
    <3> QED  BY <3>1
  <2> QED  BY <1>5, <2>1, <2>2 DEF Ask
<1>6. ASSUME NEW j \in Calls, Mark(j) \/ Abort(j)
      PROVE  call'[k] \in {call[k], Idle}
  BY <1>1, <1>6 DEF Mark, SubmitMark, ApproveMark, PostMark, SettleMark,
                    Finish, Abort
<1>7. ASSUME \/ \E c \in Claims : Verb(c)
             \/ \E q \in Requests : Decide(q)
             \/ SetApprovals \/ UNCHANGED vars
      PROVE  call' = call
  BY <1>7 DEF Verb, CreateExpense, UpdateExpense, RefuseExpense, SetReceipt,
              CrudDelete, CrudRestore, Write, Decide, SetApprovals, vars
<1>8. CASE Restart
  BY <1>3, <1>8 DEF Restart
<1> HIDE DEF Filing
<1>9. Filing /\ call'[k].pc = "mark_submitted"
  OBVIOUS
<1> QED
  BY <1>2, <1>3, <1>4, <1>5, <1>6, <1>7, <1>8, <1>9 DEF Next

\* In a composed deployment no claim gets past draft without a filing.
THEOREM NoneUntracked == Spec => []Tracked
<1> DEFINE Composed == \A w \in Wirings : w.approvals
<1>1. ASSUME Composed, Init  PROVE Filing
  <2>1. wired.approvals
    BY <1>1 DEF Init
  <2>2. \A k \in Calls : call[k].pc # "mark_submitted"
    BY <1>1 DEF Init, Idle
  <2>3. \A c \in Claims : row[c].approval = "absent"
    BY <1>1 DEF Init, NoRow
  <2> QED  BY <2>1, <2>2, <2>3 DEF Filing
<1>2. ASSUME Composed, IInv, [Next]_vars, Filing  PROVE Filing'
  <2>1. wired'.approvals
    <3>1. wired' = wired \/ SetApprovals \/ wired' \in Wirings
      BY <1>2 DEF Next, Verb, CreateExpense, UpdateExpense, RefuseExpense,
         SetReceipt, CrudDelete, CrudRestore, Write, Read, SubmitRead,
         ApproveRead, PostRead, SettleRead, Start, Ask, SubmitFile,
         ApproveStatus, PostSink, SettlePay, Mark, SubmitMark, ApproveMark,
         PostMark, SettleMark, Finish, Abort, Decide, Restart, vars
    <3>2. wired \in [approvals : BOOLEAN, gl : BOOLEAN, pay : BOOLEAN]
      BY <1>2 DEF IInv, TypeOK
    <3>3. SetApprovals => wired'.approvals
      BY <3>2 DEF SetApprovals
    <3> QED  BY <1>2, <3>1, <3>3 DEF Filing
  <2>2. ASSUME NEW k \in Calls, call'[k].pc = "mark_submitted"
        PROVE  call'[k].link # None
    BY <1>2, <2>2, CallsHoldLinks
  <2>3. ASSUME NEW c \in Claims,
               row'[c].approval \in {"submitted", "approved", "refused"}
        PROVE  row'[c].link # None
    <3>1. row[c] \in Row
      BY <1>2 DEF IInv, TypeOK
    <3>2. Statement(row[c], row'[c])
      BY <1>2, StepIsStatement
    <3>3. \/ /\ row[c].approval \in {"submitted", "approved", "refused"}
             /\ row'[c].link = row[c].link
          \/ \E k \in Calls : /\ call[k].pc = "mark_submitted"
                              /\ row'[c].link = call[k].link
      BY <2>3, <3>1, <3>2, StatementKeeps
    <3> QED  BY <1>2, <3>3 DEF Filing
  <2> QED  BY <2>1, <2>2, <2>3 DEF Filing
<1>3. Filing => Tracked
  BY DEF Filing, Tracked
<1>4. ~Composed => Tracked
  BY DEF Tracked
<1>5. CASE Composed
  <2>1. Init => Filing
    BY <1>1, <1>5
  <2>2. IInv /\ [Next]_vars /\ Filing => Filing'
    BY <1>2, <1>5
  <2> QED  BY <2>1, <2>2, <1>3, Invariance, PTL DEF Spec
<1>6. CASE ~Composed
  <2>1. Tracked
    BY <1>4, <1>6
  <2> QED  BY <2>1, PTL
<1> QED  BY <1>5, <1>6

-----------------------------------------------------------------------------
(***************************************************************************)
(* ClaimVerbs implements ClaimLifecycle, for all values of its constants.  *)
(* A statement on a row is a step of the lifecycle or none; the seams that *)
(* keep books are its Enter and Pay; everything else stutters.  That the   *)
(* books say what the rows say, which the guards of Enter, Post, Pay and   *)
(* Settle take, is in the inductive invariant above.                       *)
(***************************************************************************)

\* The refinement mapping, as ClaimVerbs has it.
Life == [c \in Claims |-> row[c].state]
Contents == [c \in Claims |-> Content(row[c])]
Entries == [c \in Claims |-> {Content(e) : e \in {b \in booked : b.claim = c}}]
Payouts == [c \in Claims |-> {[filed |-> p.filed, mode |-> "own_account"] :
                                p \in {b \in paid : b.claim = c}}]

Stutter == UNCHANGED <<Life, Contents, Entries, Payouts>>

\* The lifecycle in terms of the mapping.
LEMMA Mapped ==
    ASSUME NEW c \in Claims
    PROVE  /\ Stutter => UNCHANGED Lifecycle!vars
           /\ /\ Life[c] \in {"absent", "draft"}
              /\ Life' = [Life EXCEPT ![c] = "draft"]
              /\ \E x \in [filed : Filed, mode : Modes] :
                   Contents' = [Contents EXCEPT ![c] = x]
              /\ UNCHANGED <<Entries, Payouts>>
              => Lifecycle!Next
           /\ \A from, to :
                /\ \/ from = "draft" /\ to = "submitted"
                   \/ from = "submitted" /\ to \in {"approved", "refused"}
                   \/ /\ from = "approved" /\ to = "posted"
                      /\ Entries[c] = {Contents[c]}
                   \/ /\ from = "posted" /\ to = "done"
                      /\ Payouts[c] = {Contents[c]}
                /\ Life[c] = from
                /\ Life' = [Life EXCEPT ![c] = to]
                /\ UNCHANGED <<Contents, Entries, Payouts>>
                => Lifecycle!Next
           /\ /\ Life[c] \in {"approved", "posted", "done"}
              /\ Entries' = [Entries EXCEPT ![c] = Entries[c] \cup {Contents[c]}]
              /\ UNCHANGED <<Life, Contents, Payouts>>
              => Lifecycle!Next
           /\ /\ Life[c] \in {"posted", "done"}
              /\ Contents[c].mode = "own_account"
              /\ Payouts' = [Payouts EXCEPT ![c] = Payouts[c] \cup {Contents[c]}]
              /\ UNCHANGED <<Life, Contents, Entries>>
              => Lifecycle!Next
<1> USE DEF Life, Contents, Entries, Payouts
<1>1. Stutter => UNCHANGED Lifecycle!vars
  BY DEF Stutter, Lifecycle!vars
<1>2. /\ Life[c] \in {"absent", "draft"}
      /\ Life' = [Life EXCEPT ![c] = "draft"]
      /\ \E x \in [filed : Filed, mode : Modes] :
           Contents' = [Contents EXCEPT ![c] = x]
      /\ UNCHANGED <<Entries, Payouts>>
      => Lifecycle!Next
  BY Zenon DEF Lifecycle!Next, Lifecycle!Draft
<1>3. ASSUME NEW from, NEW to,
             \/ from = "draft" /\ to = "submitted"
             \/ from = "submitted" /\ to \in {"approved", "refused"}
             \/ /\ from = "approved" /\ to = "posted"
                /\ Entries[c] = {Contents[c]}
             \/ /\ from = "posted" /\ to = "done"
                /\ Payouts[c] = {Contents[c]},
             Life[c] = from,
             Life' = [Life EXCEPT ![c] = to],
             UNCHANGED <<Contents, Entries, Payouts>>
      PROVE  Lifecycle!Next
  <2>1. Lifecycle!Advance(c, from, to)
    BY <1>3, Zenon DEF Lifecycle!Advance
  <2>2. CASE from = "draft" /\ to = "submitted"
    BY <2>1, <2>2, Zenon DEF Lifecycle!Next, Lifecycle!Submit
  <2>3. CASE from = "submitted" /\ to = "approved"
    BY <2>1, <2>3, Zenon DEF Lifecycle!Next, Lifecycle!Approve
  <2>4. CASE from = "submitted" /\ to = "refused"
    BY <2>1, <2>4, Zenon DEF Lifecycle!Next, Lifecycle!Refuse
  <2>5. CASE from = "approved" /\ to = "posted" /\ Entries[c] = {Contents[c]}
    BY <2>1, <2>5, Zenon DEF Lifecycle!Next, Lifecycle!Post
  <2>6. CASE from = "posted" /\ to = "done" /\ Payouts[c] = {Contents[c]}
    BY <2>1, <2>6, Zenon DEF Lifecycle!Next, Lifecycle!Settle
  <2> QED  BY <1>3, <2>2, <2>3, <2>4, <2>5, <2>6, Zenon
<1>4. /\ Life[c] \in {"approved", "posted", "done"}
      /\ Entries' = [Entries EXCEPT ![c] = Entries[c] \cup {Contents[c]}]
      /\ UNCHANGED <<Life, Contents, Payouts>>
      => Lifecycle!Next
  BY Zenon DEF Lifecycle!Next, Lifecycle!Enter
<1>5. /\ Life[c] \in {"posted", "done"}
      /\ Contents[c].mode = "own_account"
      /\ Payouts' = [Payouts EXCEPT ![c] = Payouts[c] \cup {Contents[c]}]
      /\ UNCHANGED <<Life, Contents, Entries>>
      => Lifecycle!Next
  BY Zenon DEF Lifecycle!Next, Lifecycle!Pay
<1> HIDE DEF Life, Contents, Entries, Payouts
<1> QED  BY <1>1, <1>2, <1>3, <1>4, <1>5, Zenon

\* A write of one row is seen in its state and its contents, and in no books.
LEMMA RowMoves ==
    ASSUME IInv, NEW c \in Claims, NEW n, row' = [row EXCEPT ![c] = n],
           booked' = booked, paid' = paid
    PROVE  /\ Life' = [Life EXCEPT ![c] = n.state]
           /\ Contents' = [Contents EXCEPT ![c] = Content(n)]
           /\ UNCHANGED <<Entries, Payouts>>
           /\ n.state = row[c].state => Life' = Life
           /\ Content(n) = Content(row[c]) => Contents' = Contents
<1>1. row \in [Claims -> Row]
  BY DEF IInv, TypeOK
<1> QED  BY <1>1 DEF Life, Contents, Entries, Payouts, Content

\* A statement is a step of the lifecycle or none, given the entry a post
\* was acknowledged with and the payment of a settle.
LEMMA StatementSteps ==
    ASSUME IInv, NEW c \in Claims, NEW n, row' = [row EXCEPT ![c] = n],
           booked' = booked, paid' = paid,
           \/ row[c] = NoRow /\ \E f \in Filed, d \in Descs, m \in Modes,
                file \in Files \cup {None} : n = insert_expense(f, d, m, file)
           \/ \E f \in Filed, d \in Descs, m \in Modes :
                n = update_expense(row[c], f, d, m)
           \/ \E q, g : n = mark_submitted(row[c], q, g)
           \/ n \in {mark_approved(row[c]), mark_refused(row[c])}
           \/ (\E co : n = mark_posted(row[c], co)) /\ Entries[c] = {Contents[c]}
           \/ (\E p : n = mark_settled(row[c], p)) /\ Payouts[c] = {Contents[c]}
           \/ \E file : n = set_receipt(row[c], file)
           \/ n \in {soft_delete(row[c]), restore(row[c])}
    PROVE  Stutter \/ Lifecycle!Next
<1> DEFINE r == row[c]
<1>1. r \in Row /\ Life[c] = r.state
  BY DEF IInv, TypeOK, Life
<1>2. ASSUME n.state = r.state, n.filed = r.filed, n.mode = r.mode  PROVE Stutter
  BY <1>2, RowMoves DEF Stutter, Content
<1>3. ASSUME r.state \in {"absent", "draft"}, n.state = "draft",
             n.filed \in Filed, n.mode \in Modes
      PROVE  Lifecycle!Next
  <2>1. Content(n) \in [filed : Filed, mode : Modes]
    BY <1>3 DEF Content
  <2>2. /\ Life' = [Life EXCEPT ![c] = "draft"]
        /\ Contents' = [Contents EXCEPT ![c] = Content(n)]
        /\ UNCHANGED <<Entries, Payouts>>
    BY <1>3, RowMoves
  <2>3. Life[c] \in {"absent", "draft"}
    BY <1>1, <1>3
  <2>4. \E x \in [filed : Filed, mode : Modes] :
          Contents' = [Contents EXCEPT ![c] = x]
    BY <2>1, <2>2
  <2> QED  BY <2>2, <2>3, <2>4, Mapped, Zenon
<1>4. ASSUME n.filed = r.filed, n.mode = r.mode,
             \/ r.state = "draft" /\ n.state = "submitted"
             \/ r.state = "submitted" /\ n.state \in {"approved", "refused"}
             \/ /\ r.state = "approved" /\ n.state = "posted"
                /\ Entries[c] = {Contents[c]}
             \/ /\ r.state = "posted" /\ n.state = "done"
                /\ Payouts[c] = {Contents[c]}
      PROVE  Lifecycle!Next
  <2>1. Content(n) = Content(r)
    BY <1>4 DEF Content
  <2>2. /\ Life' = [Life EXCEPT ![c] = n.state]
        /\ UNCHANGED <<Contents, Entries, Payouts>>
    BY <2>1, RowMoves
  <2> QED  BY <1>1, <1>4, <2>2, Mapped
<1>5. CASE r = NoRow /\ \E f \in Filed, d \in Descs, m \in Modes,
                           file \in Files \cup {None} : n = insert_expense(f, d, m, file)
  <2>1. r.state = "absent"
    BY <1>5 DEF NoRow
  <2>2. n.state = "draft" /\ n.filed \in Filed /\ n.mode \in Modes
    BY <1>5 DEF insert_expense, NoRow
  <2> QED  BY <1>3, <2>1, <2>2
<1>6. CASE \E f \in Filed, d \in Descs, m \in Modes : n = update_expense(r, f, d, m)
  <2>1. \/ n = r
        \/ /\ r.state = "draft" /\ n.state = "draft"
           /\ n.filed \in Filed /\ n.mode \in Modes
    BY <1>1, <1>6 DEF update_expense, At, Row
  <2> QED  BY <1>2, <1>3, <2>1
<1>7. CASE \E q, g : n = mark_submitted(r, q, g)
  <2>1. \/ n = r
        \/ /\ r.state = "draft" /\ n.state = "submitted"
           /\ n.filed = r.filed /\ n.mode = r.mode
    BY <1>1, <1>7 DEF mark_submitted, At, Row
  <2> QED  BY <1>2, <1>4, <2>1
<1>8. CASE n \in {mark_approved(r), mark_refused(r)}
  <2>1. \/ n = r
        \/ /\ r.state = "submitted" /\ n.state \in {"approved", "refused"}
           /\ n.filed = r.filed /\ n.mode = r.mode
    BY <1>1, <1>8 DEF mark_approved, mark_refused, At, Row
  <2> QED  BY <1>2, <1>4, <2>1
<1>9. CASE (\E co : n = mark_posted(r, co)) /\ Entries[c] = {Contents[c]}
  <2>1. \/ n = r
        \/ /\ r.state = "approved" /\ n.state = "posted"
           /\ n.filed = r.filed /\ n.mode = r.mode
    BY <1>1, <1>9 DEF mark_posted, At, Row
  <2> QED  BY <1>2, <1>4, <1>9, <2>1
<1>10. CASE (\E p : n = mark_settled(r, p)) /\ Payouts[c] = {Contents[c]}
  <2>1. \/ n = r
        \/ /\ r.state = "posted" /\ n.state = "done"
           /\ n.filed = r.filed /\ n.mode = r.mode
    BY <1>1, <1>10 DEF mark_settled, Row
  <2> QED  BY <1>2, <1>4, <1>10, <2>1
<1>11. CASE (\E file : n = set_receipt(r, file))
            \/ n \in {soft_delete(r), restore(r)}
  <2>1. n.state = r.state /\ n.filed = r.filed /\ n.mode = r.mode
    BY <1>1, <1>11 DEF set_receipt, soft_delete, restore, Row
  <2> QED  BY <1>2, <2>1
<1> QED
  BY <1>5, <1>6, <1>7, <1>8, <1>9, <1>10, <1>11

\* The verbs of one statement.
LEMMA VerbMaps ==
    ASSUME IInv, NEW c \in Claims, Verb(c)
    PROVE  Stutter \/ Lifecycle!Next
<1>1. ASSUME NEW n, Write(c, n)
      PROVE  row' = [row EXCEPT ![c] = n] /\ booked' = booked /\ paid' = paid
  BY <1>1 DEF Write
<1>2. CASE CreateExpense(c)
  <2>1. PICK f \in Filed, d \in Descs, m \in Modes, file \in Files \cup {None} :
          row[c] = NoRow /\ Write(c, insert_expense(f, d, m, file))
    BY <1>2 DEF CreateExpense
  <2> QED  BY <1>1, <2>1, StatementSteps
<1>3. CASE UpdateExpense(c)
  <2>1. PICK f \in Filed, d \in Descs, m \in Modes :
          Write(c, update_expense(row[c], f, d, m))
    BY <1>3 DEF UpdateExpense
  <2> QED  BY <1>1, <2>1, StatementSteps
<1>4. CASE RefuseExpense(c)
  BY <1>1, <1>4, StatementSteps DEF RefuseExpense
<1>5. CASE SetReceipt(c)
  <2>1. PICK file \in Files \cup {None} : Write(c, set_receipt(row[c], file))
    BY <1>5 DEF SetReceipt
  <2> QED  BY <1>1, <2>1, StatementSteps
<1>6. CASE CrudDelete(c) \/ CrudRestore(c)
  BY <1>1, <1>6, StatementSteps DEF CrudDelete, CrudRestore
<1> QED  BY <1>2, <1>3, <1>4, <1>5, <1>6 DEF Verb

\* What a call in flight knows of its row.
LEMMA Held ==
    ASSUME IInv, NEW k \in Calls, call[k].pc # "idle"
    PROVE  /\ call[k].claim \in Claims
           /\ HeldGood(call[k], row[call[k].claim])
           /\ row[call[k].claim] \in Row
           /\ row[call[k].claim] # NoRow
           /\ LegalPair(row[call[k].claim])
<1>1. call[k] # Idle
  BY DEF Idle
<1>2. HeldGood(call[k], row[call[k].claim])
  BY <1>1 DEF IInv, HeldIsGood
<1>3. call[k].claim \in Claims /\ row[call[k].claim] # NoRow
  BY <1>2 DEF HeldGood
<1> QED  BY <1>2, <1>3 DEF IInv, TypeOK, RowGood

\* An entry acknowledged for a claim is all that the ledger has of it, a
\* payment all that was paid.
LEMMA BooksAreSingle ==
    ASSUME IInv, NEW k \in Calls
    PROVE  LET c == call[k].claim
           IN  /\ call[k].pc = "mark_posted" => Entries[c] = {Contents[c]}
               /\ call[k].pc = "mark_settled" => Payouts[c] = {Contents[c]}
<1> DEFINE c == call[k].claim
           r == row[c]
<1>1. CASE call[k].pc = "mark_posted"
  <2>1. c \in Claims
    BY <1>1, Held
  <2>2. [claim |-> c, company |-> call[k].scope,
         filed |-> r.filed, mode |-> r.mode] \in booked
    BY <1>1, Held DEF HeldGood
  <2>3. \A e \in booked : e.claim = c => Content(e) = Content(r)
    BY DEF IInv, BooksOnlyApproved, Content
  <2>4. \E e \in booked : e.claim = c
    BY <2>2
  <2> QED  BY <1>1, <2>1, <2>3, <2>4 DEF Entries, Contents
<1>2. CASE call[k].pc = "mark_settled"
  <2>1. c \in Claims /\ r.mode = "own_account"
    BY <1>2, Held DEF HeldGood
  <2>2. [id |-> call[k].pay, claim |-> c, filed |-> r.filed] \in paid
    BY <1>2, Held DEF HeldGood
  <2>3. \A p \in paid : p.claim = c =>
          [filed |-> p.filed, mode |-> "own_account"] = Content(r)
    BY <2>1 DEF IInv, PaysOnlyPosted, Content
  <2>4. \E p \in paid : p.claim = c
    BY <2>2
  <2> QED  BY <1>2, <2>1, <2>3, <2>4 DEF Payouts, Contents
<1> QED  BY <1>1, <1>2

\* The writes that end a call.
LEMMA MarkMaps ==
    ASSUME IInv, NEW k \in Calls, Mark(k)
    PROVE  Stutter \/ Lifecycle!Next
<1> DEFINE c == call[k].claim
<1>1. ASSUME NEW n, Finish(k, n)
      PROVE  row' = [row EXCEPT ![c] = n] /\ booked' = booked /\ paid' = paid
  BY <1>1 DEF Finish
<1>2. c \in Claims
  BY Held DEF Mark, SubmitMark, ApproveMark, PostMark, SettleMark
<1>3. CASE SubmitMark(k)
  BY <1>1, <1>2, <1>3, StatementSteps DEF SubmitMark
<1>4. CASE ApproveMark(k)
  BY <1>1, <1>2, <1>4, StatementSteps DEF ApproveMark
<1>5. CASE PostMark(k)
  <2>1. Entries[c] = {Contents[c]}
    BY <1>5, BooksAreSingle DEF PostMark
  <2> QED  BY <1>1, <1>2, <1>5, <2>1, StatementSteps DEF PostMark
<1>6. CASE SettleMark(k)
  <2>1. Payouts[c] = {Contents[c]}
    BY <1>6, BooksAreSingle DEF SettleMark
  <2> QED  BY <1>1, <1>2, <1>6, <2>1, StatementSteps DEF SettleMark
<1> QED  BY <1>3, <1>4, <1>5, <1>6 DEF Mark

\* The seams: two of them write books.
LEMMA AskMaps ==
    ASSUME IInv, NEW k \in Calls, Ask(k)
    PROVE  Stutter \/ Lifecycle!Next
<1> DEFINE c == call[k].claim
           r == row[c]
<1>1. call[k].pc # "idle"
  BY DEF Ask, SubmitFile, ApproveStatus, PostSink, SettlePay
<1>2. /\ c \in Claims /\ r \in Row /\ LegalPair(r)
      /\ HeldGood(call[k], r)
  BY <1>1, Held
<1>3. Life[c] = r.state /\ Contents[c] = Content(r)
  BY <1>2 DEF Life, Contents
<1>4. CASE SubmitFile(k) \/ ApproveStatus(k)
  BY <1>4 DEF SubmitFile, ApproveStatus, Stutter, Life, Contents, Entries, Payouts
<1>5. CASE PostSink(k)
  <2>1. row' = row /\ paid' = paid
    BY <1>5 DEF PostSink
  <2>2. UNCHANGED <<Life, Contents, Payouts>>
    BY <2>1 DEF Life, Contents, Payouts
  <2>3. SameContents(r, call[k].seen)
    BY <1>2, <1>5 DEF PostSink, HeldGood
  <2>4. CASE booked' = booked
    BY <2>2, <2>4 DEF Stutter, Entries
  <2>5. CASE booked' = booked \cup
               {[claim |-> c, company |-> call[k].scope,
                 filed |-> call[k].seen.filed, mode |-> call[k].seen.mode]}
    <3>1. Entries' = [Entries EXCEPT ![c] = Entries[c] \cup {Content(r)}]
      <4> DEFINE e == [claim |-> c, company |-> call[k].scope,
                       filed |-> call[k].seen.filed, mode |-> call[k].seen.mode]
                 Of(b, d) == {Content(x) : x \in {y \in b : y.claim = d}}
      <4>1. e.claim = c /\ Content(e) = Content(r)
        BY <2>3 DEF Content, SameContents
      <4>2. \A d \in Claims :
              Of(booked', d) = IF d = c THEN Of(booked, d) \cup {Content(r)}
                               ELSE Of(booked, d)
        BY <2>5, <4>1
      <4>3. Entries = [d \in Claims |-> Of(booked, d)]
            /\ Entries' = [d \in Claims |-> Of(booked', d)]
        BY DEF Entries
      <4> HIDE DEF Of
      <4> QED  BY <1>2, <4>2, <4>3
    <3>2. r.state \in {"approved", "posted", "done"}
      BY <1>2, <2>3 DEF LegalPair, SameContents
    <3> QED  BY <1>2, <1>3, <2>2, <3>1, <3>2, Mapped
  <2> QED  BY <1>5, <2>4, <2>5 DEF PostSink
<1>6. CASE SettlePay(k)
  <2>1. row' = row /\ booked' = booked
    BY <1>6 DEF SettlePay
  <2>2. UNCHANGED <<Life, Contents, Entries>>
    BY <2>1 DEF Life, Contents, Entries
  <2>3. /\ SameContents(r, call[k].seen)
        /\ r.state \in {"posted", "done"} /\ r.mode = "own_account"
    BY <1>2, <1>6 DEF SettlePay, HeldGood
  <2>4. CASE paid' = paid
    BY <2>2, <2>4 DEF Stutter, Payouts
  <2>5. ASSUME NEW p, paid' = paid \cup {[id |-> p, claim |-> c,
                                          filed |-> call[k].seen.filed]}
        PROVE  Lifecycle!Next
    <3>1. Payouts' = [Payouts EXCEPT ![c] = Payouts[c] \cup {Content(r)}]
      <4> DEFINE e == [id |-> p, claim |-> c, filed |-> call[k].seen.filed]
                 Out(x) == [filed |-> x.filed, mode |-> "own_account"]
                 Of(b, d) == {Out(x) : x \in {y \in b : y.claim = d}}
      <4>1. e.claim = c /\ Out(e) = Content(r)
        BY <2>3 DEF Content, SameContents
      <4>2. \A d \in Claims :
              Of(paid', d) = IF d = c THEN Of(paid, d) \cup {Content(r)}
                             ELSE Of(paid, d)
        BY <2>5, <4>1
      <4>3. Payouts = [d \in Claims |-> Of(paid, d)]
            /\ Payouts' = [d \in Claims |-> Of(paid', d)]
        BY DEF Payouts
      <4> HIDE DEF Of
      <4> QED  BY <1>2, <4>2, <4>3
    <3>2. Content(r).mode = "own_account"
      BY <2>3 DEF Content
    <3> QED  BY <1>2, <1>3, <2>2, <2>3, <3>1, <3>2, Mapped
  <2> QED  BY <1>6, <2>4, <2>5 DEF SettlePay
<1> QED  BY <1>4, <1>5, <1>6 DEF Ask

\* Before the first claim.
LEMMA InitMaps == Init => Lifecycle!Init
<1> SUFFICES ASSUME Init  PROVE Lifecycle!Init
  OBVIOUS
<1>1. row = [c \in Claims |-> NoRow] /\ booked = {} /\ paid = {}
  BY DEF Init
<1>2. Life = [c \in Claims |-> "absent"]
  BY <1>1 DEF Life, NoRow
<1>3. Contents = [c \in Claims |-> Content(NoRow)]
  BY <1>1 DEF Contents
<1>4. Entries = [c \in Claims |-> {}] /\ Payouts = [c \in Claims |-> {}]
  BY <1>1 DEF Entries, Payouts
<1> QED
  BY <1>2, <1>3, <1>4, Zenon DEF Lifecycle!Init, Life, Contents, Entries, Payouts

\* The service, with its seams, races and failures, implements the lifecycle
\* it promises: every step is one of the lifecycle's or stutters.
THEOREM Implements == Spec => ImplementsLifecycle
<1>1. ASSUME IInv, [Next]_vars
      PROVE  Stutter \/ Lifecycle!Next
  <2>1. ASSUME row' = row, booked' = booked, paid' = paid  PROVE Stutter
    BY <2>1 DEF Stutter, Life, Contents, Entries, Payouts
  <2>2. ASSUME NEW c \in Claims, Verb(c)  PROVE Stutter \/ Lifecycle!Next
    BY <1>1, <2>2, VerbMaps
  <2>3. ASSUME NEW k \in Calls, Ask(k) \/ Mark(k)
        PROVE  Stutter \/ Lifecycle!Next
    BY <1>1, <2>3, AskMaps, MarkMaps
  <2>4. ASSUME \/ \E k \in Calls : Abort(k) \/ \E c \in Claims : Read(k, c)
               \/ \E q \in Requests : Decide(q)
               \/ SetApprovals \/ Restart \/ UNCHANGED vars
        PROVE  row' = row /\ booked' = booked /\ paid' = paid
    BY <2>4 DEF Read, SubmitRead, ApproveRead, PostRead, SettleRead, Start,
                Abort, Decide, SetApprovals, Restart, vars
  <2> QED  BY <1>1, <2>1, <2>2, <2>3, <2>4 DEF Next
<1>2. CASE Claims = {}
  <2>1. ASSUME IInv, [Next]_vars  PROVE Stutter
    BY <1>2 DEF Stutter, Life, Contents, Entries, Payouts
  <2>2. Stutter => UNCHANGED Lifecycle!vars
    BY DEF Stutter, Lifecycle!vars, Life, Contents, Entries, Payouts
  <2>3. IInv /\ [Next]_vars => [Lifecycle!Next]_(Lifecycle!vars)
    BY <2>1, <2>2
  <2> QED
    BY <2>3, InitMaps, Invariance, PTL DEF Spec, ImplementsLifecycle, Lifecycle!Spec
<1>3. CASE Claims # {}
  <2>1. IInv /\ [Next]_vars => [Lifecycle!Next]_(Lifecycle!vars)
    BY <1>1, <1>3, Mapped
  <2> QED
    BY <2>1, InitMaps, Invariance, PTL DEF Spec, ImplementsLifecycle, Lifecycle!Spec
<1> QED  BY <1>2, <1>3
===============================================================================
