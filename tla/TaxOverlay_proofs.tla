--------------------------- MODULE TaxOverlay_proofs ---------------------------
(***************************************************************************)
(* The overlay, for any writers, lines and amounts: a replace is all or    *)
(* nothing, the guards of its statements freeze the overlay at submit      *)
(* where they can, and there what is paid is what was booked.  For these    *)
(* the sums are taken as they are, functions of the overlay.  That they    *)
(* are amounts, and the net that is booked no negative one, comes next.    *)
(*                                                                         *)
(* Then the envelope, for any amounts, texts of bases and number of rows.  *)
(* The inductive invariant ties the two sums of the loop to the rows read  *)
(* so far, and the lines to those sums; what settle computes is the first  *)
(* pair of sums once every row is read.                                    *)
(*                                                                         *)
(* Last, the two together: TaxOverlay takes for the net of an overlay what *)
(* GlEnvelope builds of its rows.                                          *)
(***************************************************************************)
EXTENDS TaxOverlay, GlEnvelope, Sums

\* The rows of one call among some.
Group(rows, w) == {r \in rows : r.by = w}

\* All of its lines or none; none before it was accepted.
Whole(rows, w) ==
    /\ Group(rows, w) \in {{}, RowsOf(w, tx[w].asked)}
    /\ tx[w].pc # "accepted" => Group(rows, w) = {}

Groups ==
    /\ overlay \subseteq TaxRow
    /\ tx \in [Writers -> Replace]
    /\ \A w \in Writers : Whole(overlay, w)
    /\ \A v, w \in Writers : Whole(tx[v].seen, w) /\ Whole(tx[v].deleted, w)
    /\ \A w \in Writers : tx[w].pc = "commit" => tx[w].inserted = tx[w].asked

\* What a prompt replace has written it wrote of a draft.
PromptDraft ==
    prompt => \A w \in Writers :
                /\ /\ Written(tx[w]) \/ tx[w].pc = "commit"
                   /\ tx[w].asked # {}
                   => state = "draft"
                /\ tx[w].inserted \subseteq tx[w].tried
                /\ tx[w].pc \in {"read", "find", "delete"} =>
                     tx[w].tried = {}

\* Guarded, without the calls that may still fail: this is never regained.
Sealed ==
    prompt /\ \A w \in Writers : tx[w].pc = "accepted" => tx[w].asked # {}

\* Every amount in hand or in the books is of the overlay as it stands.
AmountsHeld ==
    /\ state = "draft" => /\ post.pc = "idle" /\ settle.pc = "idle"
                          /\ booked = Nothing /\ paid = {}
    /\ post.pc \in {"sink", "mark"} => post.net = EnvelopeNet(overlay)
    /\ settle.pc \in {"sink", "mark"} => settle.net = SettleAmount(overlay)
    /\ booked # Nothing => booked = EnvelopeNet(overlay)
    /\ paid \subseteq {SettleAmount(overlay)}

IInv == Groups /\ PromptDraft /\ (Sealed => AmountsHeld)

-----------------------------------------------------------------------------

LEMMA Initially == Init => IInv
  BY DEF Init, IInv, Groups, Whole, Group, Replace, Fresh, PromptDraft,
         Written, AmountsHeld, Idle

\* A statement of w leaves the overlay; what it does to w's own record.
LEMMA RanKeeps ==
    ASSUME Groups, NEW w \in Writers, NEW t \in Replace,
           tx' = [tx EXCEPT ![w] = t], overlay' = overlay,
           tx[w].pc # "accepted", t.pc # "accepted",
           t.pc = "commit" => t.inserted = t.asked,
           \A v \in Writers : Whole(t.seen, v) /\ Whole(t.deleted, v)
    PROVE  Groups'
<1>1. /\ tx'[w] = t
      /\ \A v \in Writers \ {w} : tx'[v] = tx[v]
  BY DEF Groups
<1>2. \A rows : \A v \in Writers : Whole(rows, v) => Whole(rows, v)'
  BY <1>1 DEF Whole, Group
<1>3. tx' \in [Writers -> Replace]
  BY DEF Groups
<1>4. \A v \in Writers : Whole(overlay, v)'
  BY <1>2 DEF Groups
<1>5. \A u, v \in Writers : Whole(tx[u].seen, v)' /\ Whole(tx[u].deleted, v)'
  BY <1>1, <1>2 DEF Groups
<1>6. \A v \in Writers : tx'[v].pc = "commit" => tx'[v].inserted = tx'[v].asked
  BY <1>1 DEF Groups
<1> QED  BY <1>3, <1>4, <1>5, <1>6 DEF Groups

LEMMA StatementGroups ==
    ASSUME Groups, NEW w \in Writers,
           \/ ReplaceRead(w) \/ ReplaceFind(w) \/ ReplaceDelete(w)
           \/ ReplaceInsert(w) \/ ReplaceReread(w) \/ ReplaceRollback(w)
    PROVE  Groups'
<1>1. /\ tx[w] \in Replace /\ overlay \in SUBSET TaxRow
      /\ \A v \in Writers : /\ Whole(overlay, v) /\ Whole({}, v)
                            /\ Whole(tx[w].seen, v) /\ Whole(tx[w].deleted, v)
  BY DEF Groups, Whole, Group
<1>2. CASE ReplaceRead(w)
  <2>1. PICK asked \in Lists :
          Ran(w, [tx[w] EXCEPT !.pc = "find", !.asked = asked])
    BY <1>2 DEF ReplaceRead
  <2> DEFINE t == [tx[w] EXCEPT !.pc = "find", !.asked = asked]
  <2>2. t \in Replace /\ t.seen = tx[w].seen /\ t.deleted = tx[w].deleted
        /\ t.pc = "find"
    BY <1>1, ListsOK DEF Replace
  <2>3. tx[w].pc # "accepted"
    BY <1>2 DEF ReplaceRead
  <2> HIDE DEF t
  <2>4. Ran(w, t)
    BY <2>1 DEF t
  <2> QED  BY <1>1, <2>2, <2>3, <2>4, RanKeeps DEF Ran
<1>3. CASE ReplaceFind(w)
  <2> DEFINE rows == IF DraftParent THEN overlay ELSE {}
             t == [tx[w] EXCEPT !.pc = "delete", !.seen = rows]
  <2>1. Ran(w, t) /\ tx[w].pc # "accepted"
    BY <1>3 DEF ReplaceFind
  <2>2. t \in Replace /\ t.seen = rows /\ t.deleted = tx[w].deleted
        /\ t.pc = "delete"
    BY <1>1 DEF Replace
  <2>3. \A v \in Writers : Whole(rows, v)
    BY <1>1
  <2> HIDE DEF t, rows
  <2> QED  BY <1>1, <2>1, <2>2, <2>3, RanKeeps DEF Ran
<1>4. CASE ReplaceDelete(w)
  <2> DEFINE rows == tx[w].seen \cap overlay
             t == [tx[w] EXCEPT !.pc = "insert", !.deleted = rows]
  <2>1. Ran(w, t) /\ tx[w].pc # "accepted"
    BY <1>4 DEF ReplaceDelete
  <2>2. t \in Replace /\ t.seen = tx[w].seen /\ t.deleted = rows
        /\ t.pc = "insert"
    BY <1>1 DEF Replace
  <2>3. \A v \in Writers : Whole(rows, v)
    <3>1. \A v \in Writers :
            Group(rows, v) = Group(tx[w].seen, v) \cap Group(overlay, v)
      BY DEF Group
    <3> HIDE DEF rows
    <3> QED  BY <1>1, <3>1 DEF Whole
  <2> HIDE DEF t, rows
  <2> QED  BY <1>1, <2>1, <2>2, <2>3, RanKeeps DEF Ran
<1>5. CASE ReplaceInsert(w)
  <2>1. PICK l \in tx[w].asked \ tx[w].tried :
          Ran(w, [tx[w] EXCEPT !.tried = tx[w].tried \cup {l},
                               !.inserted = IF DraftParent
                                            THEN tx[w].inserted \cup {l}
                                            ELSE tx[w].inserted])
    BY <1>5 DEF ReplaceInsert
  <2> DEFINE inserted == IF DraftParent THEN tx[w].inserted \cup {l}
                         ELSE tx[w].inserted
             tried == tx[w].tried \cup {l}
             t == [tx[w] EXCEPT !.tried = tried, !.inserted = inserted]
  <2>2. inserted \in SUBSET Lines /\ tried \in SUBSET Lines
    BY <1>1 DEF Replace
  <2>3. Ran(w, t) /\ tx[w].pc = "insert"
    BY <1>5, <2>1 DEF ReplaceInsert
  <2> HIDE DEF inserted, tried
  <2>4. t \in Replace /\ t.seen = tx[w].seen /\ t.deleted = tx[w].deleted
        /\ t.pc = "insert"
    BY <1>1, <2>2, <2>3 DEF Replace
  <2> HIDE DEF t
  <2> QED  BY <1>1, <2>3, <2>4, RanKeeps DEF Ran
<1>6. CASE ReplaceRollback(w)
  <2> DEFINE t == [Fresh EXCEPT !.pc = "failed"]
  <2>1. Ran(w, t) /\ tx[w].pc # "accepted"
    BY <1>6 DEF ReplaceRollback
  <2>2. t \in Replace /\ t.seen = {} /\ t.deleted = {} /\ t.pc = "failed"
    BY DEF Fresh, Replace
  <2> HIDE DEF t
  <2> QED  BY <1>1, <2>1, <2>2, RanKeeps DEF Ran
<1>7. CASE ReplaceReread(w)
  <2> DEFINE t == [tx[w] EXCEPT !.pc = "commit"]
  <2>1. Ran(w, t) /\ Written(tx[w])
    BY <1>7 DEF ReplaceReread
  <2>2. t \in Replace /\ t.seen = tx[w].seen /\ t.deleted = tx[w].deleted
        /\ t.pc = "commit" /\ t.inserted = t.asked
    BY <1>1, <2>1 DEF Replace, Written
  <2> HIDE DEF t
  <2> QED  BY <1>1, <2>1, <2>2, RanKeeps DEF Ran, Written
<1> QED  BY <1>2, <1>3, <1>4, <1>5, <1>6, <1>7

LEMMA CommitGroups ==
    ASSUME Groups, NEW w \in Writers, ReplaceCommit(w)
    PROVE  Groups'
<1>1. /\ tx[w] \in Replace /\ tx[w].pc = "commit"
      /\ tx[w].inserted = tx[w].asked
      /\ overlay' = (overlay \ tx[w].deleted) \cup RowsOf(w, tx[w].asked)
      /\ tx' = [tx EXCEPT ![w].pc = "accepted"]
  BY DEF ReplaceCommit, Groups
<1>2. /\ tx'[w].asked = tx[w].asked /\ tx'[w].pc = "accepted"
      /\ \A v \in Writers \ {w} : tx'[v] = tx[v]
      /\ \A v \in Writers : tx'[v].seen = tx[v].seen
                            /\ tx'[v].deleted = tx[v].deleted
      /\ tx' \in [Writers -> Replace]
  BY <1>1 DEF Groups, Replace
<1>3. \A rows : \A v \in Writers : Whole(rows, v) => Whole(rows, v)'
  BY <1>1, <1>2 DEF Whole
<1>4. RowsOf(w, tx[w].asked) \subseteq TaxRow
  BY <1>1 DEF RowsOf, TaxRow, Replace
<1>5. ASSUME NEW v \in Writers  PROVE Whole(overlay, v)'
  <2>1. CASE v = w
    <3>1. Group(overlay, w) = {}
      BY <1>1 DEF Groups, Whole
    <3>2. Group(overlay', w) = RowsOf(w, tx[w].asked)
      BY <1>1, <3>1 DEF Group, RowsOf
    <3> QED  BY <1>2, <2>1, <3>2 DEF Whole
  <2>2. CASE v # w
    <3>1. Group(overlay', v) = Group(overlay, v) \ Group(tx[w].deleted, v)
      BY <1>1, <2>2 DEF Group, RowsOf
    <3>2. Whole(overlay, v) /\ Whole(tx[w].deleted, v)
      BY DEF Groups
    <3> QED  BY <1>2, <2>2, <3>1, <3>2 DEF Whole
  <2> QED  BY <2>1, <2>2
<1>6. \A u, v \in Writers : Whole(tx[u].seen, v)' /\ Whole(tx[u].deleted, v)'
  BY <1>2, <1>3 DEF Groups
<1>7. \A v \in Writers : tx'[v].pc = "commit" => tx'[v].inserted = tx'[v].asked
  BY <1>1, <1>2 DEF Groups
<1> QED  BY <1>1, <1>2, <1>4, <1>5, <1>6, <1>7 DEF Groups

LEMMA GroupsKept == Groups /\ [Next]_vars => Groups'
<1> SUFFICES ASSUME Groups, [Next]_vars  PROVE Groups'
  OBVIOUS
<1>1. CASE UNCHANGED <<tx, overlay>>
  BY <1>1 DEF Groups, Whole
<1> QED
  BY <1>1, StatementGroups, CommitGroups
  DEF Next, Statement, Ending, Verb, Submit, Approve, Refuse, Trash, Move,
      PostRead, PostEnvelope, PostSink, PostMark, PostAbort, SettleRead, SettleLines,
      SettlePay, SettleMark, SettleAbort, vars

LEMMA DraftKept == Groups /\ PromptDraft /\ [Next]_vars => PromptDraft'
<1> DEFINE Good(v) ==
             /\ /\ Written(tx[v]) \/ tx[v].pc = "commit"
                /\ tx[v].asked # {}
                => state = "draft"
             /\ tx[v].inserted \subseteq tx[v].tried
             /\ tx[v].pc \in {"read", "find", "delete"} => tx[v].tried = {}
<1> SUFFICES ASSUME Groups, PromptDraft, [Next]_vars, prompt'
             PROVE  \A v \in Writers : Good(v)'
  BY DEF PromptDraft
<1>1. /\ prompt /\ tx \in [Writers -> Replace]
      /\ \A v \in Writers : Good(v)
  BY DEF Next, vars, Groups, PromptDraft
<1>2. CASE UNCHANGED <<tx, state>>
  BY <1>1, <1>2
<1>3. ASSUME NEW w \in Writers, ReplaceCommit(w) \/ ReplaceReread(w)
      PROVE  \A v \in Writers : Good(v)'
  BY <1>1, <1>3 DEF ReplaceCommit, ReplaceReread, Ran, Written, Replace
<1>4. ASSUME MayWait, UNCHANGED tx
      PROVE  \A v \in Writers : Good(v)'
  BY <1>1, <1>4 DEF MayWait
<1>5. ASSUME NEW w \in Writers,
             \/ ReplaceRead(w) \/ ReplaceFind(w) \/ ReplaceDelete(w)
             \/ ReplaceInsert(w) \/ ReplaceRollback(w)
      PROVE  \A v \in Writers : Good(v)'
  <2>1. /\ state' = state
        /\ \A v \in Writers \ {w} : tx'[v] = tx[v]
    BY <1>1, <1>5 DEF ReplaceRead, ReplaceFind, ReplaceDelete, ReplaceInsert,
                      ReplaceRollback, Ran
  <2>2. Good(w)'
    <3>1. CASE ReplaceRead(w) \/ ReplaceFind(w)
      <4>1. /\ tx'[w].pc \in {"find", "delete"}
            /\ tx'[w].tried = tx[w].tried /\ tx'[w].inserted = tx[w].inserted
            /\ tx[w].pc \in {"read", "find"}
        <5>1. CASE ReplaceRead(w)
          BY <1>1, <5>1 DEF ReplaceRead, Ran, Replace
        <5>2. CASE ReplaceFind(w)
          BY <1>1, <5>2 DEF ReplaceFind, Ran, Replace
        <5> QED  BY <3>1, <5>1, <5>2
      <4> QED  BY <1>1, <4>1 DEF Written
    <3>4. CASE ReplaceRollback(w)
      <4>1. tx'[w].pc = "failed" /\ tx'[w].inserted = {}
        BY <1>1, <3>4 DEF ReplaceRollback, Ran, Fresh
      <4> QED  BY <4>1 DEF Written
    <3>2. CASE ReplaceDelete(w)
      BY <1>1, <3>2 DEF ReplaceDelete, Ran, Written, Replace
    <3>3. CASE ReplaceInsert(w)
      BY <1>1, <3>3 DEF ReplaceInsert, Ran, Written, Replace, DraftParent
    <3> QED  BY <1>5, <3>1, <3>2, <3>3, <3>4
  <2> QED  BY <1>1, <2>1, <2>2
<1> QED
  BY <1>2, <1>3, <1>4, <1>5
  DEF Next, Statement, Ending, Verb, Submit, Approve, Refuse, Trash, Move,
      PostRead, PostEnvelope, PostSink, PostMark, PostAbort, SettleRead, SettleLines,
      SettlePay, SettleMark, SettleAbort, vars

-----------------------------------------------------------------------------

\* Settle's reading of a basis agrees with the envelope's on what is stored.
LEMMA SameAmount ==
    overlay \subseteq TaxRow => SettleAmount(overlay) = EnvelopeNet(overlay)
<1> SUFFICES ASSUME overlay \subseteq TaxRow
             PROVE  SettleAmount(overlay) = EnvelopeNet(overlay)
  OBVIOUS
<1>1. {r \in overlay : r.line.basis # "input"}
        = {r \in overlay : r.line.basis = "withholding"}
  BY LinesOK DEF TaxRow, Bases
<1> QED  BY <1>1 DEF SettleAmount, EnvelopeNet, Total

\* A prompt overlay stays as it is once the claim is submitted.
LEMMA FrozenStep ==
    ASSUME Groups, PromptDraft, Sealed', state # "draft", Next
    PROVE  overlay' = overlay
<1>1. ASSUME NEW w \in Writers, ReplaceCommit(w)  PROVE FALSE
  <2>1. tx'[w].pc = "accepted" /\ tx'[w].asked = tx[w].asked
    BY <1>1 DEF ReplaceCommit, Groups, Replace
  <2>2. prompt
    BY DEF Next, Sealed
  <2> QED  BY <1>1, <2>1, <2>2 DEF ReplaceCommit, PromptDraft, Sealed
<1> QED
  BY <1>1
  DEF Next, Statement, Ending, ReplaceRead, ReplaceFind, ReplaceDelete,
      ReplaceInsert, ReplaceReread, ReplaceRollback, Ran, Verb, Submit, Approve, Refuse, Trash, Move,
      PostRead, PostEnvelope, PostSink, PostMark, PostAbort, SettleRead, SettleLines,
      SettlePay, SettleMark, SettleAbort

\* What was accepted without a line stays so: Sealed is never regained.
LEMMA SealedBefore == Groups /\ [Next]_vars /\ Sealed' => Sealed
<1> SUFFICES ASSUME Groups, [Next]_vars, Sealed'  PROVE Sealed
  OBVIOUS
<1> SUFFICES \A w \in Writers : tx[w].pc = "accepted" => tx'[w] = tx[w]
  BY DEF Next, vars, Sealed
<1>1. CASE UNCHANGED tx
  BY <1>1
<1>2. ASSUME NEW w \in Writers,
             \/ ReplaceRead(w) \/ ReplaceFind(w) \/ ReplaceDelete(w)
             \/ ReplaceInsert(w) \/ ReplaceReread(w) \/ ReplaceRollback(w)
             \/ ReplaceCommit(w)
      PROVE  /\ tx[w].pc # "accepted"
             /\ \A v \in Writers \ {w} : tx'[v] = tx[v]
  BY <1>2 DEF ReplaceRead, ReplaceFind, ReplaceDelete, ReplaceInsert,
              ReplaceReread, ReplaceRollback, ReplaceCommit, Written, Ran, Groups
<1> QED
  BY <1>1, <1>2
  DEF Next, Statement, Ending, Verb, Submit, Approve, Refuse, Trash, Move,
      PostRead, PostEnvelope, PostSink, PostMark, PostAbort, SettleRead, SettleLines,
      SettlePay, SettleMark, SettleAbort, vars

\* The verbs compute from the overlay and keep what they computed.
LEMMA VerbAmounts ==
    ASSUME Groups, AmountsHeld, Verb
    PROVE  AmountsHeld'
<1>1. /\ overlay' = overlay
      /\ SettleAmount(overlay)' = SettleAmount(overlay)
      /\ EnvelopeNet(overlay)' = EnvelopeNet(overlay)
  <2>1. overlay' = overlay
    BY DEF Verb, Submit, Approve, Refuse, Trash, Move, PostRead, PostEnvelope,
           PostSink, PostMark, PostAbort, SettleRead, SettleLines, SettlePay,
           SettleMark, SettleAbort
  <2> QED  BY <2>1
<1>2. CASE Submit \/ Approve \/ Refuse \/ Trash
  BY <1>1, <1>2 DEF Submit, Approve, Refuse, Trash, Move, AmountsHeld
<1>3. CASE PostRead
  BY <1>1, <1>3 DEF PostRead, AmountsHeld
<1>4. CASE PostEnvelope
  BY <1>1, <1>4 DEF PostEnvelope, AmountsHeld
<1>5. CASE PostSink
  BY <1>1, <1>5 DEF PostSink, AmountsHeld
<1>6. CASE PostMark \/ PostAbort
  BY <1>1, <1>6 DEF PostMark, PostAbort, AmountsHeld, Idle
<1>7. CASE SettleRead
  BY <1>1, <1>7 DEF SettleRead, AmountsHeld
<1>8. CASE SettleLines
  BY <1>1, <1>8 DEF SettleLines, AmountsHeld
<1>9. CASE SettlePay
  BY <1>1, <1>9 DEF SettlePay, AmountsHeld
<1>10. CASE SettleMark \/ SettleAbort
  BY <1>1, <1>10 DEF SettleMark, SettleAbort, AmountsHeld, Idle
<1> QED
  BY <1>2, <1>3, <1>4, <1>5, <1>6, <1>7, <1>8, <1>9, <1>10 DEF Verb

LEMMA AmountsKept ==
    ASSUME IInv, [Next]_vars, Sealed'
    PROVE  AmountsHeld'
<1>1. Groups /\ PromptDraft /\ AmountsHeld
  BY SealedBefore DEF IInv
<1>2. CASE Verb
  BY <1>1, <1>2, VerbAmounts
<1>3. ASSUME UNCHANGED <<state, post, settle, booked, paid>>,
             overlay' = overlay \/ state = "draft"
      PROVE  AmountsHeld'
  <2>1. CASE overlay' = overlay
    <3>1. /\ SettleAmount(overlay)' = SettleAmount(overlay)
          /\ EnvelopeNet(overlay)' = EnvelopeNet(overlay)
      BY <2>1
    <3> QED  BY <1>1, <1>3, <3>1 DEF AmountsHeld
  <2>2. CASE state = "draft"
    BY <1>1, <1>3, <2>2 DEF AmountsHeld
  <2> QED  BY <1>3, <2>1, <2>2
<1>4. CASE Next /\ ~Verb
  <2>1. UNCHANGED <<state, post, settle, booked, paid>>
    BY <1>4 DEF Next, Statement, Ending, ReplaceRead, ReplaceFind,
                ReplaceDelete, ReplaceInsert, ReplaceReread, ReplaceRollback, Ran, ReplaceCommit
  <2>2. overlay' = overlay \/ state = "draft"
    BY <1>1, <1>4, FrozenStep
  <2> QED  BY <1>3, <2>1, <2>2
<1>5. CASE UNCHANGED vars
  BY <1>3, <1>5 DEF vars
<1> QED  BY <1>2, <1>4, <1>5

\* The rows of a call stay together, a prompt replace writes to drafts only,
\* and amounts in hand are those of the overlay.
THEOREM Invariance == Spec => []IInv
<1>1. IInv /\ [Next]_vars => IInv'
  BY GroupsKept, DraftKept, AmountsKept DEF IInv
<1> QED  BY Initially, <1>1, PTL DEF Spec

-----------------------------------------------------------------------------

\* A replace is all or nothing, whatever else goes on.
THEOREM Atomic == Spec => []AllOrNothing
<1>1. IInv => AllOrNothing
  <2> SUFFICES ASSUME Groups, NEW w \in Writers
               PROVE  {r.line : r \in Group(overlay, w)}
                        \in {{}, tx[w].asked}
    BY DEF IInv, AllOrNothing, Group
  <2>1. Group(overlay, w) \in {{}, RowsOf(w, tx[w].asked)}
    BY DEF Groups, Whole
  <2>2. ASSUME NEW asked
        PROVE  {r.line : r \in RowsOf(w, asked)} = asked
    <3>1. \A l \in asked : \E r \in RowsOf(w, asked) : r.line = l
      <4> SUFFICES ASSUME NEW l \in asked
                   PROVE  \E r \in RowsOf(w, asked) : r.line = l
        OBVIOUS
      <4>1. [by |-> w, line |-> l] \in RowsOf(w, asked)
        BY DEF RowsOf
      <4> QED  BY <4>1
    <3>2. \A r \in RowsOf(w, asked) : r.line \in asked
      BY DEF RowsOf
    <3> QED  BY <3>1, <3>2
  <2> QED  BY <2>1, <2>2
<1> QED  BY Invariance, <1>1, PTL

\* The guards of the statements freeze the overlay at submit, where commits
\* are prompt and no call clears it.
THEOREM FrozenByGuards == Spec => Frozen
<1>1. IInv /\ [Next]_vars =>
        [Guarded /\ state # "draft" => overlay' = overlay]_overlay
  <2> SUFFICES ASSUME IInv, Next, Guarded, state # "draft"
               PROVE  overlay' = overlay
    BY DEF vars
  <2>1. ASSUME NEW w \in Writers, ReplaceCommit(w)  PROVE FALSE
    BY <2>1 DEF ReplaceCommit, Written, Guarded, IInv, PromptDraft
  <2> QED
    BY <2>1
    DEF Next, Statement, Ending, ReplaceRead, ReplaceFind, ReplaceDelete,
        ReplaceInsert, ReplaceReread, ReplaceRollback, Ran, Verb, Submit,
        Approve, Refuse, Trash, Move, PostRead, PostEnvelope, PostSink, PostMark, PostAbort,
        SettleRead, SettleLines, SettlePay, SettleMark, SettleAbort
<1> QED  BY Invariance, <1>1, PTL DEF Spec, Frozen

\* Where nothing comes between a check of the guard and the commit (Guarded),
\* what is paid is what was booked, although post and settle each read the
\* overlay and each have a sum of their own.
THEOREM NetsAgree == Spec => []NetAgrees
<1>1. IInv => NetAgrees
  <2> SUFFICES ASSUME IInv, Guarded, booked # Nothing
               PROVE  paid \subseteq {booked}
    BY DEF NetAgrees
  <2>1. Sealed
    BY DEF Guarded, Sealed
  <2> QED  BY <2>1, SameAmount DEF IInv, Groups, AmountsHeld
<1> QED  BY Invariance, <1>1, PTL

-----------------------------------------------------------------------------
(* The sums.                                                               *)

\* Nothing is marked, posted, settled or paid before it is booked.
BookedFirst ==
    \/ post.pc = "mark" \/ settle.pc # "idle"
    \/ state \in {"posted", "done"} \/ paid # {}
    => booked # Nothing

Typed ==
    /\ TypeOK
    /\ IsFiniteSet(overlay)
    /\ post.pc \in {"sink", "mark"} => post.net >= 0
    /\ BookedFirst

LEMMA TotalNat ==
    ASSUME NEW rows \in SUBSET TaxRow, IsFiniteSet(rows)
    PROVE  Taxes(rows) \in Nat
<1> DEFINE f == [r \in rows |-> r.line.tax_amount]
<1>1. Taxes(rows) = SumFunctionOnSet(f, rows)
  BY DEF Taxes, SumFunction
<1>2. \A r \in rows : f[r] \in Nat
  BY LinesOK DEF TaxRow
<1> HIDE DEF f
<1> QED BY <1>1, <1>2, SumNat

\* The amounts are numbers, the envelope's not negative.
LEMMA NetsTyped ==
    ASSUME overlay \subseteq TaxRow, IsFiniteSet(overlay)
    PROVE  /\ Gross(overlay) \in Nat
           /\ Total(overlay, "withholding") \in Nat
           /\ EnvelopeNet(overlay) \in Int
           /\ SettleAmount(overlay) \in Int
           /\ Total(overlay, "withholding") <= Gross(overlay)
                => EnvelopeNet(overlay) \in Nat
<1>1. ASSUME NEW basis  PROVE Total(overlay, basis) \in Nat
  <2> DEFINE rows == {r \in overlay : r.line.basis = basis}
  <2>1. IsFiniteSet(rows) /\ rows \in SUBSET TaxRow
    BY FS_Subset
  <2> HIDE DEF rows
  <2>2. Taxes(rows) \in Nat
    BY <2>1, TotalNat
  <2> QED BY <2>2 DEF Total, rows
<1>2. Gross(overlay) \in Nat
  BY <1>1, AmountOK DEF Gross
<1>3. Total(overlay, "withholding") \in Nat
  BY <1>1
<1> QED BY <1>2, <1>3, SameAmount DEF EnvelopeNet

LEMMA FiniteKept ==
    ASSUME Typed, NEW w \in Writers, ReplaceCommit(w)
    PROVE  IsFiniteSet(overlay')
<1> DEFINE own == tx[w].inserted
           h == [l \in own |-> [by |-> w, line |-> l]]
<1>1. IsFiniteSet(own)
  BY LinesFinite, FS_Subset DEF Typed, TypeOK, Replace
<1>2. h \in Surjection(own, RowsOf(w, own))
  BY DEF Surjection, RowsOf
<1>3. IsFiniteSet(RowsOf(w, own))
  BY <1>1, <1>2, FS_Surjection
<1>4. IsFiniteSet(overlay \ tx[w].deleted)
  BY FS_Difference DEF Typed
<1> QED BY <1>3, <1>4, FS_Union DEF ReplaceCommit

LEMMA VerbTyped ==
    ASSUME Typed, Verb
    PROVE  /\ (post \in InFlight)' /\ (settle \in InFlight)'
           /\ (state \in States)' /\ (booked \in Nat \cup {Nothing})'
           /\ (paid \subseteq Int)'
           /\ (post.pc \in {"sink", "mark"} => post.net >= 0)'
           /\ BookedFirst'
<1> USE DEF Typed, TypeOK, BookedFirst, InFlight, Nothing
<1>1. overlay \subseteq TaxRow /\ IsFiniteSet(overlay)
  OBVIOUS
<1>2. CASE Submit \/ Approve \/ Refuse \/ Trash
  BY <1>2 DEF Submit, Approve, Refuse, Trash, Move, States
<1>3. CASE PostRead
  BY <1>3 DEF PostRead
<1>4. CASE PostEnvelope
  <2>1. EnvelopeNet(overlay) \in Nat
    BY <1>1, <1>4, NetsTyped DEF PostEnvelope
  <2> QED BY <1>4, <2>1 DEF PostEnvelope
<1>5. CASE PostSink
  BY <1>5 DEF PostSink
<1>6. CASE PostMark
  BY <1>6 DEF PostMark, Idle, States
<1>7. CASE PostAbort
  BY <1>7 DEF PostAbort, Idle
<1>8. CASE SettleRead
  BY <1>8 DEF SettleRead
<1>9. CASE SettleLines
  <2>1. SettleAmount(overlay) \in Int
    BY <1>1, NetsTyped
  <2> QED BY <1>9, <2>1 DEF SettleLines
<1>10. CASE SettlePay
  BY <1>10 DEF SettlePay
<1>11. CASE SettleMark
  BY <1>11 DEF SettleMark, Idle, States
<1>12. CASE SettleAbort
  BY <1>12 DEF SettleAbort, Idle
<1> QED
  BY <1>2, <1>3, <1>4, <1>5, <1>6, <1>7, <1>8, <1>9, <1>10, <1>11, <1>12
  DEF Verb

LEMMA TypesKept == Typed /\ Groups' /\ [Next]_vars => Typed'
<1> SUFFICES ASSUME Typed, Groups', [Next]_vars  PROVE Typed'
  OBVIOUS
<1>1. (overlay \subseteq TaxRow)' /\ (tx \in [Writers -> Replace])'
  BY DEF Groups
<1>2. prompt' = prompt /\ live' \in BOOLEAN
  <2>1. CASE Trash
    BY <2>1 DEF Trash, Next, vars
  <2>2. CASE UNCHANGED live
    BY <2>2 DEF Next, vars, Typed, TypeOK
  <2> QED
    BY <2>1, <2>2
    DEF Next, Statement, Ending, ReplaceRead, ReplaceFind, ReplaceDelete,
        ReplaceInsert, ReplaceReread, ReplaceRollback, ReplaceCommit, Ran, Verb,
        Submit, Approve, Refuse, Move, PostRead, PostEnvelope, PostSink,
        PostMark, PostAbort, SettleRead, SettleLines, SettlePay, SettleMark,
        SettleAbort, vars
<1>3. IsFiniteSet(overlay')
  <2>1. CASE overlay' = overlay
    BY <2>1 DEF Typed
  <2> QED
    BY <2>1, FiniteKept
    DEF Next, Statement, Ending, ReplaceRead, ReplaceFind, ReplaceDelete,
        ReplaceInsert, ReplaceReread, ReplaceRollback, Ran, Verb, Submit,
        Approve, Refuse, Trash, Move, PostRead, PostEnvelope, PostSink, PostMark, PostAbort,
        SettleRead, SettleLines, SettlePay, SettleMark, SettleAbort, vars
<1>4. CASE Verb
  BY <1>1, <1>2, <1>3, <1>4, VerbTyped DEF Typed, TypeOK
<1>5. CASE UNCHANGED <<state, post, settle, booked, paid>>
  BY <1>1, <1>2, <1>3, <1>5 DEF Typed, TypeOK, BookedFirst
<1> QED
  BY <1>4, <1>5 DEF Next, Statement, Ending, ReplaceRead, ReplaceFind,
                    ReplaceDelete, ReplaceInsert, ReplaceReread, ReplaceRollback, Ran, ReplaceCommit, vars

\* The types, with the order of booking and paying.
THEOREM TypesInvariant == Spec => []Typed
<1>1. Init => Typed
  BY FS_EmptySet, PromptnessOK
  DEF Init, Typed, TypeOK, Replace, Fresh, InFlight, Idle, States, Nothing,
      BookedFirst
<1>2. IInv => Groups
  BY DEF IInv
<1> QED BY Invariance, TypesKept, <1>1, <1>2, PTL DEF Spec

\* The overlay, the replaces and the amounts have their types: the envelope's
\* check keeps the net that post books from being negative.
THEOREM TypeCorrect == Spec => []TypeOK
<1>1. Typed => TypeOK
  BY DEF Typed
<1> QED BY TypesInvariant, <1>1, PTL

\* Where Guarded holds, nothing is paid before it is booked, nor a negative
\* amount, although settle does not check.
THEOREM BookedIsPaid == Spec => []PaysBookedAmounts
<1>1. Typed /\ NetAgrees => PaysBookedAmounts
  BY DEF Typed, TypeOK, BookedFirst, NetAgrees, PaysBookedAmounts
<1> QED BY TypesInvariant, NetsAgree, <1>1, PTL

-----------------------------------------------------------------------------
(* The envelope that a post builds.                                        *)

Line == [side : {"debit", "credit"}, amount : Nat, party : BOOLEAN,
         account : {"expense", "tax", "payable", "bank"}]

\* What the n first places of a function add up to.
Sum(f, n) == SumFunctionOnSet(f, 1 .. n)

\* What each row adds to the amount due, and what it takes off.
Added == [i \in DOMAIN taxes |->
            IF taxes[i].basis = "input" THEN taxes[i].tax_amount ELSE 0]
Withheld == [i \in DOMAIN taxes |->
               IF taxes[i].basis = "input" THEN 0 ELSE taxes[i].tax_amount]

\* What each line debits or credits, and what it credits the payee with.
OnSide(ls, side) ==
    [i \in DOMAIN ls |-> IF ls[i].side = side THEN ls[i].amount ELSE 0]
OfParty(ls) ==
    [i \in DOMAIN ls |-> IF ls[i].party THEN ls[i].amount ELSE 0]

EnvelopeTyped ==
    /\ amount_total \in Nat
    /\ taxes \in Seq([basis : BasisTexts, tax_amount : Int])
    /\ next \in 1 .. Len(taxes) + 1
    /\ lines \in Seq(Line)
    /\ input_tax \in Nat /\ withholding \in Nat

SumsAreRead ==
    /\ input_tax = Sum(Added, next - 1)
    /\ withholding = Sum(Withheld, next - 1)

LinesAreSums ==
    /\ result = "building" =>
         /\ Side("debit") = amount_total + input_tax
         /\ Side("credit") = withholding
         /\ PartyCredit = 0
    /\ result = "envelope" =>
         /\ next = Len(taxes) + 1
         /\ Side("debit") = gross
         /\ Side("credit") = gross
         /\ PartyCredit = gross - withholding
         /\ withholding <= gross
    /\ result = "WithholdingExceedsClaim" =>
         /\ next = Len(taxes) + 1
         /\ withholding > gross

EnvelopeInv == EnvelopeTyped /\ SumsAreRead /\ LinesAreSums

\* The sums of the model over the places of a sequence.
LEMMA SumsOfPlaces ==
    ASSUME NEW ls \in Seq(Line)
    PROVE  /\ \A side : SumFunction(OnSide(ls, side))
                          = Sum(OnSide(ls, side), Len(ls))
           /\ SumFunction(OfParty(ls)) = Sum(OfParty(ls), Len(ls))
<1>1. DOMAIN ls = 1 .. Len(ls)
  OBVIOUS
<1>2. \A side : DOMAIN OnSide(ls, side) = 1 .. Len(ls)
  BY <1>1 DEF OnSide
<1>3. DOMAIN OfParty(ls) = 1 .. Len(ls)
  BY <1>1 DEF OfParty
<1> QED BY <1>2, <1>3 DEF SumFunction, Sum

LEMMA SidesAreSums ==
    EnvelopeTyped => /\ \A side : Side(side) = Sum(OnSide(lines, side), Len(lines))
             /\ PartyCredit = Sum(OfParty(lines), Len(lines))
<1>1. /\ \A side : Side(side) = SumFunction(OnSide(lines, side))
      /\ PartyCredit = SumFunction(OfParty(lines))
  BY DEF Side, PartyCredit, OnSide, OfParty
<1> QED BY <1>1, SumsOfPlaces DEF EnvelopeTyped

\* One line more: its amount is added to its side, and to the payee's credit
\* if it is of the party.
LEMMA OneLine ==
    ASSUME NEW ls \in Seq(Line), NEW l \in Line
    PROVE  LET longer == Append(ls, l)
           IN  /\ longer \in Seq(Line)
               /\ \A side : Sum(OnSide(longer, side), Len(longer))
                     = Sum(OnSide(ls, side), Len(ls))
                         + (IF l.side = side THEN l.amount ELSE 0)
               /\ Sum(OfParty(longer), Len(longer))
                     = Sum(OfParty(ls), Len(ls))
                         + (IF l.party THEN l.amount ELSE 0)
<1> DEFINE longer == Append(ls, l)
           n == Len(ls)
<1>1. /\ longer \in Seq(Line) /\ n \in Nat /\ Len(longer) = n + 1
      /\ DOMAIN ls = 1 .. n /\ DOMAIN longer = 1 .. n + 1
      /\ longer[n + 1] = l
      /\ \A i \in 1 .. n : longer[i] = ls[i] /\ ls[i] \in Line
  OBVIOUS
<1> HIDE DEF longer, n
<1>2. ASSUME NEW side
      PROVE  Sum(OnSide(longer, side), Len(longer))
               = Sum(OnSide(ls, side), n)
                   + (IF l.side = side THEN l.amount ELSE 0)
  <2> DEFINE f == OnSide(ls, side)
             g == OnSide(longer, side)
  <2>1. \A i \in 1 .. n : f[i] \in Int /\ g[i] = f[i]
    BY <1>1 DEF OnSide, Line
  <2>2. /\ g[n + 1] = (IF l.side = side THEN l.amount ELSE 0)
        /\ g[n + 1] \in Int
    BY <1>1 DEF OnSide, Line
  <2> HIDE DEF f, g
  <2>3. SumFunctionOnSet(g, 1 .. n + 1)
          = SumFunctionOnSet(f, 1 .. n) + g[n + 1]
    BY <1>1, <2>1, <2>2, SumAppend
  <2> QED BY <1>1, <2>2, <2>3 DEF f, g, Sum
<1>3. Sum(OfParty(longer), Len(longer))
        = Sum(OfParty(ls), n) + (IF l.party THEN l.amount ELSE 0)
  <2> DEFINE f == OfParty(ls)
             g == OfParty(longer)
  <2>1. \A i \in 1 .. n : f[i] \in Int /\ g[i] = f[i]
    BY <1>1 DEF OfParty, Line
  <2>2. /\ g[n + 1] = (IF l.party THEN l.amount ELSE 0)
        /\ g[n + 1] \in Int
    BY <1>1 DEF OfParty, Line
  <2> HIDE DEF f, g
  <2>3. SumFunctionOnSet(g, 1 .. n + 1)
          = SumFunctionOnSet(f, 1 .. n) + g[n + 1]
    BY <1>1, <2>1, <2>2, SumAppend
  <2> QED BY <1>1, <2>2, <2>3 DEF f, g, Sum
<1> QED BY <1>1, <1>2, <1>3 DEF longer, n

\* One line more, of the model's lines.
LEMMA LineAdded ==
    ASSUME EnvelopeInv, NEW l \in Line, lines' = Append(lines, l),
           EnvelopeTyped'
    PROVE  /\ \A side : Side(side)' =
                Side(side) + (IF l.side = side THEN l.amount ELSE 0)
           /\ PartyCredit' = PartyCredit + (IF l.party THEN l.amount ELSE 0)
<1>1. /\ \A side : Side(side)' = Sum(OnSide(lines', side), Len(lines'))
      /\ PartyCredit' = Sum(OfParty(lines'), Len(lines'))
  <2>1. (/\ \A side : Side(side) = Sum(OnSide(lines, side), Len(lines))
         /\ PartyCredit = Sum(OfParty(lines), Len(lines)))'
    BY SidesAreSums, PTL
  <2> QED BY <2>1
<1>2. /\ \A side : Side(side) = Sum(OnSide(lines, side), Len(lines))
      /\ PartyCredit = Sum(OfParty(lines), Len(lines))
  BY SidesAreSums DEF EnvelopeInv
<1>3. lines \in Seq(Line)
  BY DEF EnvelopeInv, EnvelopeTyped
<1> QED BY <1>1, <1>2, <1>3, OneLine

\* Amounts of rows are numbers.
LEMMA RowAmounts ==
    ASSUME EnvelopeTyped
    PROVE  \A i \in 1 .. Len(taxes) : taxes[i].tax_amount \in Int
<1> DEFINE T == [basis : BasisTexts, tax_amount : Int]
<1>1. \A t \in T : t.tax_amount \in Int
  OBVIOUS
<1>2. taxes \in Seq(T)
  BY DEF EnvelopeTyped
<1> HIDE DEF T
<1> QED BY <1>1, <1>2

\* One row more is read, one that is not negative.
LEMMA RowRead ==
    ASSUME EnvelopeInv, next <= Len(taxes), taxes[next].tax_amount >= 0
    PROVE  /\ taxes[next].tax_amount \in Nat
           /\ Sum(Added, next) = input_tax +
                IF taxes[next].basis = "input" THEN taxes[next].tax_amount ELSE 0
           /\ Sum(Withheld, next) = withholding +
                IF taxes[next].basis = "input" THEN 0 ELSE taxes[next].tax_amount
<1> DEFINE n == next - 1
           a == Added
           w == Withheld
<1>1. /\ n \in Nat /\ next = n + 1 /\ next \in 1 .. Len(taxes)
      /\ DOMAIN taxes = 1 .. Len(taxes) /\ 1 .. n + 1 \subseteq DOMAIN taxes
      /\ \A i \in 1 .. n + 1 : taxes[i].tax_amount \in Int
      /\ taxes[next].tax_amount \in Nat
  BY RowAmounts DEF EnvelopeInv, EnvelopeTyped
<1>2. \A i \in 1 .. n + 1 : a[i] \in Int /\ w[i] \in Int
  BY <1>1 DEF Added, Withheld
<1>3. /\ a[n + 1] = IF taxes[next].basis = "input"
                    THEN taxes[next].tax_amount ELSE 0
      /\ w[n + 1] = IF taxes[next].basis = "input"
                    THEN 0 ELSE taxes[next].tax_amount
  BY <1>1 DEF Added, Withheld
<1> HIDE DEF n, a, w
<1>4. /\ \A i \in 1 .. n : a[i] \in Int /\ w[i] \in Int
      /\ a[n + 1] \in Int /\ w[n + 1] \in Int
  BY <1>1, <1>2
<1>5. /\ SumFunctionOnSet(a, 1 .. n + 1)
           = SumFunctionOnSet(a, 1 .. n) + a[n + 1]
      /\ SumFunctionOnSet(w, 1 .. n + 1)
           = SumFunctionOnSet(w, 1 .. n) + w[n + 1]
  BY <1>1, <1>4, SumAppend
<1>6. /\ input_tax = SumFunctionOnSet(a, 1 .. n)
      /\ withholding = SumFunctionOnSet(w, 1 .. n)
  BY DEF EnvelopeInv, SumsAreRead, Sum, n, a, w
<1> QED BY <1>1, <1>3, <1>5, <1>6 DEF Sum, a, w

LEMMA EnvelopeInitially == EnvelopeInit => EnvelopeInv
<1> SUFFICES ASSUME EnvelopeInit PROVE EnvelopeInv
  OBVIOUS
<1>1. PICK n \in 0 .. MaxTaxes : taxes \in [1 .. n -> Tax]
  BY DEF EnvelopeInit
<1>2. taxes \in Seq([basis : BasisTexts, tax_amount : Int]) /\ Len(taxes) \in Nat
  <2> DEFINE T == [basis : BasisTexts, tax_amount : Int]
  <2>1. \A t \in Tax : t \in T
    BY AmountsOK DEF Tax
  <2>2. n \in Nat
    BY MaxTaxesOK
  <2> HIDE DEF T
  <2>3. taxes \in [1 .. n -> T]
    BY <1>1, <2>1
  <2>4. taxes \in Seq(T)
    BY <2>2, <2>3
  <2> QED BY <2>4 DEF T
<1>3. /\ amount_total \in Nat /\ next = 1
      /\ input_tax = 0 /\ withholding = 0 /\ result = "building"
      /\ lines = <<debit("expense", amount_total)>>
  BY AmountsOK DEF EnvelopeInit
<1> DEFINE l == debit("expense", amount_total)
<1>4. /\ l \in Line /\ l.side = "debit" /\ l.amount = amount_total
      /\ l.party = FALSE
  BY <1>3 DEF debit, Line
<1> DEFINE none == <<>>
<1>5. lines = Append(none, l) /\ none \in Seq(Line) /\ Len(none) = 0
  BY <1>3
<1>6. \A f : Sum(f, 0) = 0
  BY SumEmpty DEF Sum
<1> HIDE DEF l, none
<1>7. EnvelopeTyped
  BY <1>2, <1>3, <1>4 DEF EnvelopeTyped, l
<1>8. SumsAreRead
  BY <1>3, <1>6 DEF SumsAreRead
<1>9. /\ \A side : Side(side) = IF l.side = side THEN l.amount ELSE 0
      /\ PartyCredit = 0
  <2>1. /\ \A side : Sum(OnSide(lines, side), Len(lines))
             = Sum(OnSide(none, side), Len(none))
                 + (IF l.side = side THEN l.amount ELSE 0)
        /\ Sum(OfParty(lines), Len(lines))
             = Sum(OfParty(none), Len(none))
                 + (IF l.party THEN l.amount ELSE 0)
    <3> DEFINE longer == Append(none, l)
    <3>1. /\ \A side : Sum(OnSide(longer, side), Len(longer))
               = Sum(OnSide(none, side), Len(none))
                   + (IF l.side = side THEN l.amount ELSE 0)
          /\ Sum(OfParty(longer), Len(longer))
               = Sum(OfParty(none), Len(none))
                   + (IF l.party THEN l.amount ELSE 0)
      BY <1>4, <1>5, OneLine
    <3> QED BY <1>5, <3>1
  <2> QED BY <1>3, <1>4, <1>5, <1>6, <1>7, <2>1, SidesAreSums
<1>10. LinesAreSums
  BY <1>3, <1>4, <1>9 DEF LinesAreSums
<1> QED BY <1>7, <1>8, <1>10 DEF EnvelopeInv

LEMMA EnvelopeKept == EnvelopeInv /\ [EnvelopeNext]_envelope_vars => EnvelopeInv'
<1> SUFFICES ASSUME EnvelopeInv, [EnvelopeNext]_envelope_vars PROVE EnvelopeInv'
  OBVIOUS
<1>1. CASE InputLine
  <2> DEFINE l == debit("tax", taxes[next].tax_amount)
  <2>1. /\ next <= Len(taxes) /\ taxes[next].basis = "input"
        /\ taxes[next].tax_amount >= 0
        /\ result = "building" /\ result' = "building"
        /\ input_tax' = input_tax + taxes[next].tax_amount
        /\ withholding' = withholding
        /\ amount_total' = amount_total /\ taxes' = taxes /\ next' = next + 1
        /\ lines' = Append(lines, l)
    BY <1>1 DEF InputLine, AtLine, input
  <2>2. /\ taxes[next].tax_amount \in Nat
        /\ Sum(Added, next) = input_tax + taxes[next].tax_amount
        /\ Sum(Withheld, next) = withholding + 0
    BY <2>1, RowRead
  <2>3. /\ l \in Line /\ l.side = "debit" /\ l.party = FALSE
        /\ l.amount = taxes[next].tax_amount
    BY <2>2 DEF debit, Line
  <2> HIDE DEF l
  <2>4. EnvelopeTyped'
    BY <2>1, <2>2, <2>3 DEF EnvelopeInv, EnvelopeTyped
  <2>5. SumsAreRead'
    <3>1. Added' = Added /\ Withheld' = Withheld /\ next' - 1 = next
      BY <2>1 DEF Added, Withheld, EnvelopeInv, EnvelopeTyped
    <3>2. withholding + 0 = withholding
      BY DEF EnvelopeInv, EnvelopeTyped
    <3> QED BY <2>1, <2>2, <3>1, <3>2 DEF SumsAreRead
  <2>6. /\ Side("debit")' = Side("debit") + l.amount
        /\ Side("credit")' = Side("credit") + 0
        /\ PartyCredit' = PartyCredit + 0
    BY <2>1, <2>3, <2>4, LineAdded
  <2>7. LinesAreSums'
    BY <2>1, <2>2, <2>3, <2>6 DEF EnvelopeInv, EnvelopeTyped, LinesAreSums
  <2> QED BY <2>4, <2>5, <2>7 DEF EnvelopeInv
<1>2. CASE WithholdingLine
  <2> DEFINE l == credit("tax", taxes[next].tax_amount)
  <2>1. /\ next <= Len(taxes) /\ taxes[next].basis # "input"
        /\ taxes[next].tax_amount >= 0
        /\ result = "building" /\ result' = "building"
        /\ withholding' = withholding + taxes[next].tax_amount
        /\ input_tax' = input_tax
        /\ amount_total' = amount_total /\ taxes' = taxes /\ next' = next + 1
        /\ lines' = Append(lines, l)
    BY <1>2 DEF WithholdingLine, AtLine, input
  <2>2. /\ taxes[next].tax_amount \in Nat
        /\ Sum(Added, next) = input_tax + 0
        /\ Sum(Withheld, next) = withholding + taxes[next].tax_amount
    BY <2>1, RowRead
  <2>3. /\ l \in Line /\ l.side = "credit" /\ l.party = FALSE
        /\ l.amount = taxes[next].tax_amount
    BY <2>2 DEF credit, Line
  <2> HIDE DEF l
  <2>4. EnvelopeTyped'
    BY <2>1, <2>2, <2>3 DEF EnvelopeInv, EnvelopeTyped
  <2>5. SumsAreRead'
    <3>1. Added' = Added /\ Withheld' = Withheld /\ next' - 1 = next
      BY <2>1 DEF Added, Withheld, EnvelopeInv, EnvelopeTyped
    <3>2. input_tax + 0 = input_tax
      BY DEF EnvelopeInv, EnvelopeTyped
    <3> QED BY <2>1, <2>2, <3>1, <3>2 DEF SumsAreRead
  <2>6. /\ Side("debit")' = Side("debit") + 0
        /\ Side("credit")' = Side("credit") + l.amount
        /\ PartyCredit' = PartyCredit + 0
    BY <2>1, <2>3, <2>4, LineAdded
  <2>7. LinesAreSums'
    BY <2>1, <2>2, <2>3, <2>6 DEF EnvelopeInv, EnvelopeTyped, LinesAreSums
  <2> QED BY <2>4, <2>5, <2>7 DEF EnvelopeInv
<1>3. ASSUME UNCHANGED <<input, next, lines, input_tax, withholding>>,
             \/ result' \in {"BadBasis", result}
             \/ /\ result' = "WithholdingExceedsClaim"
                /\ next = Len(taxes) + 1 /\ withholding > gross
      PROVE  EnvelopeInv'
  <2>1. EnvelopeTyped'
    BY <1>3 DEF EnvelopeInv, EnvelopeTyped, input
  <2>2. SumsAreRead'
    BY <1>3 DEF EnvelopeInv, SumsAreRead, Added, Withheld, input
  <2>3. /\ \A side : Side(side)' = Side(side)
        /\ PartyCredit' = PartyCredit
        /\ gross' = gross
    BY <1>3 DEF Side, PartyCredit, gross, input
  <2>4. LinesAreSums'
    BY <1>3, <2>3 DEF EnvelopeInv, LinesAreSums, input
  <2> QED BY <2>1, <2>2, <2>4 DEF EnvelopeInv
<1>4. CASE Finish
  <2>1. /\ result = "building" /\ next = Len(taxes) + 1
        /\ UNCHANGED <<amount_total, taxes, next, input_tax, withholding>>
        /\ gross' = gross
        /\ gross = amount_total + input_tax /\ gross \in Nat
        /\ withholding \in Nat
    BY <1>4 DEF Finish, input, gross, EnvelopeInv, EnvelopeTyped
  <2>2. CASE withholding > gross
    BY <1>3, <1>4, <2>1, <2>2 DEF Finish
  <2>3. CASE ~(withholding > gross) /\ gross = withholding
    <3>1. result' = "envelope" /\ lines' = lines
      BY <1>4, <2>3 DEF Finish
    <3>2. EnvelopeTyped'
      BY <2>1, <3>1 DEF EnvelopeInv, EnvelopeTyped
    <3>3. SumsAreRead'
      BY <2>1, <3>1 DEF EnvelopeInv, SumsAreRead, Added, Withheld
    <3>4. \A side : Side(side)' = Side(side)
      BY <3>1 DEF Side
    <3>5. PartyCredit' = PartyCredit
      BY <3>1 DEF PartyCredit
    <3>6. LinesAreSums'
      BY <2>1, <2>3, <3>1, <3>4, <3>5 DEF EnvelopeInv, LinesAreSums
    <3> QED BY <3>2, <3>3, <3>6 DEF EnvelopeInv
  <2>4. CASE ~(withholding > gross) /\ gross # withholding
    <3> DEFINE l == [credit(IF payment_mode = "own_account"
                            THEN "payable" ELSE "bank", gross - withholding)
                       EXCEPT !.party = TRUE]
    <3>1. result' = "envelope" /\ lines' = Append(lines, l)
      BY <1>4, <2>4 DEF Finish
    <3>2. /\ l \in Line /\ l.side = "credit" /\ l.party = TRUE
          /\ l.amount = gross - withholding
      <4>1. gross - withholding \in Nat
        BY <2>1, <2>4
      <4> DEFINE r == credit(IF payment_mode = "own_account"
                             THEN "payable" ELSE "bank", gross - withholding)
      <4>2. r \in Line /\ r.side = "credit" /\ r.amount = gross - withholding
        BY <4>1 DEF credit, Line
      <4>3. l = [r EXCEPT !.party = TRUE]
        OBVIOUS
      <4> HIDE DEF l, r
      <4> QED BY <4>2, <4>3 DEF Line
    <3> HIDE DEF l
    <3>3. EnvelopeTyped'
      BY <2>1, <3>1, <3>2 DEF EnvelopeInv, EnvelopeTyped
    <3>4. SumsAreRead'
      BY <2>1, <3>1 DEF EnvelopeInv, SumsAreRead, Added, Withheld
    <3>5. /\ Side("debit")' = Side("debit") + 0
          /\ Side("credit")' = Side("credit") + l.amount
          /\ PartyCredit' = PartyCredit + l.amount
      BY <3>1, <3>2, <3>3, LineAdded
    <3>6. LinesAreSums'
      BY <2>1, <2>4, <3>1, <3>2, <3>5 DEF EnvelopeInv, LinesAreSums
    <3> QED BY <3>3, <3>4, <3>6 DEF EnvelopeInv
  <2> QED BY <2>2, <2>3, <2>4
<1>5. CASE OtherLine \/ NegativeLine
  BY <1>3, <1>5 DEF OtherLine, NegativeLine
<1>6. CASE UNCHANGED envelope_vars
  BY <1>3, <1>6 DEF envelope_vars, input
<1> QED BY <1>1, <1>2, <1>4, <1>5, <1>6 DEF EnvelopeNext

\* The sums of the loop are those of the rows read, and the lines carry them.
THEOREM EnvelopeInvariant == EnvelopeSpec => []EnvelopeInv
BY EnvelopeInitially, EnvelopeKept, PTL DEF EnvelopeSpec

\* An envelope that was built balances.
THEOREM EnvelopeBalances == EnvelopeSpec => []Balanced
<1>1. EnvelopeInv => Balanced
  BY DEF EnvelopeInv, LinesAreSums, Balanced
<1> QED BY <1>1, EnvelopeInvariant, PTL

\* What settle will ask to be paid for a claim is what the envelope credited
\* its payee with, line by line, though settle has a fold of its own.
THEOREM SettlesAsPosted == EnvelopeSpec => []SettlesWhatIsPosted
<1>1. ASSUME EnvelopeInv, result = "envelope" PROVE AmountAsked = PartyCredit
  <2>1. /\ next - 1 = Len(taxes) /\ DOMAIN taxes = 1 .. Len(taxes)
        /\ input_tax \in Nat /\ withholding \in Nat /\ amount_total \in Nat
        /\ PartyCredit = gross - withholding
    BY <1>1 DEF EnvelopeInv, EnvelopeTyped, LinesAreSums
  <2>2. AmountAsked = amount_total + Sum(Added, Len(taxes))
                                    - Sum(Withheld, Len(taxes))
    BY <2>1 DEF AmountAsked, SumFunction, Sum, Added, Withheld
  <2>3. AmountAsked = amount_total + input_tax - withholding
    BY <1>1, <2>1, <2>2 DEF EnvelopeInv, SumsAreRead
  <2> QED BY <2>1, <2>3 DEF gross
<1> QED BY <1>1, EnvelopeInvariant, PTL DEF SettlesWhatIsPosted

-----------------------------------------------------------------------------
(* The amounts of TaxOverlay and those of GlEnvelope.                      *)

\* The rows of an overlay, each once, are what the loop reads.
Listing(rows) ==
    \E place \in Bijection(1 .. Len(taxes), rows) :
        \A i \in 1 .. Len(taxes) :
            /\ taxes[i].basis = place[i].line.basis
            /\ taxes[i].tax_amount = place[i].line.tax_amount

\* The loop's sums over a listing are the sums over the rows.
LEMMA ListingAddsUp ==
    ASSUME EnvelopeTyped, NEW rows \in SUBSET TaxRow, Listing(rows)
    PROVE  /\ Sum(Added, Len(taxes)) = Total(rows, "input")
           /\ Sum(Withheld, Len(taxes)) = Total(rows, "withholding")
           /\ Taxes({r \in rows : r.line.basis # "input"})
                = Total(rows, "withholding")
<1> DEFINE n == Len(taxes)
           In == {r \in rows : r.line.basis = "input"}
           Out == {r \in rows : r.line.basis = "withholding"}
           in == [r \in In |-> r.line.tax_amount]
           out == [r \in Out |-> r.line.tax_amount]
           hin == [r \in rows |-> IF r \in In THEN in[r] ELSE 0]
           hout == [r \in rows |-> IF r \in Out THEN out[r] ELSE 0]
<1>1. PICK place \in Bijection(1 .. n, rows) :
        \A i \in 1 .. n : /\ taxes[i].basis = place[i].line.basis
                          /\ taxes[i].tax_amount = place[i].line.tax_amount
  BY DEF Listing
<1>2. \A i \in 1 .. n : place[i] \in rows
  BY DEF Bijection, Injection
<1>3. \A r \in rows : /\ r.line.basis \in {"input", "withholding"}
                      /\ r.line.tax_amount \in Nat
  BY LinesOK DEF TaxRow, Bases
<1>4. n \in Nat /\ DOMAIN taxes = 1 .. n
  BY DEF EnvelopeTyped
<1>5. IsFiniteSet(1 .. n)
  BY <1>4, FS_Interval
<1>6. \A i \in 1 .. n : /\ Added[i] \in Int /\ Added[i] = hin[place[i]]
                        /\ Withheld[i] \in Int /\ Withheld[i] = hout[place[i]]
  BY <1>1, <1>2, <1>3, <1>4 DEF Added, Withheld
<1>7. /\ In \in SUBSET rows /\ Out \in SUBSET rows
      /\ \A r \in In : in[r] \in Int
      /\ \A r \in Out : out[r] \in Int
      /\ \A r \in rows : hin[r] = IF r \in In THEN in[r] ELSE 0
      /\ \A r \in rows : hout[r] = IF r \in Out THEN out[r] ELSE 0
  BY <1>3
<1>8. /\ Total(rows, "input") = SumFunctionOnSet(in, In)
      /\ Total(rows, "withholding") = SumFunctionOnSet(out, Out)
  BY DEF Total, Taxes, SumFunction
<1>9. {r \in rows : r.line.basis # "input"} = Out
  BY <1>3
<1> DEFINE a == Added
           w == Withheld
<1>10. /\ \A i \in 1 .. n : a[i] \in Int /\ hin[place[i]] = a[i]
       /\ \A i \in 1 .. n : w[i] \in Int /\ hout[place[i]] = w[i]
  BY <1>6
<1> HIDE DEF n, In, Out, in, out, hin, hout, a, w
<1>11. /\ IsFiniteSet(rows)
       /\ SumFunctionOnSet(hin, rows) = SumFunctionOnSet(a, 1 .. n)
       /\ SumFunctionOnSet(hout, rows) = SumFunctionOnSet(w, 1 .. n)
  <2>1. /\ \A i \in 1 .. n : a[i] \in Int
        /\ \A i \in 1 .. n : w[i] \in Int
        /\ \A i \in 1 .. n : hin[place[i]] = a[i]
        /\ \A i \in 1 .. n : hout[place[i]] = w[i]
    BY <1>10
  <2> DEFINE places == 1 .. n
  <2> HIDE DEF places
  <2>2. /\ IsFiniteSet(places) /\ place \in Bijection(places, rows)
        /\ \A i \in places : a[i] \in Int
        /\ \A i \in places : w[i] \in Int
        /\ \A i \in places : hin[place[i]] = a[i]
        /\ \A i \in places : hout[place[i]] = w[i]
    BY <1>1, <1>5, <2>1 DEF places
  <2>3. SumFunctionOnSet(hin, rows) = SumFunctionOnSet(a, places)
    BY <2>2, SumReindex
  <2>4. SumFunctionOnSet(hout, rows) = SumFunctionOnSet(w, places)
    BY <2>2, SumReindex
  <2>5. IsFiniteSet(rows)
    <3>1. place \in Surjection(places, rows)
      BY <2>2 DEF Bijection
    <3> QED BY <2>2, <3>1, FS_Surjection
  <2> QED BY <2>3, <2>4, <2>5 DEF places
<1>12. /\ SumFunctionOnSet(hin, rows) = SumFunctionOnSet(in, In)
       /\ SumFunctionOnSet(hout, rows) = SumFunctionOnSet(out, Out)
  BY <1>7, <1>11, SumFilter
<1>13. /\ Sum(Added, n) = Total(rows, "input")
       /\ Sum(Withheld, n) = Total(rows, "withholding")
  BY <1>8, <1>11, <1>12 DEF Sum, a, w
<1>14. Taxes({r \in rows : r.line.basis # "input"}) = Total(rows, "withholding")
  BY <1>9 DEF Total, Out
<1> QED BY <1>13, <1>14 DEF n

\* TaxOverlay's amounts are the envelope's: of an overlay whose rows the loop
\* reads, in whatever order, an envelope is built where PostEnvelope goes on,
\* its payee is credited with EnvelopeNet, and settle asks for SettleAmount.
THEOREM OverlayAmounts ==
    EnvelopeSpec =>
      [](\A rows \in SUBSET TaxRow :
           Listing(rows) /\ amount_total = AmountTotal =>
             /\ AmountAsked = SettleAmount(rows)
             /\ result = "envelope" =>
                  /\ Total(rows, "withholding") <= Gross(rows)
                  /\ PartyCredit = EnvelopeNet(rows)
             /\ result = "WithholdingExceedsClaim" =>
                  Total(rows, "withholding") > Gross(rows))
<1>1. ASSUME EnvelopeInv, NEW rows \in SUBSET TaxRow,
             Listing(rows), amount_total = AmountTotal
      PROVE  /\ AmountAsked = SettleAmount(rows)
             /\ result = "envelope" =>
                  /\ Total(rows, "withholding") <= Gross(rows)
                  /\ PartyCredit = EnvelopeNet(rows)
             /\ result = "WithholdingExceedsClaim" =>
                  Total(rows, "withholding") > Gross(rows)
  <2> DEFINE i == Total(rows, "input")
             w == Total(rows, "withholding")
  <2>1. EnvelopeTyped /\ DOMAIN taxes = 1 .. Len(taxes)
    BY <1>1 DEF EnvelopeInv, EnvelopeTyped
  <2>2. /\ Sum(Added, Len(taxes)) = i
        /\ Sum(Withheld, Len(taxes)) = w
        /\ Taxes({r \in rows : r.line.basis # "input"}) = w
    BY <1>1, <2>1, ListingAddsUp
  <2>3. AmountAsked = amount_total + Sum(Added, Len(taxes))
                                   - Sum(Withheld, Len(taxes))
    BY <2>1 DEF AmountAsked, SumFunction, Sum, Added, Withheld
  <2>4. amount_total \in Nat /\ i \in Int /\ w \in Int
    <3>1. IsFiniteSet(1 .. Len(taxes))
      BY <2>1, FS_Interval DEF EnvelopeTyped
    <3>2. \A j \in 1 .. Len(taxes) : Added[j] \in Int /\ Withheld[j] \in Int
      BY <2>1, RowAmounts DEF Added, Withheld
    <3>3. Sum(Added, Len(taxes)) \in Int /\ Sum(Withheld, Len(taxes)) \in Int
      BY <3>1, <3>2, SumInt DEF Sum
    <3> QED BY <2>1, <2>2, <3>3 DEF EnvelopeTyped
  <2>5. AmountAsked = SettleAmount(rows)
    BY <1>1, <2>2, <2>3, <2>4 DEF SettleAmount, Gross
  <2>6. ASSUME next = Len(taxes) + 1
        PROVE  input_tax = i /\ withholding = w
    BY <1>1, <2>1, <2>2, <2>6
    DEF EnvelopeInv, EnvelopeTyped, SumsAreRead
  <2> QED
    BY <1>1, <2>5, <2>6
    DEF EnvelopeInv, LinesAreSums, gross, Gross, EnvelopeNet
<1>2. EnvelopeInv =>
        \A rows \in SUBSET TaxRow :
           Listing(rows) /\ amount_total = AmountTotal =>
             /\ AmountAsked = SettleAmount(rows)
             /\ result = "envelope" =>
                  /\ Total(rows, "withholding") <= Gross(rows)
                  /\ PartyCredit = EnvelopeNet(rows)
             /\ result = "WithholdingExceedsClaim" =>
                  Total(rows, "withholding") > Gross(rows)
  BY <1>1
<1> QED BY <1>2, EnvelopeInvariant, PTL
================================================================================
