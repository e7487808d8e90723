-------------------------- MODULE AuditTrail_proofs ---------------------------
(***************************************************************************)
(* Proofs about AuditTrail, for any fields, values and transactions: the   *)
(* walk over the entries gives the row of every instant, or of now, and an *)
(* answer that no open transaction can reach stands.                       *)
(*                                                                         *)
(* The walk is a recursion on sets of entries.  First it is unfolded: one  *)
(* entry more, later than the others, is applied to the image of those.    *)
(* The invariant is then about the image itself.  It is the committed row, *)
(* and the entry that a transaction with the row's lock will leave comes   *)
(* later than all others and turns that row into the transaction's: on a   *)
(* fine clock by the lock and a commit's time where entries are stamped as *)
(* changes are made, and by that no transactions overlap where they are    *)
(* stamped with starts; on a coarse clock by the ids of transactions that  *)
(* do not overlap, which are compared as texts of one width.               *)
(***************************************************************************)
EXTENDS AuditTrail, Sums

\* Entries that can be put in an order: of any two, one precedes the other.
Timed(entries) ==
    /\ IsFiniteSet(entries)
    /\ \A e \in entries : e.occurred_at \in Nat /\ e.txid \in Nat
    /\ \A d, e \in entries : Precedes(d, e) \/ Precedes(e, d) \/ d = e

\* An entry that was made before another one: a fine clock tells, or the
\* number of the id does.
Earlier(d, e) ==
    IF fine THEN d.occurred_at < e.occurred_at
    ELSE d.occurred_at <= e.occurred_at /\ d.txid < e.txid

Row == Image \cup {Gone}

\* An instant that is over at another one.
Over(at, now) == at <= now /\ (fine => at < now)

\* What a transaction holds.
TxOK(t) ==
    /\ tx[t] = [pc |-> tx[t].pc, began |-> tx[t].began, txid |-> tx[t].txid,
                at |-> tx[t].at, row |-> tx[t].row, entry |-> tx[t].entry]
    /\ tx[t].pc \in {"new", "begun", "changed", "ended"}
    /\ tx[t].began \in Nat /\ tx[t].began <= clock
    /\ tx[t].txid \in Nat /\ tx[t].txid < next
    /\ tx[t].pc = "new" => tx[t].txid = 0
    /\ tx[t].pc = "changed" =>
         /\ tx[t].at \in Nat /\ tx[t].at <= clock
         /\ tx[t].row \in Row
         /\ Apply(row, tx[t].entry) = tx[t].row
         /\ tx[t].entry.txid = tx[t].txid
         /\ tx[t].entry.occurred_at =
              IF stamp = "start" THEN tx[t].began ELSE tx[t].at
         /\ \A j \in DOMAIN versions : Over(versions[j].at, tx[t].at)

Typed ==
    /\ clock \in Nat /\ next \in Nat \ {0}
    /\ stamp \in {"start", "change"} /\ fine \in BOOLEAN /\ alone \in BOOLEAN
    /\ row \in Row
    /\ DOMAIN tx = Txs
    /\ \A t \in Txs : TxOK(t)

\* The row's lock, and what no overlap means.
Locked == \A t, o \in Txs : tx[t].pc = "changed" /\ tx[o].pc = "changed" => t = o
Apart ==
    alone => \A t \in Txs : Open(t) =>
               /\ \A o \in Txs : Open(o) => o = t
               /\ stamp = "start" =>
                    \A e \in trail : Over(e.occurred_at, tx[t].began)
               /\ tx[t].txid # 0 => \A e \in trail : e.txid < tx[t].txid

\* The changes that were committed, and their entries.
Committed ==
    /\ versions \in Seq([at : Nat, row : Row])
    /\ \A j \in DOMAIN versions : Over(versions[j].at, clock)
    /\ \A e \in trail : e.occurred_at \in Nat /\ Over(e.occurred_at, clock)
    /\ \A e \in trail : e.txid \in Nat /\ e.txid < next
    /\ trail = {} <=> versions = <<>>

\* The walk over the whole trail follows the row.
Follows ==
    Followed =>
      /\ Timed(trail)
      /\ Rebuilt(trail) = row
      /\ \A t \in Txs : tx[t].pc = "changed" =>
           \A e \in trail : Earlier(e, tx[t].entry)

\* The walk is the row at every instant, where entries have the times of their
\* changes.
Stamped == ImageIsRow

IInv == Typed /\ Locked /\ Apart /\ Committed /\ Follows /\ Stamped

-----------------------------------------------------------------------------
(* The walk, a recursion on sets of entries.                               *)

\* Every set of some of the entries has a last one.
Ordered(entries) ==
    \A some \in SUBSET entries : some # {} => LastOf(some) \in some

\* The functions that the recursion describes.
IsWalk(entries, image) ==
    image = [walked \in SUBSET entries |->
               IF walked = {} THEN Gone
               ELSE Apply(image[walked \ {LastOf(walked)}], LastOf(walked))]

\* The definition, with a name for its part.
LEMMA RebuiltIs ==
    ASSUME NEW D
    PROVE  Rebuilt(D) = (CHOOSE g : IsWalk(D, g))[D]
BY DEF Rebuilt, IsWalk

\* There is at most one such function, of whatever set.
LEMMA WalkUnique ==
    ASSUME NEW A, IsFiniteSet(A), Ordered(A), NEW B, A \subseteq B,
           NEW g, IsWalk(A, g), NEW h, IsWalk(B, h)
    PROVE  g[A] = h[A]
<1> DEFINE G == {s \in SUBSET A : g[s] = h[s]}
<1>1. ASSUME NEW U \in SUBSET A, \A V \in SUBSET U : V # U => V \in G
      PROVE  U \in G
  <2> DEFINE l == LastOf(U)
  <2>1. g[U] = IF U = {} THEN Gone ELSE Apply(g[U \ {l}], l)
    BY DEF IsWalk
  <2>2. U \in SUBSET B
    OBVIOUS
  <2>3. h[U] = IF U = {} THEN Gone ELSE Apply(h[U \ {l}], l)
    BY <2>2 DEF IsWalk
  <2>4. U # {} => g[U \ {l}] = h[U \ {l}]
    BY <1>1 DEF Ordered
  <2> QED BY <2>1, <2>3, <2>4
<1>2. A \in G
  <2>1. G \in SUBSET SUBSET A
    OBVIOUS
  <2> HIDE DEF G
  <2> QED BY <1>1, <2>1, SubsetInduction
<1> QED BY <1>2

\* There is one, on the subsets of a finite set that has an order.
LEMMA WalkExists ==
    ASSUME NEW S, IsFiniteSet(S), Ordered(S)
    PROVE  \E g : IsWalk(S, g)
<1> DEFINE G == {U \in SUBSET S : \E g : IsWalk(U, g)}
           H(U) == Rebuilt(U)
<1>1. ASSUME NEW U \in SUBSET S, \A V \in SUBSET U : V # U => V \in G
      PROVE  U \in G
  <2>1. ASSUME NEW V \in SUBSET U, V # U
        PROVE  /\ IsWalk(V, CHOOSE g : IsWalk(V, g))
               /\ H(V) = (CHOOSE g : IsWalk(V, g))[V]
    <3>1. V \in G
      BY <1>1, <2>1
    <3> QED BY <3>1, RebuiltIs
  <2>2. ASSUME NEW V \in SUBSET U, V # U
        PROVE  H(V) = IF V = {} THEN Gone
                      ELSE Apply(H(V \ {LastOf(V)}), LastOf(V))
    <3> DEFINE g == CHOOSE g : IsWalk(V, g)
               l == LastOf(V)
               W == V \ {l}
               h == CHOOSE h : IsWalk(W, h)
    <3>1. IsWalk(V, g) /\ H(V) = g[V]
      BY <2>1, <2>2
    <3>2. W \in SUBSET U /\ W # U
      BY <2>2
    <3>3. IsWalk(W, h) /\ H(W) = h[W]
      BY <2>1, <3>2
    <3>4. IsFiniteSet(W) /\ Ordered(W)
      BY FS_Subset, <3>2 DEF Ordered
    <3>5. W \subseteq V
      OBVIOUS
    <3> HIDE DEF g, h, H, W, l
    <3>6. h[W] = g[W]
      BY <3>1, <3>3, <3>4, <3>5, WalkUnique
    <3>7. g[V] = IF V = {} THEN Gone ELSE Apply(g[V \ {l}], l)
      BY <3>1, V \in SUBSET V DEF IsWalk, l
    <3> QED BY <3>1, <3>3, <3>6, <3>7 DEF W, l
  <2> DEFINE k == [s \in SUBSET U |->
                     IF s = {} THEN Gone
                     ELSE Apply(H(s \ {LastOf(s)}), LastOf(s))]
  <2>3. ASSUME NEW s \in SUBSET U, s # {}
        PROVE  k[s \ {LastOf(s)}] = H(s \ {LastOf(s)})
    <3> DEFINE V == s \ {LastOf(s)}
    <3>1. V \in SUBSET U /\ V # U
      BY <2>3 DEF Ordered
    <3>2. H(V) = IF V = {} THEN Gone ELSE Apply(H(V \ {LastOf(V)}), LastOf(V))
      BY <2>2, <3>1
    <3>3. k[V] = IF V = {} THEN Gone ELSE Apply(H(V \ {LastOf(V)}), LastOf(V))
      BY <3>1
    <3> HIDE DEF V, H, k
    <3>4. k[V] = H(V)
      BY <3>2, <3>3
    <3> QED BY <3>4 DEF V
  <2>4. k = [s \in SUBSET U |->
               IF s = {} THEN Gone
               ELSE Apply(k[s \ {LastOf(s)}], LastOf(s))]
    <3> HIDE DEF H
    <3>1. ASSUME NEW s \in SUBSET U
          PROVE  k[s] = IF s = {} THEN Gone
                        ELSE Apply(k[s \ {LastOf(s)}], LastOf(s))
      BY <2>3
    <3>2. k = [s \in SUBSET U |-> k[s]]
      OBVIOUS
    <3> HIDE DEF k
    <3> QED BY <3>1, <3>2
  <2>5. IsWalk(U, k)
    <3> HIDE DEF k
    <3> QED BY <2>4 DEF IsWalk
  <2> QED BY <2>5
<1>2. S \in G
  <2>1. G \in SUBSET SUBSET S
    OBVIOUS
  <2> HIDE DEF G
  <2> QED BY <1>1, <2>1, SubsetInduction
<1> QED BY <1>2

\* The recursion, of the images themselves.
LEMMA RebuiltUnfold ==
    ASSUME NEW S, IsFiniteSet(S), Ordered(S)
    PROVE  Rebuilt(S) =
             IF S = {} THEN Gone
             ELSE Apply(Rebuilt(S \ {LastOf(S)}), LastOf(S))
<1> DEFINE g == CHOOSE g : IsWalk(S, g)
           l == LastOf(S)
           W == S \ {l}
           h == CHOOSE h : IsWalk(W, h)
<1>1. IsFiniteSet(W) /\ Ordered(W)
  BY FS_Subset DEF Ordered
<1>2. IsWalk(S, g) /\ IsWalk(W, h)
  BY <1>1, WalkExists
<1>3. W \subseteq S
  OBVIOUS
<1>4. Rebuilt(S) = g[S] /\ Rebuilt(W) = h[W]
  BY RebuiltIs
<1> HIDE DEF g, h
<1>5. g[W] = h[W]
  <2> HIDE DEF W
  <2> QED BY <1>1, <1>2, <1>3, WalkUnique
<1>6. g[S] = IF S = {} THEN Gone ELSE Apply(g[W], l)
  BY <1>2, S \in SUBSET S DEF IsWalk
<1> QED BY <1>4, <1>5, <1>6

\* The order of the query is one.
LEMMA TextOrderNat ==
    ASSUME NEW id \in Nat
    PROVE  TextOrder(id) \in Nat
BY DEF TextOrder

LEMMA PrecedesIsOrder ==
    ASSUME NEW a, a.occurred_at \in Nat, a.txid \in Nat,
           NEW b, b.occurred_at \in Nat, b.txid \in Nat,
           NEW c, c.occurred_at \in Nat, c.txid \in Nat,
           Precedes(a, b)
    PROVE  ~Precedes(b, a) /\ (Precedes(b, c) => Precedes(a, c))
<1>1. /\ TextOrder(a.txid) \in Nat /\ TextOrder(b.txid) \in Nat
      /\ TextOrder(c.txid) \in Nat
  BY TextOrderNat
<1> QED BY <1>1 DEF Precedes

\* What was made earlier precedes, where the clock is fine or the ids have one
\* width.
LEMMA EarlierPrecedes ==
    ASSUME fine \in BOOLEAN,
           NEW d, d.occurred_at \in Nat, d.txid \in Nat,
           NEW e, e.occurred_at \in Nat, e.txid \in Nat,
           Earlier(d, e), fine \/ (d.txid < 10 <=> e.txid < 10)
    PROVE  Precedes(d, e)
<1>1. CASE fine
  BY <1>1 DEF Earlier, Precedes
<1>2. CASE ~fine
  <2>1. d.occurred_at <= e.occurred_at /\ d.txid < e.txid
    BY <1>2 DEF Earlier
  <2>2. TextOrder(d.txid) < TextOrder(e.txid)
    BY <1>2, <2>1 DEF TextOrder
  <2> QED BY <2>1, <2>2 DEF Precedes
<1> QED BY <1>1, <1>2

\* An entry that all others precede is the last one.
LEMMA LatestIsLast ==
    ASSUME NEW S, NEW e \in S,
           \A d \in S : d.occurred_at \in Nat /\ d.txid \in Nat,
           \A d \in S \ {e} : Precedes(d, e)
    PROVE  LastOf(S) = e
<1>1. \A d \in S \ {e} : Precedes(d, e) /\ ~Precedes(e, d)
  BY PrecedesIsOrder
<1> QED BY <1>1 DEF LastOf

\* Such entries are in an order.
LEMMA TimedIsOrdered ==
    ASSUME NEW D, Timed(D)
    PROVE  Ordered(D)
<1> DEFINE Late(U, e) == \A d \in U \ {e} : Precedes(d, e)
           G == {U \in SUBSET D : U # {} => \E e \in U : Late(U, e)}
<1>1. ASSUME NEW S \in SUBSET D
      PROVE  S \in G
  <2> DEFINE F == G \cap SUBSET S
  <2>1. {} \in F
    OBVIOUS
  <2>2. ASSUME NEW U \in F, NEW x \in S \ U
        PROVE  U \cup {x} \in F
    <3>1. CASE U = {}
      BY <3>1
    <3>2. CASE U # {}
      <4>1. PICK e \in U : Late(U, e)
        BY <3>2
      <4>2. /\ \A d \in U \cup {x} : d.occurred_at \in Nat /\ d.txid \in Nat
            /\ Precedes(x, e) \/ Precedes(e, x)
        BY DEF Timed
      <4>3. CASE Precedes(x, e)
        <5>1. Late(U \cup {x}, e)
          BY <4>1, <4>3
        <5> QED BY <5>1
      <4>4. CASE Precedes(e, x)
        <5>1. \A d \in U : Precedes(d, x)
          BY <4>1, <4>2, <4>4, PrecedesIsOrder
        <5>2. Late(U \cup {x}, x)
          BY <5>1
        <5> QED BY <5>2
      <4> QED BY <4>2, <4>3, <4>4
    <3> QED BY <3>1, <3>2
  <2>3. IsFiniteSet(S)
    BY FS_Subset DEF Timed
  <2>4. F \in SUBSET SUBSET S
    OBVIOUS
  <2> HIDE DEF F
  <2>5. S \in F
    BY <2>1, <2>2, <2>3, <2>4, AddInduction
  <2> QED BY <2>5 DEF F
<1>2. ASSUME NEW S \in SUBSET D, S # {}
      PROVE  LastOf(S) \in S
  <2>1. PICK e \in S : Late(S, e)
    BY <1>1, <1>2
  <2>2. \A d \in S : d.occurred_at \in Nat /\ d.txid \in Nat
    BY DEF Timed
  <2> QED BY <2>1, <2>2, LatestIsLast
<1> QED BY <1>2 DEF Ordered

\* One entry more, later than all others: it is applied to their image.
LEMMA OneEntryMore ==
    ASSUME NEW D, Timed(D), NEW e, e.occurred_at \in Nat, e.txid \in Nat,
           \A d \in D : Precedes(d, e)
    PROVE  /\ Timed(D \cup {e})
           /\ Rebuilt(D \cup {e}) = Apply(Rebuilt(D), e)
<1> DEFINE S == D \cup {e}
<1>1. e \notin D
  BY PrecedesIsOrder
<1>2. Timed(S)
  BY FS_AddElement DEF Timed
<1>3. LastOf(S) = e
  BY LatestIsLast DEF Timed
<1>4. S \ {e} = D /\ S # {}
  BY <1>1
<1>5. IsFiniteSet(S) /\ Ordered(S)
  BY <1>2, TimedIsOrdered DEF Timed
<1> HIDE DEF S
<1>6. Rebuilt(S) = Apply(Rebuilt(S \ {LastOf(S)}), LastOf(S))
  BY <1>4, <1>5, RebuiltUnfold
<1> QED BY <1>2, <1>3, <1>4, <1>6 DEF S

\* The image of no entries.
LEMMA RebuiltEmpty == Rebuilt({}) = Gone
BY RebuiltUnfold, FS_EmptySet DEF Ordered

-----------------------------------------------------------------------------
(* The invariant.                                                          *)

\* A delete leaves nothing, an insert its row, and an update, laid over the
\* row it found, the row it made.
LEMMA ChangesApply ==
    ASSUME NEW action, NEW txid, NEW at,
           NEW r \in Row, NEW changed,
           \/ action = "insert" /\ row = Gone /\ r \in Image /\ changed = r
           \/ /\ action = "update" /\ row \in Image /\ r \in Image
              /\ changed = [f \in Differing(r) |-> r[f]]
           \/ action = "delete" /\ r = Gone
    PROVE  Apply(row, [action |-> action, changed |-> changed, txid |-> txid,
                       occurred_at |-> at]) = r
<1> DEFINE e == [action |-> action, changed |-> changed, txid |-> txid,
                 occurred_at |-> at]
<1>1. e.action = action /\ e.changed = changed
  OBVIOUS
<1> HIDE DEF e
<1>2. CASE action = "delete" /\ r = Gone
  BY <1>1, <1>2 DEF Apply
<1>3. CASE action = "insert" /\ row = Gone /\ changed = r
  BY <1>1, <1>3 DEF Apply
<1>4. CASE /\ action = "update" /\ row \in Image /\ r \in Image
           /\ changed = [f \in Differing(r) |-> r[f]]
  <2>1. row # Gone
    BY <1>4, GoneOK DEF Image
  <2>2. Apply(row, e) = Overlay(row, changed)
    BY <1>1, <1>4, <2>1 DEF Apply
  <2>3. /\ DOMAIN changed = Differing(r) /\ Differing(r) \subseteq Fields
        /\ \A f \in Differing(r) : changed[f] = r[f]
        /\ \A f \in Fields \ Differing(r) : row[f] = r[f]
    BY <1>4 DEF Differing
  <2>4. /\ DOMAIN row = Fields /\ r = [f \in Fields |-> r[f]]
    BY <1>4 DEF Image
  <2>5. Overlay(row, changed)
          = [f \in Fields |-> IF f \in DOMAIN changed THEN changed[f] ELSE row[f]]
    BY <2>3, <2>4, Fields \cup Differing(r) = Fields DEF Overlay
  <2>6. \A f \in Fields :
          (IF f \in DOMAIN changed THEN changed[f] ELSE row[f]) = r[f]
    BY <2>3
  <2>7. [f \in Fields |-> IF f \in DOMAIN changed THEN changed[f] ELSE row[f]]
          = [f \in Fields |-> r[f]]
    BY <2>6
  <2> QED BY <2>2, <2>4, <2>5, <2>7 DEF e
<1> QED BY <1>2, <1>3, <1>4 DEF e

LEMMA InitInv == Init => IInv
<1> SUFFICES ASSUME Init PROVE IInv
  OBVIOUS
<1> USE DEF Init
<1>1. Typed
  BY StampsOK, TxidsOK DEF Typed, TxOK, Fresh, Row
<1>2. Locked /\ Apart
  BY DEF Locked, Apart, Open, Fresh
<1>3. Committed
  BY DEF Committed
<1>4. Follows
  BY RebuiltEmpty, FS_EmptySet DEF Follows, Timed, Fresh
<1>5. Stamped
  BY DEF Stamped, ImageIsRow, Answer, RowAt, Due
<1> QED BY <1>1, <1>2, <1>3, <1>4, <1>5 DEF IInv

\* What the committed changes are made of.
LEMMA VersionsTyped ==
    ASSUME Committed
    PROVE  /\ Len(versions) \in Nat /\ DOMAIN versions = 1 .. Len(versions)
           /\ \A j \in DOMAIN versions :
                versions[j].at \in Nat /\ versions[j].row \in Row
<1> DEFINE V == [at : Nat, row : Row]
<1>1. \A v \in V : v.at \in Nat /\ v.row \in Row
  OBVIOUS
<1>2. versions \in Seq(V)
  BY DEF Committed
<1> HIDE DEF V
<1> QED BY <1>1, <1>2

\* What a step that commits nothing has to keep: the transactions, the row's
\* lock and what no overlap means.
LEMMA NothingCommitted ==
    ASSUME IInv, UNCHANGED <<row, trail, stamp, fine, versions>>,
           clock' \in Nat, clock <= clock', next' \in Nat, next <= next',
           alone' \in BOOLEAN, alone' => alone,
           Typed', Locked', Apart',
           \A t \in Txs : tx'[t].pc = "changed" =>
             \/ tx[t].pc = "changed" /\ tx'[t] = tx[t]
             \/ Followed => \A e \in trail : Earlier(e, tx'[t].entry)
    PROVE  IInv'
<1>1. Committed'
  <2>1. clock \in Nat /\ next \in Nat /\ Committed
    BY DEF IInv, Typed
  <2>2. \A j \in DOMAIN versions : versions[j].at \in Nat
    BY <2>1, VersionsTyped
  <2>3. \A j \in DOMAIN versions : Over(versions[j].at, clock')
    BY <2>1, <2>2 DEF Committed, Over
  <2>4. \A e \in trail : e.occurred_at \in Nat /\ Over(e.occurred_at, clock')
    BY <2>1 DEF Committed, Over
  <2>5. \A e \in trail : e.txid \in Nat /\ e.txid < next'
    BY <2>1 DEF Committed
  <2> QED BY <2>1, <2>3, <2>4, <2>5 DEF Committed, Over
<1>2. Follows'
  <2>1. Followed' => Followed
    BY DEF Followed, OneWidth
  <2>2. Rebuilt(trail)' = Rebuilt(trail) /\ Timed(trail)' = Timed(trail)
    OBVIOUS
  <2> QED BY <2>1, <2>2 DEF IInv, Follows, Earlier
<1>3. Stamped'
  <2>1. \A i : Answer(i)' = Answer(i) /\ RowAt(i)' = RowAt(i)
    BY DEF Answer, Due, RowAt
  <2>2. Followed' => Followed
    BY DEF Followed, OneWidth
  <2> QED BY <2>1, <2>2 DEF IInv, Stamped, ImageIsRow
<1> QED BY <1>1, <1>2, <1>3 DEF IInv

\* An open transaction that has its id comes after all entries, where the walk
\* follows the row.
LEMMA OpenIsLater ==
    ASSUME IInv, NEW t \in Txs, tx[t].pc = "begun", tx[t].txid # 0, Followed,
           NEW e, e.txid = tx[t].txid,
           e.occurred_at = IF stamp = "start" THEN tx[t].began ELSE clock
    PROVE  \A d \in trail : Earlier(d, e)
<1>1. \A d \in trail : Over(d.occurred_at, e.occurred_at)
  <2>1. CASE stamp = "start"
    BY <2>1 DEF IInv, Typed, Followed, Apart, Open
  <2>2. CASE stamp = "change"
    BY <2>2 DEF IInv, Committed
  <2> QED BY <2>1, <2>2 DEF IInv, Typed
<1>2. ~fine => \A d \in trail : d.txid < e.txid
  BY DEF IInv, Typed, Followed, Apart, Open
<1> QED BY <1>1, <1>2 DEF Earlier, Over

LEMMA BeginInv ==
    ASSUME IInv, NEW t \in Txs, Begin(t)
    PROVE  IInv'
<1>1. /\ UNCHANGED <<row, trail, clock, next, stamp, fine, versions>>
      /\ alone' = (alone /\ \A o \in Txs : ~Open(o))
      /\ tx' = [tx EXCEPT ![t].pc = "begun", ![t].began = clock]
      /\ tx[t].pc = "new"
      /\ clock \in Nat
  BY DEF Begin, IInv, Typed
<1>2. /\ DOMAIN tx' = Txs
      /\ \A o \in Txs \ {t} : tx'[o] = tx[o]
      /\ tx'[t] = [pc |-> "begun", began |-> clock, txid |-> tx[t].txid,
                   at |-> tx[t].at, row |-> tx[t].row, entry |-> tx[t].entry]
  <2>1. DOMAIN tx = Txs /\ TxOK(t)
    BY DEF IInv, Typed
  <2>2. tx'[t] = [tx[t] EXCEPT !.pc = "begun", !.began = clock]
    BY <1>1, <2>1
  <2>3. tx'[t] = [pc |-> "begun", began |-> clock, txid |-> tx[t].txid,
                  at |-> tx[t].at, row |-> tx[t].row, entry |-> tx[t].entry]
    BY <2>1, <2>2 DEF TxOK
  <2> QED BY <1>1, <2>1, <2>3
<1>3. Typed'
  BY <1>1, <1>2 DEF IInv, Typed, TxOK, Over
<1>4. Locked'
  BY <1>2 DEF IInv, Locked
<1>5. Apart'
  <2>1. \A o \in Txs \ {t} : Open(o)' <=> Open(o)
    BY <1>2 DEF Open
  <2>2. alone' => \A o \in Txs \ {t} : ~Open(o)'
    BY <1>1, <2>1
  <2>3. (\A e \in trail : Over(e.occurred_at, tx[t].began))'
    BY <1>1, <1>2 DEF IInv, Committed, Over
  <2>4. tx'[t].txid = 0
    BY <1>1, <1>2 DEF IInv, Typed, TxOK
  <2> QED BY <2>2, <2>3, <2>4 DEF Apart
<1>6. \A o \in Txs : tx'[o].pc = "changed" => tx'[o] = tx[o]
  BY <1>2
<1> QED BY <1>1, <1>3, <1>4, <1>5, <1>6, NothingCommitted DEF IInv, Typed

LEMMA AssignInv ==
    ASSUME IInv, NEW t \in Txs, Assign(t)
    PROVE  IInv'
<1>1. /\ UNCHANGED <<row, trail, clock, stamp, fine, alone, versions>>
      /\ tx' = [tx EXCEPT ![t].txid = next]
      /\ next' = next + 1
      /\ tx[t].pc = "begun"
      /\ clock \in Nat /\ next \in Nat \ {0} /\ alone \in BOOLEAN
  BY DEF Assign, IInv, Typed
<1>2. /\ DOMAIN tx' = Txs
      /\ \A o \in Txs \ {t} : tx'[o] = tx[o]
      /\ tx'[t] = [pc |-> "begun", began |-> tx[t].began, txid |-> next,
                   at |-> tx[t].at, row |-> tx[t].row, entry |-> tx[t].entry]
  <2>1. DOMAIN tx = Txs /\ TxOK(t)
    BY DEF IInv, Typed
  <2>2. tx'[t] = [tx[t] EXCEPT !.txid = next]
    BY <1>1, <2>1
  <2>3. tx'[t] = [pc |-> "begun", began |-> tx[t].began, txid |-> next,
                  at |-> tx[t].at, row |-> tx[t].row, entry |-> tx[t].entry]
    BY <1>1, <2>1, <2>2 DEF TxOK
  <2> QED BY <1>1, <2>1, <2>3
<1>3. Typed'
  BY <1>1, <1>2 DEF IInv, Typed, TxOK, Over
<1>4. Locked'
  BY <1>2 DEF IInv, Locked
<1>5. Apart'
  <2>1. \A o \in Txs : Open(o)' <=> Open(o)
    BY <1>1, <1>2 DEF Open
  <2>2. \A e \in trail : e.txid < tx'[t].txid
    BY <1>2 DEF IInv, Committed
  <2>3. \A o \in Txs : tx'[o].began = tx[o].began
    BY <1>2
  <2> SUFFICES ASSUME alone, NEW o \in Txs, Open(o)
               PROVE  /\ \A p \in Txs : Open(p) => p = o
                      /\ stamp = "start" =>
                           (\A e \in trail : Over(e.occurred_at, tx[o].began))'
                      /\ tx'[o].txid # 0 => \A e \in trail : e.txid < tx'[o].txid
    BY <1>1, <2>1 DEF Apart
  <2>4. \A p \in Txs : Open(p) => p = o
    BY DEF IInv, Apart
  <2>5. stamp = "start" => (\A e \in trail : Over(e.occurred_at, tx[o].began))'
    BY <1>1, <2>3 DEF IInv, Apart, Over
  <2>6. tx'[o].txid # 0 => \A e \in trail : e.txid < tx'[o].txid
    BY <1>2, <2>2 DEF IInv, Apart
  <2> QED BY <2>4, <2>5, <2>6
<1>6. \A o \in Txs : tx'[o].pc = "changed" => tx[o].pc = "changed" /\ tx'[o] = tx[o]
  BY <1>2
<1> QED BY <1>1, <1>3, <1>4, <1>5, <1>6, NothingCommitted

LEMMA ChangeInv ==
    ASSUME IInv, NEW t \in Txs, NEW action, NEW r \in Row, NEW changed,
           Change(t, action, r, changed),
           \/ action = "insert" /\ row = Gone /\ r \in Image /\ changed = r
           \/ /\ action = "update" /\ row \in Image /\ r \in Image
              /\ changed = [f \in Differing(r) |-> r[f]]
           \/ action = "delete" /\ r = Gone
    PROVE  IInv'
<1> DEFINE e == [action |-> action, changed |-> changed, txid |-> tx[t].txid,
                 occurred_at |-> IF stamp = "start" THEN tx[t].began ELSE clock]
<1>1. /\ UNCHANGED <<row, trail, clock, next, stamp, fine, alone, versions>>
      /\ tx' = [tx EXCEPT ![t].pc = "changed", ![t].at = clock, ![t].row = r,
                          ![t].entry = e]
      /\ tx[t].pc = "begun" /\ tx[t].txid # 0
      /\ \A o \in Txs : tx[o].pc # "changed"
  BY DEF Change
<1>2. /\ Apply(row, e) = r
      /\ e.txid = tx[t].txid
      /\ e.occurred_at = IF stamp = "start" THEN tx[t].began ELSE clock
  <2> DEFINE id == tx[t].txid
             at == IF stamp = "start" THEN tx[t].began ELSE clock
             f == [action |-> action, changed |-> changed, txid |-> id,
                   occurred_at |-> at]
  <2>1. Apply(row, f) = r
    <3> HIDE DEF id, at
    <3> QED BY ChangesApply
  <2>2. e = f /\ e.txid = id /\ e.occurred_at = at
    OBVIOUS
  <2> QED BY <2>1, <2>2
<1> HIDE DEF e
<1>3. /\ DOMAIN tx' = Txs
      /\ \A o \in Txs \ {t} : tx'[o] = tx[o]
      /\ tx'[t] = [pc |-> "changed", began |-> tx[t].began, txid |-> tx[t].txid,
                   at |-> clock, row |-> r, entry |-> e]
  <2>1. DOMAIN tx = Txs /\ TxOK(t)
    BY DEF IInv, Typed
  <2>2. tx'[t] = [tx[t] EXCEPT !.pc = "changed", !.at = clock, !.row = r,
                               !.entry = e]
    BY <1>1, <2>1
  <2>3. tx'[t] = [pc |-> "changed", began |-> tx[t].began, txid |-> tx[t].txid,
                  at |-> clock, row |-> r, entry |-> e]
    BY <2>1, <2>2 DEF TxOK
  <2> QED BY <1>1, <2>1, <2>3
<1>4. Typed'
  <2>1. TxOK(t)'
    BY <1>1, <1>2, <1>3 DEF IInv, Typed, TxOK, Committed, Over
  <2>2. \A o \in Txs \ {t} : TxOK(o)'
    BY <1>1, <1>3 DEF IInv, Typed, TxOK, Over
  <2> QED BY <1>1, <1>3, <2>1, <2>2 DEF IInv, Typed, Row, Image
<1>5. Locked'
  BY <1>1, <1>3 DEF Locked
<1>6. Apart'
  <2>1. \A o \in Txs : Open(o)' <=> Open(o)
    BY <1>1, <1>3 DEF Open
  <2>2. \A o \in Txs : tx'[o].began = tx[o].began /\ tx'[o].txid = tx[o].txid
    BY <1>3
  <2> QED BY <1>1, <2>1, <2>2 DEF IInv, Apart, Over
<1>7. Followed => \A d \in trail : Earlier(d, tx'[t].entry)
  BY <1>1, <1>2, <1>3, OpenIsLater
<1>8. clock \in Nat /\ next \in Nat /\ alone \in BOOLEAN
  BY DEF IInv, Typed
<1> QED BY <1>1, <1>3, <1>4, <1>5, <1>6, <1>7, <1>8, NothingCommitted

\* An insert, an update or a delete.
LEMMA WriteInv ==
    ASSUME IInv, NEW t \in Txs, Insert(t) \/ Update(t) \/ Delete(t)
    PROVE  IInv'
<1>1. CASE Insert(t)
  BY <1>1, ChangeInv DEF Insert, Row
<1>2. CASE Update(t)
  <2>1. row \in Image
    BY <1>2 DEF Update, IInv, Typed, Row
  <2> QED BY <1>2, <2>1, ChangeInv DEF Update, Row
<1>3. CASE Delete(t)
  BY <1>3, ChangeInv DEF Delete, Row
<1> QED BY <1>1, <1>2, <1>3

LEMMA RollbackInv ==
    ASSUME IInv, NEW t \in Txs, Rollback(t)
    PROVE  IInv'
<1>1. /\ UNCHANGED <<row, trail, clock, next, stamp, fine, alone, versions>>
      /\ tx' = [tx EXCEPT ![t] = Ended]
  BY DEF Rollback
<1>2. /\ DOMAIN tx' = Txs
      /\ \A o \in Txs \ {t} : tx'[o] = tx[o]
      /\ tx'[t] = Ended
  BY <1>1 DEF IInv, Typed
<1>3. Typed'
  BY <1>1, <1>2 DEF IInv, Typed, TxOK, Row, Image, Ended, Fresh, Over
<1>4. Locked'
  BY <1>2 DEF IInv, Locked, Ended, Fresh
<1>5. Apart'
  <2>1. ~Open(t)' /\ \A o \in Txs \ {t} : Open(o)' <=> Open(o)
    BY <1>2 DEF Open, Ended, Fresh
  <2> QED BY <1>1, <1>2, <2>1 DEF IInv, Apart, Over
<1>6. \A o \in Txs : tx'[o].pc = "changed" => tx'[o] = tx[o]
  BY <1>2 DEF Ended, Fresh
<1>7. clock \in Nat /\ next \in Nat /\ alone \in BOOLEAN
  BY DEF IInv, Typed
<1> QED BY <1>1, <1>2, <1>3, <1>4, <1>5, <1>6, <1>7, NothingCommitted

LEMMA TickInv == IInv /\ Tick => IInv'
<1> SUFFICES ASSUME IInv, Tick PROVE IInv'
  OBVIOUS
<1>1. /\ UNCHANGED <<row, tx, trail, next, stamp, fine, alone, versions>>
      /\ clock' = clock + 1 /\ clock \in Nat
      /\ next \in Nat /\ alone \in BOOLEAN
  BY DEF Tick, IInv, Typed
<1>2. Typed'
  BY <1>1 DEF IInv, Typed, TxOK, Row, Image, Over
<1>3. Locked' /\ Apart'
  BY <1>1 DEF IInv, Locked, Apart, Open, Over
<1> QED BY <1>1, <1>2, <1>3, NothingCommitted

\* Of some numbers, finitely many, one is the last.
LEMMA HasLast ==
    ASSUME NEW S \in SUBSET Nat, IsFiniteSet(S), S # {}
    PROVE  \E j \in S : \A k \in S : k <= j
<1> DEFINE G == {U \in SUBSET S : U # {} => \E j \in U : \A k \in U : k <= j}
<1>1. {} \in G /\ G \in SUBSET SUBSET S
  OBVIOUS
<1>2. ASSUME NEW U \in G, NEW x \in S \ U
      PROVE  U \cup {x} \in G
  <2>1. CASE U = {}
    BY <2>1
  <2>2. CASE U # {}
    <3>1. PICK j \in U : \A k \in U : k <= j
      BY <2>2
    <3>2. CASE x <= j
      <4>1. \A k \in U \cup {x} : k <= j
        BY <3>1, <3>2
      <4> QED BY <4>1
    <3>3. CASE ~(x <= j)
      <4>1. \A k \in U \cup {x} : k <= x
        BY <3>1, <3>3
      <4> QED BY <4>1
    <3> QED BY <3>2, <3>3
  <2> QED BY <2>1, <2>2
<1>3. S \in G
  <2> HIDE DEF G
  <2> QED BY <1>1, <1>2, AddInduction
<1> QED BY <1>3

\* A commit adds the entry that comes after all others, and the row it made.
LEMMA CommitInv ==
    ASSUME IInv, NEW t \in Txs, Commit(t)
    PROVE  IInv'
<1> DEFINE e == tx[t].entry
           v == [at |-> tx[t].at, row |-> tx[t].row]
           n == Len(versions)
<1>1. /\ tx[t].pc = "changed"
      /\ row' = tx[t].row /\ trail' = trail \cup {e}
      /\ versions' = Append(versions, v)
      /\ tx' = [tx EXCEPT ![t] = Ended]
      /\ clock' = IF fine THEN clock + 1 ELSE clock
      /\ next' = next /\ stamp' = stamp /\ fine' = fine /\ alone' = alone
  BY DEF Commit
<1>2. /\ clock \in Nat /\ row \in Row /\ tx[t].row \in Row
      /\ tx[t].at \in Nat /\ tx[t].at <= clock
      /\ tx[t].began \in Nat /\ tx[t].began <= clock
      /\ Apply(row, e) = tx[t].row
      /\ e.occurred_at = IF stamp = "start" THEN tx[t].began ELSE tx[t].at
      /\ e.txid = tx[t].txid /\ e.txid \in Nat /\ e.txid < next
      /\ \A j \in DOMAIN versions : Over(versions[j].at, tx[t].at)
      /\ next \in Nat \ {0}
      /\ stamp \in {"start", "change"} /\ fine \in BOOLEAN /\ alone \in BOOLEAN
  BY <1>1 DEF IInv, Typed, TxOK
<1>3. /\ n \in Nat /\ DOMAIN versions = 1 .. n
      /\ \A j \in 1 .. n : versions[j].at \in Nat /\ versions[j].row \in Row
      /\ versions \in Seq([at : Nat, row : Row])
      /\ v \in [at : Nat, row : Row]
      /\ \A j \in 1 .. n : Over(versions[j].at, clock)
      /\ \A d \in trail : d.occurred_at \in Nat /\ Over(d.occurred_at, clock)
      /\ \A d \in trail : d.txid \in Nat /\ d.txid < next
  BY <1>2, VersionsTyped DEF IInv, Committed
<1>4. /\ v.at = tx[t].at /\ v.row = tx[t].row
      /\ e.occurred_at \in Nat /\ e.occurred_at <= clock
  BY <1>2
<1>5. /\ DOMAIN tx' = Txs
      /\ \A o \in Txs \ {t} : tx'[o] = tx[o]
      /\ tx'[t] = Ended
  BY <1>1 DEF IInv, Typed
<1>0. /\ clock' \in Nat /\ clock <= clock'
      /\ \A at \in Nat : at <= clock => Over(at, clock')
  BY <1>1, <1>2 DEF Over
<1> HIDE DEF e, v, n
<1>6. /\ versions' \in Seq([at : Nat, row : Row])
      /\ DOMAIN versions' = 1 .. n + 1
      /\ \A j \in 1 .. n : versions'[j] = versions[j]
      /\ versions'[n + 1] = v
      /\ versions' # <<>>
  <2> DEFINE V == [at : Nat, row : Row]
  <2>1. versions \in Seq(V) /\ v \in V
    BY <1>3
  <2> HIDE DEF V
  <2>2. /\ versions' \in Seq(V) /\ Len(versions') = n + 1
        /\ DOMAIN versions' = 1 .. n + 1
        /\ \A j \in 1 .. n : versions'[j] = versions[j]
        /\ versions'[n + 1] = v
    BY <1>1, <1>3, <2>1 DEF n
  <2>3. versions' # <<>>
    BY <1>3, <2>2
  <2> QED BY <2>2, <2>3 DEF V
<1>7. /\ \A o \in Txs \ {t} : tx[o].pc # "changed" /\ tx'[o].pc # "changed"
      /\ tx'[t].pc # "changed"
  BY <1>1, <1>5 DEF IInv, Locked, Ended, Fresh
<1>8. Typed'
  <2>1. TxOK(t)'
    BY <1>0, <1>1, <1>2, <1>5 DEF TxOK, Ended, Fresh
  <2>2. \A o \in Txs \ {t} : TxOK(o)'
    BY <1>0, <1>1, <1>2, <1>5, <1>7 DEF IInv, Typed, TxOK
  <2> QED BY <1>0, <1>1, <1>2, <1>5, <2>1, <2>2 DEF Typed, Row, Image
<1>9. Locked'
  BY <1>7 DEF Locked
<1>10. Apart'
  <2>1. alone => \A o \in Txs \ {t} : ~Open(o)
    BY <1>1 DEF IInv, Apart, Open
  <2>2. \A o \in Txs \ {t} : Open(o)' <=> Open(o)
    BY <1>5 DEF Open
  <2>3. ~Open(t)'
    BY <1>5 DEF Open, Ended, Fresh
  <2> QED BY <1>1, <2>1, <2>2, <2>3 DEF Apart
<1>11. Committed'
  <2>1. \A j \in 1 .. n + 1 : Over(versions'[j].at, clock')
    <3>1. \A j \in 1 .. n : Over(versions'[j].at, clock')
      BY <1>0, <1>3, <1>6 DEF Over
    <3>2. Over(versions'[n + 1].at, clock')
      BY <1>0, <1>2, <1>4, <1>6
    <3> QED BY <1>3, <3>1, <3>2
  <2>2. \A d \in trail' : d.occurred_at \in Nat /\ Over(d.occurred_at, clock')
    BY <1>0, <1>1, <1>3, <1>4 DEF Over
  <2>3. \A d \in trail' : d.txid \in Nat /\ d.txid < next'
    BY <1>1, <1>2, <1>3
  <2>4. trail' # {}
    BY <1>1
  <2> QED BY <1>1, <1>6, <2>1, <2>2, <2>3, <2>4 DEF Committed, Over
<1>12. ASSUME Followed'
       PROVE  /\ Timed(trail') /\ Rebuilt(trail') = tx[t].row
              /\ \A d \in trail : d.occurred_at <= e.occurred_at
  <2>1. Followed /\ (fine \/ \A d \in trail : d.txid < 10 <=> e.txid < 10)
    BY <1>1, <1>12 DEF Followed, OneWidth
  <2>2. /\ Timed(trail) /\ Rebuilt(trail) = row
        /\ \A d \in trail : Earlier(d, e)
    BY <1>1, <2>1 DEF IInv, Follows, e
  <2>3. \A d \in trail : Precedes(d, e)
    BY <1>2, <1>3, <1>4, <2>1, <2>2, EarlierPrecedes
  <2>4. Timed(trail \cup {e}) /\ Rebuilt(trail \cup {e}) = Apply(row, e)
    BY <1>2, <1>4, <2>2, <2>3, OneEntryMore
  <2>5. \A d \in trail : d.occurred_at <= e.occurred_at
    BY <1>3, <1>4, <2>2 DEF Earlier
  <2> QED BY <1>1, <1>2, <2>4, <2>5
<1>13. Follows'
  BY <1>1, <1>7, <1>12 DEF Follows, Timed
<1>14. Stamped'
  <2> SUFFICES ASSUME stamp = "change", Followed', NEW i \in Instants
               PROVE  Answer(i)' = RowAt(i)'
    BY <1>1 DEF Stamped, ImageIsRow
  <2>1. i \in Nat /\ e.occurred_at = tx[t].at
    BY <1>2, ClockOK DEF Instants
  <2>2. Timed(trail') /\ Rebuilt(trail') = tx[t].row
        /\ \A d \in trail : d.occurred_at <= e.occurred_at
    BY <1>12
  <2> DEFINE past == {j \in DOMAIN versions : versions[j].at <= i}
             Past == {j \in DOMAIN versions' : versions'[j].at <= i}
  <2>3. CASE i < tx[t].at
    <3>1. Due(i)' = Due(i)
      BY <1>1, <1>2, <2>1, <2>3 DEF Due
    <3>2. Past = past
      <4>1. n + 1 \notin Past
        BY <1>2, <1>4, <1>6, <2>1, <2>3
      <4>2. \A j \in 1 .. n : j \in Past <=> j \in past
        BY <1>3, <1>6
      <4>3. Past \subseteq 1 .. n + 1 /\ past \subseteq 1 .. n
        BY <1>3, <1>6
      <4>4. \A j \in 1 .. n + 1 : j # n + 1 => j \in 1 .. n
        BY <1>3
      <4> HIDE DEF Past, past
      <4>5. \A j : j \in Past <=> j \in past
        BY <4>1, <4>2, <4>3, <4>4
      <4> QED BY <4>5
    <3>3. Answer(i)' = Answer(i)
      BY <3>1 DEF Answer
    <3>4. Answer(i) = RowAt(i)
      <4>1. Followed
        BY <1>1 DEF Followed, OneWidth
      <4> QED BY <4>1 DEF IInv, Stamped, ImageIsRow
    <3>5. RowAt(i) = IF past = {} THEN Before
                     ELSE versions[CHOOSE j \in past : \A k \in past : k <= j].row
      BY DEF RowAt
    <3>6. RowAt(i)' = IF Past = {} THEN Before
                      ELSE versions'[CHOOSE j \in Past : \A k \in Past : k <= j].row
      BY DEF RowAt
    <3> DEFINE last == CHOOSE j \in past : \A k \in past : k <= j
    <3>7. past # {} => last \in 1 .. n
      <4>1. ASSUME past # {}
            PROVE  \E j \in past : \A k \in past : k <= j
        <5>1. IsFiniteSet(past)
          <6>1. past \in SUBSET (1 .. n) /\ IsFiniteSet(1 .. n)
            BY <1>3, FS_Interval
          <6> HIDE DEF past
          <6> QED BY <6>1, FS_Subset
        <5>2. past \in SUBSET Nat
          BY <1>3
        <5> HIDE DEF past
        <5> QED BY <4>1, <5>1, <5>2, HasLast
      <4>2. past \subseteq 1 .. n
        BY <1>3
      <4> HIDE DEF past
      <4> QED BY <4>1, <4>2
    <3> HIDE DEF past, Past, last
    <3>8. past # {} => versions'[last] = versions[last]
      BY <1>6, <3>7
    <3> QED BY <3>2, <3>3, <3>4, <3>5, <3>6, <3>8 DEF last
  <2>4. CASE tx[t].at <= i
    <3>1. Due(i)' = trail' /\ trail' # {}
      BY <1>1, <1>2, <1>3, <1>4, <2>1, <2>2, <2>4 DEF Due
    <3>2. Answer(i)' = tx[t].row
      BY <2>2, <3>1 DEF Answer
    <3>3. n + 1 \in Past /\ \A j \in Past : j \in Int /\ j <= n + 1
      BY <1>3, <1>4, <1>6, <2>1, <2>4
    <3>4. RowAt(i)' = IF Past = {} THEN Before
                      ELSE versions'[CHOOSE j \in Past : \A k \in Past : k <= j].row
      BY DEF RowAt
    <3> HIDE DEF Past
    <3>5. (CHOOSE j \in Past : \A k \in Past : k <= j) = n + 1
      BY <1>3, <3>3
    <3> QED BY <1>4, <1>6, <3>2, <3>3, <3>4, <3>5
  <2> QED BY <1>2, <2>1, <2>3, <2>4
<1> QED BY <1>8, <1>9, <1>10, <1>11, <1>13, <1>14 DEF IInv

\* The walk over the trail and the versions of the row go together.
THEOREM TrailInvariant == Spec => []IInv
<1>1. IInv /\ [Next]_vars => IInv'
  <2> SUFFICES ASSUME IInv, [Next]_vars PROVE IInv'
    OBVIOUS
  <2>1. CASE UNCHANGED vars
    <3>1. /\ UNCHANGED <<row, tx, trail, clock, next, stamp, fine, alone, versions>>
          /\ clock \in Nat /\ next \in Nat /\ alone \in BOOLEAN
      BY <2>1 DEF vars, IInv, Typed
    <3>2. Typed'
      BY <3>1 DEF IInv, Typed, TxOK, Row, Image, Over
    <3>3. Locked' /\ Apart'
      BY <3>1 DEF IInv, Locked, Apart, Open, Over
    <3> QED BY <3>1, <3>2, <3>3, NothingCommitted
  <2> QED BY <2>1, BeginInv, AssignInv, WriteInv, CommitInv, RollbackInv, TickInv DEF Next
<1> QED BY <1>1, InitInv, PTL DEF Spec

\* The answer for an instant is the row as the last change up to it left it,
\* at every instant, where the trigger stamps an entry with the time of its
\* change: on a fine clock however transactions overlap, on a coarse one where
\* they do not and their ids have one width.
THEOREM HistoryIsRow == Spec => []ImageIsRow
<1>1. IInv => ImageIsRow
  BY DEF IInv, Stamped
<1> QED BY <1>1, TrailInvariant, PTL

\* The answer for now is the row, whichever stamp the trigger uses, as long as
\* the order of the query is that of the changes: see Followed.
THEOREM LatestAnswer == Spec => []LatestIsRow
<1>1. ASSUME IInv, Followed
      PROVE  Answer(clock) = IF versions = <<>> THEN Before ELSE row
  <2>1. Due(clock) = trail
    BY <1>1 DEF IInv, Typed, Committed, Due, Over
  <2>2. trail = {} <=> versions = <<>>
    BY <1>1 DEF IInv, Committed
  <2>3. Rebuilt(trail) = row
    BY <1>1 DEF IInv, Follows
  <2> QED BY <2>1, <2>2, <2>3 DEF Answer
<1> QED BY <1>1, TrailInvariant, PTL DEF LatestIsRow

\* An answer stands once no transaction that is open can add an entry to it.
THEOREM HistoryStands == Spec => PastStands
<1>1. ASSUME [Next]_vars, NEW i \in Instants, ~Unsettled(i)
      PROVE  Answer(i)' = Answer(i)
  <2>1. Due(i)' = Due(i)
    <3>1. ASSUME NEW t \in Txs, Commit(t)
          PROVE  Due(i)' = Due(i)
      BY <1>1, <3>1 DEF Commit, Due, Unsettled
    <3>2. CASE trail' = trail
      BY <3>2 DEF Due
    <3> QED
      BY <1>1, <3>1, <3>2
      DEF Next, Tick, Begin, Assign, Rollback, Insert, Update, Delete, Change, vars
  <2> QED BY <2>1 DEF Answer
<1>2. [Next]_vars => [\A i \in Instants : ~Unsettled(i) => Answer(i)' = Answer(i)]_vars
  BY <1>1
<1> QED BY <1>2, PTL DEF Spec, PastStands
==============================================================================
