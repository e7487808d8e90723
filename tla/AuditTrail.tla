------------------------------ MODULE AuditTrail ------------------------------
(***************************************************************************)
(* The audit history of one claim: a trigger writes an entry for every     *)
(* change of the row, in the transaction that makes it, and                *)
(* expense_history rebuilds the row at an instant from the entries alone.  *)
(*                                                                         *)
(* The trigger's function belongs to another module and is not here: what  *)
(* instant it stamps an entry with is the environment's choice.  Postgres  *)
(* offers the start of the transaction (now) and the time of the change    *)
(* (clock_timestamp).  Transactions overlap, and the row's lock, held to   *)
(* the end of a transaction, puts its changes in an order.  How fine the   *)
(* clock is is the environment's too: where a transaction can commit       *)
(* within one instant, two entries may have the same one, and the text of  *)
(* the transaction's id decides between them.                              *)
(***************************************************************************)
EXTENDS Integers, Sequences, FiniteSets

CONSTANTS
    Fields,    \* columns of the row
    Values,    \* what a column may hold
    Txs,       \* transactions that change the row
    Stamps,    \* the stamps the trigger may use, of {"start", "change"}
    Gone,      \* no row
    Before,    \* history_before_subject: no row yet
    MaxClock,  \* bound: instants
    Txids      \* what the first transaction id may be

ASSUME StampsOK == Stamps \subseteq {"start", "change"}
ASSUME GoneOK == Gone # Before /\ {Gone, Before} \cap [Fields -> Values] = {}
ASSUME ClockOK == MaxClock \in Nat
\* Ids of one and of two digits, ordered as texts by TextOrder.
ASSUME TxidsOK == Txids \subseteq 1..99

VARIABLES
    row,      \* the row, as committed
    tx,       \* the transactions
    trail,    \* the entries, as committed
    clock,    \* the time
    next,     \* the id that is given out next
    stamp,    \* environment: what the trigger stamps entries with
    fine,     \* environment: a commit takes longer than one instant
    alone,    \* no two transactions have overlapped
    versions  \* the row after each change, with the time of the change

vars == <<row, tx, trail, clock, next, stamp, fine, alone, versions>>

Image == [Fields -> Values]
Instants == 0 .. MaxClock

NoEntry == [action |-> "none"]

\* What a transaction has done, and what it will leave when it commits.
Fresh == [pc |-> "new", began |-> 0, txid |-> 0, at |-> 0, row |-> Gone,
          entry |-> NoEntry]
Ended == [Fresh EXCEPT !.pc = "ended"]

Init ==
    /\ row = Gone
    /\ tx = [t \in Txs |-> Fresh]
    /\ trail = {}
    /\ clock = 0
    /\ next \in Txids
    /\ stamp \in Stamps
    /\ fine \in BOOLEAN
    /\ alone = TRUE
    /\ versions = <<>>

-----------------------------------------------------------------------------
(* Writers.                                                                *)

Open(t) == tx[t].pc \in {"begun", "changed"}

Begin(t) ==
    /\ tx[t].pc = "new"
    /\ tx' = [tx EXCEPT ![t].pc = "begun", ![t].began = clock]
    /\ alone' = (alone /\ \A o \in Txs : ~Open(o))
    /\ UNCHANGED <<row, trail, clock, next, stamp, fine, versions>>

\* An id is given out at the first write: before it has the lock that it may
\* have to wait for.
Assign(t) ==
    /\ tx[t].pc = "begun" /\ tx[t].txid = 0
    /\ tx' = [tx EXCEPT ![t].txid = next]
    /\ next' = next + 1
    /\ UNCHANGED <<row, trail, clock, stamp, fine, alone, versions>>

\* Transaction t turns the row into r: the statement has the lock of the row,
\* and the trigger writes the diff.
Change(t, action, r, changed) ==
    /\ tx[t].pc = "begun" /\ tx[t].txid # 0
    /\ \A o \in Txs : tx[o].pc # "changed"
    /\ tx' = [tx EXCEPT ![t].pc = "changed", ![t].at = clock, ![t].row = r,
                ![t].entry =
                  [action |-> action, changed |-> changed, txid |-> tx[t].txid,
                   occurred_at |-> IF stamp = "start" THEN tx[t].began
                                   ELSE clock]]
    /\ UNCHANGED <<row, trail, clock, next, stamp, fine, alone, versions>>

Insert(t) ==
    /\ row = Gone
    /\ \E r \in Image : Change(t, "insert", r, r)

Differing(r) == {f \in Fields : r[f] # row[f]}

Update(t) ==
    /\ row # Gone
    /\ \E r \in Image :
         Change(t, "update", r, [f \in Differing(r) |-> r[f]])

\* Emptying the trash deletes for good.
Delete(t) ==
    /\ row # Gone
    /\ Change(t, "delete", Gone, <<>>)

\* The lock goes with the commit.  Where the clock is fine, what gets it next
\* has a later time.
Commit(t) ==
    /\ tx[t].pc = "changed"
    /\ fine => clock < MaxClock
    /\ row' = tx[t].row
    /\ trail' = trail \cup {tx[t].entry}
    /\ versions' = Append(versions, [at |-> tx[t].at, row |-> tx[t].row])
    /\ tx' = [tx EXCEPT ![t] = Ended]
    /\ clock' = IF fine THEN clock + 1 ELSE clock
    /\ UNCHANGED <<next, stamp, fine, alone>>

Rollback(t) ==
    /\ Open(t)
    /\ tx' = [tx EXCEPT ![t] = Ended]
    /\ UNCHANGED <<row, trail, clock, next, stamp, fine, alone, versions>>

Tick ==
    /\ clock < MaxClock
    /\ clock' = clock + 1
    /\ UNCHANGED <<row, tx, trail, next, stamp, fine, alone, versions>>

Next ==
    \/ Tick
    \/ \E t \in Txs : \/ Begin(t) \/ Assign(t) \/ Commit(t) \/ Rollback(t)
                      \/ Insert(t) \/ Update(t) \/ Delete(t)

Spec == Init /\ [][Next]_vars

-----------------------------------------------------------------------------
(* The reader.                                                             *)

\* Mutant: the query has no upper bound.
Due_all(as_of) == trail

\* WHERE occurred_at <= as_of
Due(as_of) == {e \in trail : e.occurred_at <= as_of}

\* The column txid is a text: "10" comes before "9".
TextOrder(txid) == IF txid < 10 THEN 10 * txid ELSE txid

\* Mutant: of one instant newest first, like the listing.
Precedes_newest(d, e) ==
    \/ d.occurred_at < e.occurred_at
    \/ d.occurred_at = e.occurred_at /\ TextOrder(d.txid) > TextOrder(e.txid)

\* ORDER BY occurred_at ASC, txid ASC
Precedes(d, e) ==
    \/ d.occurred_at < e.occurred_at
    \/ d.occurred_at = e.occurred_at /\ TextOrder(d.txid) < TextOrder(e.txid)

Overlay(image, changed) ==
    [f \in (DOMAIN image) \cup (DOMAIN changed) |->
       IF f \in DOMAIN changed THEN changed[f] ELSE image[f]]

\* Mutant: a delete leaves the image.
Apply_keeping(image, e) ==
    IF image = Gone THEN e.changed ELSE Overlay(image, e.changed)

\* One entry of the walk: a delete clears the image, anything else applies
\* the "to" values of its diff.
Apply(image, e) ==
    CASE e.action = "delete" -> Gone
      [] e.action # "delete" /\ image = Gone -> e.changed
      [] e.action # "delete" /\ image # Gone -> Overlay(image, e.changed)

\* The entry that the query returns last.
LastOf(entries) == CHOOSE e \in entries : \A d \in entries \ {e} : Precedes(d, e)

\* The walk over entries in the order of the query.
Rebuilt(entries) ==
    LET image[walked \in SUBSET entries] ==
          IF walked = {} THEN Gone
          ELSE Apply(image[walked \ {LastOf(walked)}], LastOf(walked))
    IN  image[entries]

\* GET /expenses/:id/history?as_of=...
Answer(as_of) ==
    IF Due(as_of) = {} THEN Before ELSE Rebuilt(Due(as_of))

-----------------------------------------------------------------------------

\* Ids that are ordered as texts as they are as numbers.
OneWidth == \A d, e \in trail : d.txid < 10 <=> e.txid < 10

\* The image follows the row: the trail has its changes in their order.  A fine
\* clock orders the times of changes, which the lock keeps apart, and the
\* starts of transactions that do not overlap.  A coarse one leaves it to the
\* ids, which are given out before the lock, and are compared as texts.
Followed ==
    \/ fine /\ (stamp = "change" \/ alone)
    \/ alone /\ OneWidth

\* The row as the last change up to an instant left it.
RowAt(as_of) ==
    LET past == {i \in DOMAIN versions : versions[i].at <= as_of}
    IN  IF past = {} THEN Before
        ELSE versions[CHOOSE i \in past : \A j \in past : j <= i].row

\* "The row image at any instant is reconstructible from the trail alone": it
\* is, for every instant at once, where entries are stamped as changes are made
\* and can be put in their order: on a fine clock however transactions
\* overlap, on a coarse one if they do not and their ids have one width.
ImageIsRow ==
    stamp = "change" /\ Followed => \A i \in Instants : Answer(i) = RowAt(i)

\* Where entries are stamped with the start of their transaction, the image of
\* now is the row as long as transactions do not overlap and, on a coarse
\* clock, their ids have one width.
LatestIsRow ==
    Followed =>
        Answer(clock) = IF versions = <<>> THEN Before ELSE row

\* A transaction that is open may still add an entry at an instant.
Unsettled(i) ==
    \/ i >= clock
    \/ \E t \in Txs :
         \/ tx[t].pc = "changed" /\ tx[t].entry.occurred_at <= i
         \/ tx[t].pc = "begun" /\ stamp = "start" /\ tx[t].began <= i

\* History is not rewritten: the answer for an instant that no open
\* transaction can reach any more stands for ever.
PastStands ==
    [][\A i \in Instants : ~Unsettled(i) => Answer(i)' = Answer(i)]_vars
=============================================================================
