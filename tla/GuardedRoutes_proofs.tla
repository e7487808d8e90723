------------------------ MODULE GuardedRoutes_proofs -------------------------
(***************************************************************************)
(* Proofs about GuardedRoutes, for any bodies, claims and categories.  The *)
(* inductive invariant adds to TypeOK what requests in flight hold: a body *)
(* that was accepted names good values only, whatever has become of the    *)
(* category since.  Books is the second one, on top of it: what a post in  *)
(* flight holds, and every entry that was made, is its claim as it is now. *)
(* With it the report's rows are a partition of what was booked, and the   *)
(* lemmas of Sums add them up.                                             *)
(***************************************************************************)
EXTENDS GuardedRoutes, Sums

RowOK(row) ==
    /\ row = [key \in Columns \cup {"state"} |-> row[key]]
    /\ row.state \in States
    /\ \A col \in Columns : Holds(col, row[col])

BodyOK(body) ==
    /\ body \in EditBodies
    /\ \A key \in DOMAIN ExpensePatch(body) : Holds(key, ExpensePatch(body)[key])

ClaimsOK ==
    /\ DOMAIN claim = Claims
    /\ \A c \in Claims : claim[c] = Absent \/ RowOK(claim[c])

CallsOK ==
    /\ DOMAIN call = Calls
    /\ \A k \in Calls :
         \/ call[k] = Idle
         \/ /\ call[k].pc = "update"
            /\ call[k].claim \in Claims
            /\ BodyOK(call[k].body)
         \/ /\ call[k].pc = "taxes"
            /\ call[k].claim \in Claims
            /\ call[k].net \in Nets
         \/ /\ call[k] = [pc |-> call[k].pc, claim |-> call[k].claim,
                          seen |-> call[k].seen]
            /\ call[k].pc \in {"find", "envelope", "sink", "mark"}
            /\ call[k].claim \in Claims
            /\ RowOK(call[k].seen)

LedgerOK ==
    /\ DOMAIN ledger = Claims
    /\ \A c \in Claims : ledger[c] # NoEntry =>
         ledger[c].amount \in Nat /\ ledger[c].currency \in Codes

NamedOK ==
    /\ named = [c \in Claims |-> named[c]]
    /\ \A c \in Claims : claim[c] # Absent =>
         \A col \in Columns : named[c][col] = claim[c][col]

IInv ==
    /\ ClaimsOK
    /\ CallsOK
    /\ LedgerOK
    /\ NamedOK
    /\ category \in [Categories -> {"unset", "null", "set", "gone"}]
    /\ withheld \in [Claims -> Nets \cup {0}]
    /\ bodies \in 0..MaxBodies

-----------------------------------------------------------------------------

\* A row has a state, and no row is what there is in the place of none.
LEMMA RowIsThere ==
    ASSUME NEW row, RowOK(row)
    PROVE  row # Absent /\ row.state # "absent"
BY DEF RowOK, States, Absent

\* A body of a PATCH that passes the checks names good values only.
LEMMA AcceptedIsGood ==
    ASSUME NEW body \in EditBodies, Accepted(ExpensePatch(body))
    PROVE  BodyOK(body)
<1>1. PICK s \in Sent : s[1] # "employee_id" /\ body = [key \in {s[1]} |-> s[2]]
  BY DEF EditBodies
<1>2. DOMAIN body = {s[1]} /\ body[s[1]] = s[2]
  BY <1>1
<1>3. s[1] \in Columns
      /\ (s[1] = "expense_date" => s[2] \in Days)
      /\ (s[1] = "amount_total" => s[2] \in Int)
  BY SentOK DEF Columns
<1>4. SUFFICES ASSUME NEW key \in DOMAIN ExpensePatch(body)
               PROVE  Holds(key, ExpensePatch(body)[key])
  BY DEF BodyOK
<1>5. key = s[1] /\ ExpensePatch(body)[key] = s[2]
      /\ (key # "reference" => s[2] # Null)
  BY <1>2, <1>4 DEF ExpensePatch, Keys
<1>. QED
  BY <1>3, <1>4, <1>5 DEF Accepted, Holds, parse_payment_mode, Modes,
     validate_amount, validate_currency, Found

\* A draft made of a body of a POST that passes the checks is a good row.
LEMMA DraftIsGood ==
    ASSUME NEW body \in CreateBodies,
           \A key \in Columns \ {"reference"} : NewExpense(body)[key] # Null,
           Accepted(NewExpense(body))
    PROVE  RowOK(Draft(NewExpense(body)))
<1>. DEFINE new == NewExpense(body)
<1>1. DOMAIN new = Columns
  BY DEF NewExpense
<1>2. /\ "expense_date" \in DOMAIN body /\ body["expense_date"] \in Days
      /\ "amount_total" \in DOMAIN body /\ body["amount_total"] \in Int
  <2>1. CASE body = Plain
    BY <2>1, PlainOK DEF Columns
  <2>2. CASE \E s \in Sent : body = [Plain EXCEPT ![s[1]] = s[2]]
    <3>1. PICK s \in Sent : body = [Plain EXCEPT ![s[1]] = s[2]]
      BY <2>2
    <3>2. DOMAIN body = Columns
          /\ \A key \in Columns : body[key] = IF key = s[1] THEN s[2] ELSE Plain[key]
      BY <3>1, PlainOK
    <3>. QED
      BY <3>2, PlainOK, SentOK DEF Columns
  <2>3. CASE \E d \in {"currency", "payment_mode", "reference"} :
               body = [key \in Columns \ {d} |-> Plain[key]]
    BY <2>3, PlainOK DEF Columns
  <2>. QED
    BY <2>1, <2>2, <2>3 DEF CreateBodies
<1>3. new["expense_date"] \in Days /\ new["amount_total"] \in Int
  BY <1>2 DEF NewExpense, Columns
<1>4. /\ new["payment_mode"] \in Modes
      /\ new["amount_total"] >= 0
      /\ new["currency"] \in Codes
      /\ new["category_id"] \in Categories
  <2>1. new["payment_mode"] \in Modes
    BY <1>1 DEF Accepted, Columns, parse_payment_mode, Modes
  <2>. QED
    BY <1>1, <2>1 DEF Accepted, Columns, validate_amount, validate_currency, Found
<1>5. Uppercase(new["currency"]) \in Codes /\ Uppercase(new["currency"]) # Null
  BY <1>4, NullOK DEF Uppercase, Codes
<1>. HIDE DEF new
<1>6. \A col \in Columns : Holds(col, Draft(new)[col])
  <2>. SUFFICES ASSUME NEW col \in Columns PROVE Holds(col, Draft(new)[col])
    OBVIOUS
  <2>1. CASE col = "currency"
    BY <2>1, <1>5 DEF Draft, Holds, Columns
  <2>2. CASE col # "currency"
    <3>1. Draft(new)[col] = new[col]
      BY <2>2 DEF Draft, Columns
    <3>2. col # "reference" => new[col] # Null
      BY DEF new
    <3>. QED
      BY <3>1, <3>2, <2>2, <1>3, <1>4 DEF Holds
  <2>. QED
    BY <2>1, <2>2
<1>. QED
  BY <1>6 DEF RowOK, Draft, States, new

\* A draft that a good body is written into is a good row, and differs from
\* the draft in what the body names only.
LEMMA PatchedIsGood ==
    ASSUME NEW row, RowOK(row), NEW body, BodyOK(body)
    PROVE  /\ RowOK(Patched(row, ExpensePatch(body)))
           /\ \A col \in Columns : Patched(row, ExpensePatch(body))[col] =
                  IF col \in DOMAIN body /\ (body[col] # Null \/ col = "reference")
                  THEN body[col] ELSE row[col]
<1>. DEFINE patch == ExpensePatch(body)
<1>1. /\ \A key \in DOMAIN patch : key # "state" /\ Holds(key, patch[key])
      /\ \A key : key \in DOMAIN patch <=>
              key \in DOMAIN body /\ (body[key] # Null \/ key = "reference")
      /\ \A key \in DOMAIN patch : patch[key] = body[key]
  <2>1. \A key \in DOMAIN body : key \in Columns
    BY SentOK DEF BodyOK, EditBodies, Columns
  <2>2. "state" \notin Columns
    BY DEF Columns
  <2>. QED
    BY <2>1, <2>2 DEF BodyOK, ExpensePatch, Keys
<1>. HIDE DEF patch
<1>2. /\ DOMAIN row = Columns \cup {"state"}
      /\ row.state \in States
      /\ \A col \in Columns : Holds(col, row[col])
  BY DEF RowOK
<1>3. Patched(row, patch) =
        [key \in Columns \cup {"state"} |-> IF key \in DOMAIN patch THEN patch[key]
                                            ELSE row[key]]
  BY <1>2 DEF Patched
<1>4. RowOK(Patched(row, patch))
  BY <1>1, <1>2, <1>3 DEF RowOK
<1>. QED
  BY <1>1, <1>3, <1>4 DEF patch

\* A row that moves on is a good row with the columns it had.
LEMMA MovedIsGood ==
    ASSUME NEW row, RowOK(row), NEW to \in States
    PROVE  /\ RowOK([row EXCEPT !.state = to])
           /\ \A col \in Columns : [row EXCEPT !.state = to][col] = row[col]
BY DEF RowOK, Columns

\* Where a good row with the columns that are named takes the place of what
\* was stored of a claim, the invariant's parts about claims hold.
LEMMA StoredIsGood ==
    ASSUME ClaimsOK, NamedOK, NEW c \in Claims, NEW row, RowOK(row),
           NEW names, \A col \in Columns : names[col] = row[col],
           claim' = [claim EXCEPT ![c] = row],
           named' = [named EXCEPT ![c] = names]
    PROVE  ClaimsOK' /\ NamedOK'
<1>1. \A x \in Claims : /\ claim'[x] = IF x = c THEN row ELSE claim[x]
                        /\ named'[x] = IF x = c THEN names ELSE named[x]
  BY DEF ClaimsOK, NamedOK
<1>2. ClaimsOK'
  BY <1>1 DEF ClaimsOK
<1>3. named' = [x \in Claims |-> named'[x]]
  BY DEF NamedOK
<1>. QED
  BY <1>1, <1>2, <1>3 DEF NamedOK

\* What requests hold and what the ledger has stays good while nobody touches
\* either.
LEMMA OthersKept ==
    ASSUME IInv, UNCHANGED <<call, ledger>>
    PROVE  CallsOK' /\ LedgerOK'
<1>1. call' = call /\ ledger' = ledger
  OBVIOUS
<1>. QED
  BY <1>1 DEF IInv, CallsOK, LedgerOK

\* The invariant holds at the start.
LEMMA InitInv ==
    ASSUME Init
    PROVE  IInv
BY BoundsOK DEF Init, IInv, ClaimsOK, CallsOK, LedgerOK, NamedOK

\* A create keeps the invariant.
LEMMA CreateInv ==
    ASSUME IInv, NEW c \in Claims, Create(c)
    PROVE  IInv'
<1>1. PICK body \in CreateBodies :
         /\ \A key \in Columns \ {"reference"} : NewExpense(body)[key] # Null
         /\ Accepted(NewExpense(body))
         /\ claim' = [claim EXCEPT ![c] = Draft(NewExpense(body))]
         /\ named' = [named EXCEPT ![c] =
                [NewExpense(body) EXCEPT !.currency = Uppercase(@)]]
         /\ Counted(body)
  BY DEF Create
<1>2. RowOK(Draft(NewExpense(body)))
  BY <1>1, DraftIsGood
<1>3. \A col \in Columns : [NewExpense(body) EXCEPT !.currency = Uppercase(@)][col]
                            = Draft(NewExpense(body))[col]
  <2>1. DOMAIN NewExpense(body) = Columns
    BY DEF NewExpense
  <2>. QED
    BY <2>1 DEF Draft, Columns
<1>4. ClaimsOK' /\ NamedOK'
  BY <1>1, <1>2, <1>3, StoredIsGood DEF IInv
<1>5. bodies' \in 0..MaxBodies
  BY <1>1, BoundsOK DEF IInv, Counted
<1>6. CallsOK' /\ LedgerOK'
  BY OthersKept DEF Create
<1>. QED
  BY <1>4, <1>5, <1>6 DEF IInv, Create

\* The statement of an edit keeps the parts about claims.
LEMMA WriteInv ==
    ASSUME IInv, NEW c \in Claims, NEW body, BodyOK(body), Write(c, body)
    PROVE  ClaimsOK' /\ NamedOK' /\ bodies' \in 0..MaxBodies
<1>. DEFINE row == Patched(claim[c], ExpensePatch(body))
            names == [key \in Columns |->
                IF key \in DOMAIN body /\ (body[key] # Null \/ key = "reference")
                THEN body[key] ELSE named[c][key]]
<1>1. claim[c] # Absent
  BY DEF Write, Absent
<1>2. RowOK(claim[c])
  BY <1>1 DEF IInv, ClaimsOK
<1>3. /\ RowOK(row)
      /\ \A col \in Columns : row[col] =
            IF col \in DOMAIN body /\ (body[col] # Null \/ col = "reference")
            THEN body[col] ELSE claim[c][col]
  BY <1>2, PatchedIsGood
<1>4. \A col \in Columns : names[col] = row[col]
  BY <1>1, <1>3 DEF IInv, NamedOK
<1>5. /\ claim' = [claim EXCEPT ![c] = row]
      /\ named' = [named EXCEPT ![c] = names]
  BY DEF Write
<1>. HIDE DEF row, names
<1>6. ClaimsOK' /\ NamedOK'
  <2>1. RowOK(row)
    BY <1>3
  <2>2. ClaimsOK /\ NamedOK
    BY DEF IInv
  <2>. QED
    BY <1>4, <1>5, <2>1, <2>2, StoredIsGood
<1>7. bodies' \in 0..MaxBodies
  BY BoundsOK DEF IInv, Write, Counted
<1>. QED
  BY <1>6, <1>7

\* An edit of one statement keeps the invariant.
LEMMA EditInv ==
    ASSUME IInv, NEW c \in Claims, Edit(c)
    PROVE  IInv'
<1>1. PICK body \in EditBodies : Accepted(ExpensePatch(body)) /\ Write(c, body)
  BY DEF Edit
<1>2. ClaimsOK' /\ NamedOK' /\ bodies' \in 0..MaxBodies
  BY <1>1, AcceptedIsGood, WriteInv
<1>3. CallsOK' /\ LedgerOK'
  BY OthersKept DEF Edit
<1>. QED
  BY <1>2, <1>3 DEF IInv, Edit

\* A request that is taken up, or moves on, holds what is good.
LEMMA CallTaken ==
    ASSUME IInv, NEW k \in Calls, NEW r, call' = [call EXCEPT ![k] = r],
           \/ r = Idle
           \/ r.pc = "update" /\ r.claim \in Claims /\ BodyOK(r.body)
           \/ r.pc = "taxes" /\ r.claim \in Claims /\ r.net \in Nets
           \/ /\ r = [pc |-> r.pc, claim |-> r.claim, seen |-> r.seen]
              /\ r.pc \in {"find", "envelope", "sink", "mark"}
              /\ r.claim \in Claims
              /\ RowOK(r.seen)
    PROVE  CallsOK'
<1>1. \A x \in Calls : call'[x] = IF x = k THEN r ELSE call[x]
  BY DEF IInv, CallsOK
<1>. QED
  BY <1>1 DEF IInv, CallsOK

\* The invariant's parts about claims hold while nobody touches them.
LEMMA ClaimsKept ==
    ASSUME IInv, UNCHANGED <<claim, named>>
    PROVE  ClaimsOK' /\ NamedOK'
<1>1. claim' = claim /\ named' = named
  OBVIOUS
<1>. QED
  BY <1>1 DEF IInv, ClaimsOK, NamedOK

\* An edit that has found its category holds a good body.
LEMMA EditFindInv ==
    ASSUME IInv, NEW k \in Calls, NEW c \in Claims, EditFind(k, c)
    PROVE  IInv'
<1>1. PICK body \in EditBodies :
         /\ Accepted(ExpensePatch(body))
         /\ call' = [call EXCEPT ![k] = [pc |-> "update", claim |-> c, body |-> body]]
  BY DEF EditFind
<1>2. BodyOK(body)
  BY <1>1, AcceptedIsGood
<1>3. CallsOK'
  BY <1>1, <1>2, CallTaken
<1>4. ClaimsOK' /\ NamedOK'
  BY ClaimsKept DEF EditFind
<1>5. LedgerOK'
  BY DEF IInv, EditFind, LedgerOK
<1>. QED
  BY <1>3, <1>4, <1>5 DEF IInv, EditFind

\* An edit writes the good body it holds, whatever happened since it looked.
LEMMA EditUpdateInv ==
    ASSUME IInv, NEW k \in Calls, EditUpdate(k)
    PROVE  IInv'
<1>1. call[k].claim \in Claims /\ BodyOK(call[k].body)
  BY DEF IInv, CallsOK, EditUpdate, Idle
<1>2. ClaimsOK' /\ NamedOK' /\ bodies' \in 0..MaxBodies
  BY <1>1, WriteInv DEF EditUpdate
<1>3. CallsOK'
  BY CallTaken DEF EditUpdate
<1>4. LedgerOK'
  BY DEF IInv, EditUpdate, LedgerOK
<1>. QED
  BY <1>2, <1>3, <1>4 DEF IInv, EditUpdate

\* A replace of the overlay keeps the invariant, whenever it is committed.
LEMMA TaxesInv ==
    ASSUME IInv, NEW k \in Calls,
           TaxCommit(k) \/ \E c \in Claims : TaxWrite(k, c)
    PROVE  IInv'
<1>1. CASE TaxCommit(k)
  <2>1. call[k].claim \in Claims /\ call[k].net \in Nets
    BY <1>1 DEF IInv, CallsOK, TaxCommit, Idle
  <2>2. withheld' \in [Claims -> Nets \cup {0}]
    BY <1>1, <2>1 DEF IInv, TaxCommit
  <2>3. CallsOK'
    BY <1>1, CallTaken DEF TaxCommit
  <2>4. ClaimsOK' /\ NamedOK' /\ LedgerOK'
    BY <1>1, ClaimsKept DEF IInv, TaxCommit, LedgerOK
  <2>. QED
    BY <1>1, <2>2, <2>3, <2>4 DEF IInv, TaxCommit
<1>2. ASSUME NEW c \in Claims, TaxWrite(k, c)
      PROVE  IInv'
  <2>1. PICK net \in Nets :
           call' = [call EXCEPT ![k] = [pc |-> "taxes", claim |-> c, net |-> net]]
    BY <1>2 DEF TaxWrite
  <2>2. CallsOK'
    BY <2>1, CallTaken
  <2>3. ClaimsOK' /\ NamedOK' /\ LedgerOK'
    BY <1>2, ClaimsKept DEF IInv, TaxWrite, LedgerOK
  <2>4. bodies' \in 0..MaxBodies
    BY <1>2, BoundsOK DEF IInv, TaxWrite
  <2>. QED
    BY <1>2, <2>2, <2>3, <2>4 DEF IInv, TaxWrite
<1>. QED
  BY <1>1, <1>2

\* A claim that moves from one state to another keeps its columns.
LEMMA MoveClaims ==
    ASSUME IInv, NEW c \in Claims, NEW to \in States, claim[c].state # "absent",
           claim' = [claim EXCEPT ![c].state = to], named' = named
    PROVE  ClaimsOK' /\ NamedOK'
<1>. DEFINE row == [claim[c] EXCEPT !.state = to]
<1>1. claim[c] # Absent
  BY DEF Absent
<1>2. RowOK(claim[c])
  BY <1>1 DEF IInv, ClaimsOK
<1>3. RowOK(row) /\ \A col \in Columns : row[col] = claim[c][col]
  BY <1>2, MovedIsGood
<1>4. \A col \in Columns : named[c][col] = row[col]
  BY <1>1, <1>3 DEF IInv, NamedOK
<1>5. claim' = [claim EXCEPT ![c] = row]
  OBVIOUS
<1>6. /\ DOMAIN claim' = Claims
      /\ \A x \in Claims : claim'[x] = IF x = c THEN row ELSE claim[x]
  BY <1>5 DEF IInv, ClaimsOK
<1>. HIDE DEF row
<1>7. ClaimsOK'
  BY <1>3, <1>6 DEF IInv, ClaimsOK
<1>8. NamedOK'
  BY <1>1, <1>4, <1>6 DEF IInv, NamedOK
<1>. QED
  BY <1>7, <1>8

\* A verb that moves a claim on keeps the invariant.
LEMMA MoveInv ==
    ASSUME IInv, NEW c \in Claims, NEW from \in States, NEW to \in States,
           Move(c, from, to)
    PROVE  IInv'
<1>1. claim[c].state # "absent"
  BY DEF Move, States
<1>2. ClaimsOK' /\ NamedOK'
  BY <1>1, MoveClaims DEF Move
<1>3. CallsOK' /\ LedgerOK'
  BY OthersKept DEF Move
<1>. QED
  BY <1>2, <1>3 DEF IInv, Move

\* A post holds a good row from its read on.
LEMMA PostReadInv ==
    ASSUME IInv, NEW k \in Calls, NEW c \in Claims, PostRead(k, c)
    PROVE  IInv'
<1>1. RowOK(claim[c])
  BY DEF IInv, ClaimsOK, PostRead, Absent
<1>. DEFINE r == [pc |-> "find", claim |-> c, seen |-> claim[c]]
<1>2. /\ r = [pc |-> r.pc, claim |-> r.claim, seen |-> r.seen]
      /\ r.pc = "find" /\ r.claim = c /\ r.seen = claim[c]
  OBVIOUS
<1>3. call' = [call EXCEPT ![k] = r]
  BY DEF PostRead
<1>. HIDE DEF r
<1>4. CallsOK'
  BY <1>1, <1>2, <1>3, CallTaken
<1>5. ClaimsOK' /\ NamedOK'
  BY ClaimsKept DEF PostRead
<1>6. LedgerOK'
  BY DEF IInv, PostRead, LedgerOK
<1>. QED
  BY <1>4, <1>5, <1>6 DEF IInv, PostRead

\* A post that moves on holds what it held.
LEMMA PostMovesOn ==
    ASSUME IInv, NEW k \in Calls, call[k].pc \in {"find", "envelope", "sink"},
           NEW pc \in {"envelope", "sink", "mark"}, call' = [call EXCEPT ![k].pc = pc]
    PROVE  /\ CallsOK'
           /\ call[k].claim \in Claims
           /\ RowOK(call[k].seen)
<1>1. /\ call[k] = [pc |-> call[k].pc, claim |-> call[k].claim, seen |-> call[k].seen]
      /\ call[k].claim \in Claims
      /\ RowOK(call[k].seen)
  BY DEF IInv, CallsOK, Idle
<1>. DEFINE r == [pc |-> pc, claim |-> call[k].claim, seen |-> call[k].seen]
<1>2. /\ r = [pc |-> r.pc, claim |-> r.claim, seen |-> r.seen]
      /\ r.pc = pc /\ r.claim = call[k].claim /\ r.seen = call[k].seen
  OBVIOUS
<1>3. call' = [call EXCEPT ![k] = r]
  <2>1. [call[k] EXCEPT !.pc = pc] = r
    BY <1>1
  <2>. QED
    BY <2>1
<1>. HIDE DEF r
<1>4. CallsOK'
  BY <1>1, <1>2, <1>3, CallTaken
<1>. QED
  BY <1>1, <1>4

\* A post that has found its category keeps the invariant.
LEMMA PostFindInv ==
    ASSUME IInv, NEW k \in Calls, PostFind(k)
    PROVE  IInv'
<1>1. CallsOK'
  BY PostMovesOn DEF PostFind
<1>2. ClaimsOK' /\ NamedOK'
  BY ClaimsKept DEF PostFind
<1>3. LedgerOK'
  BY DEF IInv, PostFind, LedgerOK
<1>. QED
  BY <1>1, <1>2, <1>3 DEF IInv, PostFind

\* A post whose envelope balances keeps the invariant.
LEMMA PostEnvelopeInv ==
    ASSUME IInv, NEW k \in Calls, PostEnvelope(k)
    PROVE  IInv'
<1>1. CallsOK'
  BY PostMovesOn DEF PostEnvelope
<1>2. ClaimsOK' /\ NamedOK'
  BY ClaimsKept DEF PostEnvelope
<1>3. LedgerOK'
  BY DEF IInv, PostEnvelope, LedgerOK
<1>. QED
  BY <1>1, <1>2, <1>3 DEF IInv, PostEnvelope

\* An entry is of a good row.
LEMMA PostSinkInv ==
    ASSUME IInv, NEW k \in Calls, PostSink(k)
    PROVE  IInv'
<1>1. CallsOK' /\ call[k].claim \in Claims /\ RowOK(call[k].seen)
  BY PostMovesOn DEF PostSink
<1>2. call[k].seen.amount_total \in Nat /\ call[k].seen.currency \in Codes
  BY <1>1 DEF RowOK, Holds, Columns
<1>3. LedgerOK'
  BY <1>1, <1>2 DEF IInv, PostSink, LedgerOK
<1>4. ClaimsOK' /\ NamedOK'
  BY ClaimsKept DEF PostSink
<1>. QED
  BY <1>1, <1>3, <1>4 DEF IInv, PostSink

\* The write that ends a post keeps the invariant.
LEMMA PostMarkInv ==
    ASSUME IInv, NEW k \in Calls, PostMark(k)
    PROVE  IInv'
<1>1. CallsOK'
  BY CallTaken DEF PostMark
<1>2. call[k].claim \in Claims
  BY DEF IInv, CallsOK, PostMark, Idle
<1>3. ClaimsOK' /\ NamedOK'
  <2>1. CASE claim[call[k].claim].state = "approved"
    BY <1>2, <2>1, MoveClaims DEF PostMark, States
  <2>2. CASE claim[call[k].claim].state # "approved"
    BY <2>2, ClaimsKept DEF PostMark
  <2>. QED
    BY <2>1, <2>2
<1>4. LedgerOK'
  BY DEF IInv, PostMark, LedgerOK
<1>. QED
  BY <1>1, <1>3, <1>4 DEF IInv, PostMark

\* A request that fails keeps the invariant.
LEMMA FailInv ==
    ASSUME IInv, NEW k \in Calls, Fail(k)
    PROVE  IInv'
<1>1. CallsOK'
  BY CallTaken DEF Fail
<1>2. ClaimsOK' /\ NamedOK'
  BY ClaimsKept DEF Fail
<1>3. LedgerOK'
  BY DEF IInv, Fail, LedgerOK
<1>. QED
  BY <1>1, <1>2, <1>3 DEF IInv, Fail

\* The category routes keep the invariant.
LEMMA CategoryInv ==
    ASSUME IInv, NEW g \in Categories,
           DeleteCategory(g) \/ RestoreCategory(g) \/ PurgeCategory(g)
    PROVE  IInv'
<1>1. UNCHANGED <<claim, withheld, call, ledger, bodies, named>>
  BY DEF DeleteCategory, RestoreCategory, PurgeCategory
<1>2. category' \in [Categories -> {"unset", "null", "set", "gone"}]
  BY DEF IInv, DeleteCategory, RestoreCategory, PurgeCategory
<1>3. ClaimsOK' /\ NamedOK' /\ CallsOK' /\ LedgerOK'
  BY <1>1, ClaimsKept, OthersKept
<1>. QED
  BY <1>1, <1>2, <1>3 DEF IInv

\* Every step keeps the invariant.
LEMMA NextInv ==
    ASSUME IInv, [Next]_vars
    PROVE  IInv'
<1>1. CASE UNCHANGED vars
  BY <1>1, ClaimsKept, OthersKept DEF vars, IInv
<1>2. ASSUME NEW k \in Calls, NEW c \in Claims, EditFind(k, c) \/ PostRead(k, c)
      PROVE  IInv'
  BY <1>2, EditFindInv, PostReadInv
<1>3. ASSUME NEW k \in Calls, EditUpdate(k) \/ PostFind(k) \/ PostSink(k)
                              \/ PostMark(k) \/ Fail(k)
      PROVE  IInv'
  BY <1>3, EditUpdateInv, PostFindInv, PostSinkInv, PostMarkInv, FailInv
<1>4. ASSUME NEW c \in Claims, Submit(c) \/ Approve(c) \/ Refuse(c) \/ Settle(c)
      PROVE  IInv'
  BY <1>4, MoveInv DEF Submit, Approve, Refuse, Settle, States
<1>5. ASSUME NEW c \in Claims, Create(c) \/ Edit(c)
      PROVE  IInv'
  BY <1>5, CreateInv, EditInv
<1>6. ASSUME NEW k \in Calls,
             \/ TaxCommit(k) \/ \E c \in Claims : TaxWrite(k, c)
             \/ PostEnvelope(k)
      PROVE  IInv'
  BY <1>6, TaxesInv, PostEnvelopeInv
<1>. QED
  BY <1>1, <1>2, <1>3, <1>4, <1>5, <1>6, CategoryInv DEF Next

-----------------------------------------------------------------------------

\* Every reachable state satisfies the inductive invariant.
THEOREM Invariant == Spec => []IInv
<1>1. Init => IInv
  BY InitInv
<1>2. IInv /\ [Next]_vars => IInv'
  BY NextInv
<1>. QED
  BY <1>1, <1>2, PTL DEF Spec

\* Only good values are stored, booked and held in flight: what the checks in
\* front of the two writers of a claim let through satisfies the columns'
\* constraints, with whatever else goes on between check and write.
THEOREM TypeCorrect == Spec => []TypeOK
<1>1. ClaimsOK => \A c \in Claims : claim[c] # Absent =>
         claim[c].state \in States /\ \A col \in Columns : Holds(col, claim[c][col])
  BY DEF ClaimsOK, RowOK
<1>2. CallsOK => \A k \in Calls :
         call[k].pc \in {"idle", "update", "taxes", "find", "envelope",
                        "sink", "mark"}
  BY DEF CallsOK, Idle
<1>3. IInv => TypeOK
  BY <1>1, <1>2 DEF IInv, LedgerOK, TypeOK
<1>. QED
  BY <1>3, Invariant, PTL

\* A claim reads, column by column, as the last writer that named the column
\* said, for any bodies and any interleaving of requests.
THEOREM LastNamed == Spec => []LastNamedWins
<1>1. IInv => LastNamedWins
  BY DEF IInv, NamedOK, LastNamedWins, ExpenseBody
<1>. QED
  BY <1>1, Invariant, PTL

-----------------------------------------------------------------------------
(* The ledger and the report.                                              *)

Final == {"approved", "posted", "done"}

\* An entry is of a claim that was approved and is as it was then; a post in
\* flight holds it as it is.
Books ==
    /\ \A c \in Claims :
         claim[c].state \in {"posted", "done"} => ledger[c] # NoEntry
    /\ \A c \in Claims : ledger[c] # NoEntry =>
         /\ claim[c].state \in Final
         /\ ledger[c].amount = claim[c].amount_total
         /\ ledger[c].currency = claim[c].currency
    /\ \A k \in Calls : call[k].pc \in {"find", "envelope", "sink", "mark"} =>
         /\ claim[call[k].claim].state \in Final
         /\ \A col \in Columns : call[k].seen[col] = claim[call[k].claim][col]
         /\ call[k].pc = "mark" => ledger[call[k].claim] # NoEntry

\* A claim that moves on: its state is another, its columns are the same.
LEMMA MovesOnly ==
    ASSUME IInv, NEW c \in Claims, claim[c].state # "absent", NEW to \in States,
           claim' = [claim EXCEPT ![c].state = to]
    PROVE  /\ claim'[c].state = to
           /\ \A col \in Columns : claim'[c][col] = claim[c][col]
           /\ \A d \in Claims \ {c} : claim'[d] = claim[d]
<1>1. RowOK(claim[c])
  BY DEF IInv, ClaimsOK, Absent
<1>2. claim'[c] = [claim[c] EXCEPT !.state = to]
  BY DEF IInv, ClaimsOK
<1> QED
  BY <1>1, <1>2, MovedIsGood DEF RowOK, IInv, ClaimsOK

\* A claim that was approved is not refused, edited or created again.
LEMMA FinalStays ==
    ASSUME IInv, [Next]_vars, NEW c \in Claims, claim[c].state \in Final
    PROVE  /\ claim'[c].state \in Final
           /\ \A col \in Columns : claim'[c][col] = claim[c][col]
<1>1. CASE claim' = claim
  BY <1>1
<1>2. ASSUME NEW d \in Claims, Create(d) \/ Edit(d)
      PROVE  claim'[c] = claim[c]
  <2>1. claim[d].state \in {"absent", "draft"}
    BY <1>2 DEF Create, Edit, Write, Absent
  <2>2. c # d
    BY <2>1 DEF Final
  <2> QED BY <1>2, <2>2 DEF Create, Edit, Write, IInv, ClaimsOK
<1>3. ASSUME NEW k \in Calls, EditUpdate(k)
      PROVE  claim'[c] = claim[c]
  BY <1>3 DEF EditUpdate, Write, Final, IInv, ClaimsOK
<1>4. ASSUME NEW d \in Claims, Submit(d) \/ Approve(d) \/ Refuse(d) \/ Settle(d)
      PROVE  /\ claim'[c].state \in Final
             /\ \A col \in Columns : claim'[c][col] = claim[c][col]
  <2>1. PICK from \in {"draft", "submitted", "posted"}, to \in States :
          /\ Move(d, from, to)
          /\ from = "posted" => to = "done"
    BY <1>4 DEF Submit, Approve, Refuse, Settle, States
  <2>2. claim[d].state = from /\ claim' = [claim EXCEPT ![d].state = to]
    BY <2>1 DEF Move
  <2>3. /\ claim'[d].state = to
        /\ \A col \in Columns : claim'[d][col] = claim[d][col]
        /\ \A x \in Claims \ {d} : claim'[x] = claim[x]
    BY <2>2, MovesOnly
  <2>4. c = d => to = "done"
    BY <2>1, <2>2 DEF Final
  <2> QED BY <2>3, <2>4 DEF Final
<1>5. ASSUME NEW k \in Calls, PostMark(k), claim' # claim
      PROVE  /\ claim'[c].state \in Final
             /\ \A col \in Columns : claim'[c][col] = claim[c][col]
  <2> DEFINE d == call[k].claim
  <2>1. d \in Claims
    BY <1>5 DEF PostMark, IInv, CallsOK, Idle
  <2>2. claim[d].state = "approved" /\ claim' = [claim EXCEPT ![d].state = "posted"]
    BY <1>5 DEF PostMark
  <2>3. /\ claim'[d].state = "posted"
        /\ \A col \in Columns : claim'[d][col] = claim[d][col]
        /\ \A x \in Claims \ {d} : claim'[x] = claim[x]
    BY <2>1, <2>2, MovesOnly DEF States
  <2> QED BY <2>3 DEF Final
<1> QED
  BY <1>1, <1>2, <1>3, <1>4, <1>5
  DEF Next, EditFind, TaxWrite, TaxCommit, PostRead, PostFind, PostEnvelope,
      PostSink, Fail, DeleteCategory, RestoreCategory, PurgeCategory, vars

\* An edit leaves a draft a draft.
LEMMA WriteIsDraft ==
    ASSUME IInv, NEW c \in Claims, NEW body, BodyOK(body), Write(c, body)
    PROVE  claim'[c].state = "draft"
<1>1. claim[c].state = "draft" /\ RowOK(claim[c])
  BY DEF Write, IInv, ClaimsOK, Absent
<1>2. "state" \notin DOMAIN ExpensePatch(body)
  <2>1. \A key \in DOMAIN body : key \in Columns
    BY SentOK DEF BodyOK, EditBodies, Columns
  <2> QED BY <2>1 DEF ExpensePatch, Keys, Columns
<1>3. Patched(claim[c], ExpensePatch(body)).state = claim[c].state
  BY <1>1, <1>2 DEF Patched, RowOK
<1> QED BY <1>1, <1>3 DEF Write, IInv, ClaimsOK

\* What is posted or done after a step was so before, or is posted by a
\* request that has its entry.
LEMMA PostedByMark ==
    ASSUME IInv, Books, [Next]_vars, NEW c \in Claims,
           claim'[c].state \in {"posted", "done"}
    PROVE  ledger[c] # NoEntry
<1>1. CASE claim'[c] = claim[c]
  BY <1>1 DEF Books
<1>2. ASSUME NEW d \in Claims, Create(d) \/ Edit(d), c = d
      PROVE  FALSE
  <2>1. CASE Create(d)
    BY <1>2, <2>1 DEF Create, Draft, IInv, ClaimsOK
  <2>2. CASE Edit(d)
    <3>1. claim'[d].state = "draft"
      <4>1. PICK body \in EditBodies :
              /\ Accepted(ExpensePatch(body)) /\ Write(d, body)
        BY <2>2 DEF Edit
      <4>2. BodyOK(body) /\ RowOK(claim[d])
        BY <4>1, AcceptedIsGood DEF Write, IInv, ClaimsOK, Absent
      <4> QED BY <4>1, <4>2, WriteIsDraft
    <3> QED BY <1>2, <3>1
  <2> QED BY <1>2, <2>1, <2>2
<1>3. ASSUME NEW k \in Calls, EditUpdate(k), c = call[k].claim
      PROVE  FALSE
  <2>1. /\ call[k].claim \in Claims /\ BodyOK(call[k].body)
        /\ Write(c, call[k].body)
    BY <1>3 DEF EditUpdate, IInv, CallsOK, Idle
  <2> QED BY <2>1, WriteIsDraft
<1>4. ASSUME NEW d \in Claims, Submit(d) \/ Approve(d) \/ Refuse(d) \/ Settle(d),
             c = d
      PROVE  ledger[c] # NoEntry
  <2>1. PICK from \in {"draft", "submitted", "posted"}, to \in States :
          /\ Move(d, from, to)
          /\ from # "posted" => to \in {"submitted", "approved", "refused"}
    BY <1>4 DEF Submit, Approve, Refuse, Settle, States
  <2>2. claim[d].state = from /\ claim' = [claim EXCEPT ![d].state = to]
    BY <2>1 DEF Move
  <2>3. claim'[d].state = to
    BY <2>2, MovesOnly
  <2> QED BY <1>4, <2>1, <2>2, <2>3 DEF Books
<1>5. ASSUME NEW k \in Calls, PostMark(k), c = call[k].claim
      PROVE  ledger[c] # NoEntry
  BY <1>5 DEF PostMark, Books
<1>6. ASSUME NEW d \in Claims,
             \/ Create(d) \/ Edit(d)
             \/ Submit(d) \/ Approve(d) \/ Refuse(d) \/ Settle(d),
             c # d
      PROVE  claim'[c] = claim[c]
  BY <1>6 DEF Create, Edit, Write, Submit, Approve, Refuse, Settle, Move, IInv, ClaimsOK
<1>7. ASSUME NEW k \in Calls, EditUpdate(k) \/ PostMark(k), c # call[k].claim
      PROVE  claim'[c] = claim[c]
  BY <1>7 DEF EditUpdate, Write, PostMark, IInv, ClaimsOK
<1> QED
  BY <1>1, <1>2, <1>3, <1>4, <1>5, <1>6, <1>7
  DEF Next, EditFind, TaxWrite, TaxCommit, PostRead, PostFind, PostEnvelope,
      PostSink, Fail, DeleteCategory, RestoreCategory, PurgeCategory, vars

\* An entry is made of what a post holds, and is not changed any more.
LEMMA LedgerStep ==
    ASSUME IInv, Books, [Next]_vars, NEW c \in Claims, ledger'[c] # NoEntry
    PROVE  \/ ledger'[c] = ledger[c]
           \/ /\ claim[c].state \in Final
              /\ ledger'[c].amount = claim[c].amount_total
              /\ ledger'[c].currency = claim[c].currency
<1>1. ASSUME NEW k \in Calls, PostSink(k), ledger'[c] # ledger[c]
      PROVE  /\ claim[c].state \in Final
             /\ ledger'[c].amount = claim[c].amount_total
             /\ ledger'[c].currency = claim[c].currency
  <2>1. c = call[k].claim
        /\ ledger'[c] = [amount |-> call[k].seen.amount_total,
                         currency |-> call[k].seen.currency]
    BY <1>1 DEF PostSink, IInv, LedgerOK
  <2>2. call[k].pc = "sink"
    BY <1>1 DEF PostSink
  <2>3. /\ claim[c].state \in Final
        /\ \A col \in Columns : call[k].seen[col] = claim[c][col]
    BY <2>1, <2>2 DEF Books
  <2>4. /\ call[k].seen.amount_total = claim[c].amount_total
        /\ call[k].seen.currency = claim[c].currency
    BY <2>3 DEF Columns
  <2> QED BY <2>1, <2>3, <2>4
<1>2. CASE ledger' = ledger
  BY <1>2
<1> QED
  BY <1>1, <1>2
  DEF Next, EditFind, EditUpdate, TaxWrite, TaxCommit, PostRead, PostFind,
      PostEnvelope, PostMark, Fail, Create,
      Edit, Submit, Approve, Refuse, Settle, Move, DeleteCategory,
      RestoreCategory, PurgeCategory, vars

\* An entry that is there stays.
LEMMA LedgerStays ==
    ASSUME IInv, [Next]_vars, NEW c \in Claims, ledger[c] # NoEntry
    PROVE  ledger'[c] # NoEntry
<1>1. CASE \E k \in Calls : PostSink(k)
  BY <1>1 DEF PostSink, IInv, LedgerOK
<1>2. CASE ledger' = ledger
  BY <1>2
<1> QED
  BY <1>1, <1>2
  DEF Next, EditFind, EditUpdate, TaxWrite, TaxCommit, PostRead, PostFind,
      PostEnvelope, PostMark, Fail, Create,
      Edit, Submit, Approve, Refuse, Settle, Move, DeleteCategory,
      RestoreCategory, PurgeCategory, vars

\* A post in flight was there before, one step back at most, or has just read
\* its claim.
LEMMA PostStep ==
    ASSUME IInv, [Next]_vars, NEW k \in Calls,
           call'[k].pc \in {"find", "envelope", "sink", "mark"}
    PROVE  \/ /\ claim' = claim /\ call'[k].pc = "find"
              /\ call'[k].claim \in Claims
              /\ claim[call'[k].claim].state = "approved"
              /\ call'[k].seen = claim[call'[k].claim]
           \/ /\ call[k].pc \in {"find", "envelope", "sink", "mark"}
              /\ call'[k].claim = call[k].claim /\ call'[k].seen = call[k].seen
              /\ call'[k].pc = "mark" /\ call[k].pc # "mark" =>
                   ledger'[call[k].claim] # NoEntry
<1> USE DEF IInv, CallsOK
<1>1. CASE call'[k] = call[k]
  BY <1>1
<1>2. ASSUME NEW c \in Claims, PostRead(k, c)
      PROVE  /\ claim' = claim /\ call'[k].pc = "find" /\ call'[k].claim = c
             /\ claim[c].state = "approved" /\ call'[k].seen = claim[c]
  BY <1>2 DEF PostRead
<1>3. ASSUME PostFind(k) \/ PostEnvelope(k) \/ PostSink(k)
      PROVE  /\ call[k].pc \in {"find", "envelope", "sink"}
             /\ call'[k].claim = call[k].claim /\ call'[k].seen = call[k].seen
             /\ call'[k].pc = "mark" => ledger'[call[k].claim] # NoEntry
  <2>1. /\ call[k].pc \in {"find", "envelope", "sink"}
        /\ call[k] = [pc |-> call[k].pc, claim |-> call[k].claim,
                      seen |-> call[k].seen]
        /\ call[k].claim \in Claims
    BY <1>3 DEF PostFind, PostEnvelope, PostSink, Idle
  <2>2. CASE PostFind(k) \/ PostEnvelope(k)
    BY <2>1, <2>2 DEF PostFind, PostEnvelope
  <2>3. CASE PostSink(k)
    <3>1. /\ call'[k].claim = call[k].claim /\ call'[k].seen = call[k].seen
      BY <2>1, <2>3 DEF PostSink
    <3>2. ledger'[call[k].claim] # NoEntry
      BY <2>1, <2>3 DEF PostSink, LedgerOK, NoEntry
    <3> QED BY <2>1, <3>1, <3>2
  <2> QED BY <1>3, <2>2, <2>3, <2>1
<1>4. ASSUME NEW c \in Claims, EditFind(k, c) \/ TaxWrite(k, c)
      PROVE  call'[k].pc \in {"update", "taxes"}
  BY <1>4 DEF EditFind, TaxWrite
<1>5. ASSUME EditUpdate(k) \/ TaxCommit(k) \/ PostMark(k) \/ Fail(k)
      PROVE  call'[k] = Idle
  BY <1>5 DEF EditUpdate, TaxCommit, PostMark, Fail
<1>6. ASSUME NEW j \in Calls \ {k},
             \/ \E c \in Claims : EditFind(j, c) \/ TaxWrite(j, c) \/ PostRead(j, c)
             \/ EditUpdate(j) \/ TaxCommit(j) \/ PostFind(j) \/ PostEnvelope(j)
             \/ PostSink(j) \/ PostMark(j) \/ Fail(j)
      PROVE  call'[k] = call[k]
  BY <1>6 DEF EditFind, TaxWrite, PostRead, EditUpdate, TaxCommit, PostFind,
     PostEnvelope, PostSink, PostMark, Fail
<1>7. Idle.pc = "idle"
  BY DEF Idle
<1> QED
  BY <1>1, <1>2, <1>3, <1>4, <1>5, <1>6, <1>7
  DEF Next, Create, Edit, Submit, Approve, Refuse, Settle, Move,
      DeleteCategory, RestoreCategory, PurgeCategory, vars

LEMMA BooksKept ==
    ASSUME IInv, Books, [Next]_vars
    PROVE  Books'
<1>1. ASSUME NEW c \in Claims, claim'[c].state \in {"posted", "done"}
      PROVE  ledger'[c] # NoEntry
  BY <1>1, PostedByMark, LedgerStays
<1>2. ASSUME NEW c \in Claims, ledger'[c] # NoEntry
      PROVE  /\ claim'[c].state \in Final
             /\ ledger'[c].amount = claim'[c].amount_total
             /\ ledger'[c].currency = claim'[c].currency
  <2>1. /\ claim[c].state \in Final
        /\ ledger'[c].amount = claim[c].amount_total
        /\ ledger'[c].currency = claim[c].currency
    BY <1>2, LedgerStep DEF Books
  <2> QED BY <2>1, FinalStays DEF Columns
<1>3. ASSUME NEW k \in Calls, call'[k].pc \in {"find", "envelope", "sink", "mark"}
      PROVE  /\ claim'[call'[k].claim].state \in Final
             /\ \A col \in Columns :
                  call'[k].seen[col] = claim'[call'[k].claim][col]
             /\ call'[k].pc = "mark" => ledger'[call'[k].claim] # NoEntry
  <2>1. CASE /\ claim' = claim /\ call'[k].pc = "find"
             /\ claim[call'[k].claim].state = "approved"
             /\ call'[k].seen = claim[call'[k].claim]
    BY <2>1 DEF Final
  <2>2. CASE /\ call[k].pc \in {"find", "envelope", "sink", "mark"}
             /\ call'[k].claim = call[k].claim /\ call'[k].seen = call[k].seen
             /\ call'[k].pc = "mark" /\ call[k].pc # "mark" =>
                  ledger'[call[k].claim] # NoEntry
    <3> DEFINE c == call[k].claim
    <3>1. /\ claim[c].state \in Final
          /\ \A col \in Columns : call[k].seen[col] = claim[c][col]
          /\ call[k].pc = "mark" => ledger[c] # NoEntry
      BY <2>2 DEF Books
    <3>2. c \in Claims
      BY <2>2 DEF IInv, CallsOK, Idle
    <3>3. /\ claim'[c].state \in Final
          /\ \A col \in Columns : claim'[c][col] = claim[c][col]
      BY <3>1, <3>2, FinalStays
    <3>4. call'[k].pc = "mark" => ledger'[c] # NoEntry
      BY <2>2, <3>1, <3>2, LedgerStays
    <3> QED BY <2>2, <3>1, <3>3, <3>4
  <2> QED BY <1>3, <2>1, <2>2, PostStep
<1> QED BY <1>1, <1>2, <1>3 DEF Books

\* What one range of days has of an employee's claims, or of all, in a
\* currency, that are posted or done.
Settled(employee, from, to, currency) ==
    {c \in Matching(employee, from, to) :
       /\ claim[c].currency = currency
       /\ claim[c].state \in {"posted", "done"}}
SettledRows(employee, from, to, currency) ==
    {r \in report(employee, from, to) :
       /\ r.group.currency = currency
       /\ r.group.state \in {"posted", "done"}}

LEMMA AmountsInt ==
    ASSUME IInv, NEW S \in SUBSET Claims, \A c \in S : claim[c] # Absent
    PROVE  /\ IsFiniteSet(S)
           /\ \A c \in S : claim[c].amount_total \in Int
<1>1. IsFiniteSet(S)
  BY BoundsOK, FS_Subset
<1>2. \A c \in S : claim[c].amount_total \in Int
  BY DEF IInv, ClaimsOK, RowOK, Holds, Columns
<1> QED BY <1>1, <1>2

\* The report's rows add up to its claims: every claim is in one row.
LEMMA RowsAddUp ==
    ASSUME IInv, NEW employee, NEW from \in Int, NEW to \in Int,
           from <= to, NEW currency
    PROVE  SumFunction([r \in SettledRows(employee, from, to, currency) |->
                          r.amount_total])
             = SumOfClaims(Settled(employee, from, to, currency))
<1> DEFINE M == Matching(employee, from, to)
           In(group) == {c \in M : Group(c) = group}
           Row(group) == [group        |-> group,
                          line_count   |-> Cardinality(In(group)),
                          amount_total |-> SumOfClaims(In(group))]
           S == Settled(employee, from, to, currency)
           R == SettledRows(employee, from, to, currency)
           f == [c \in S |-> claim[c].amount_total]
           h == [r \in R |-> r.amount_total]
           key == [c \in S |-> Row(Group(c))]
<1>1. /\ S \in SUBSET Claims /\ M \in SUBSET Claims
      /\ \A c \in M : claim[c] # Absent
      /\ \A c : c \in S <=> /\ c \in M
                            /\ claim[c].currency = currency
                            /\ claim[c].state \in {"posted", "done"}
  BY DEF Matching, Settled
<1>2. \A c : /\ Row(Group(c)).group = Group(c)
             /\ Group(c).currency = claim[c].currency
             /\ Group(c).state = claim[c].state
  BY DEF Group
<1>3. \A r : r \in R <=> \E c \in S : r = Row(Group(c))
  <2>1. ~(from > to)
    OBVIOUS
  <2>2. report(employee, from, to) = {Row(g) : g \in {Group(c) : c \in M}}
    BY <2>1 DEF report
  <2> HIDE DEF Row, M, S
  <2>3. \A r : r \in report(employee, from, to) <=> \E c \in M : r = Row(Group(c))
    BY <2>2
  <2> QED BY <1>1, <1>2, <2>3 DEF SettledRows
<1>4. IsFiniteSet(S) /\ IsFiniteSet(M) /\ \A c \in M : claim[c].amount_total \in Int
  <2>1. S \in SUBSET M
    BY <1>1
  <2>2. IsFiniteSet(M) /\ \A c \in M : claim[c].amount_total \in Int
    <3> HIDE DEF M, S
    <3> QED BY <1>1, AmountsInt
  <2> QED BY <2>1, <2>2, FS_Subset
<1>5. key \in Surjection(S, R) /\ key \in [S -> R]
  <2> HIDE DEF S, R, Row
  <2> QED BY <1>3 DEF Surjection
<1>6. IsFiniteSet(R)
  <2> HIDE DEF S, R, key
  <2> QED BY <1>4, <1>5, FS_Surjection
<1>7. ASSUME NEW r \in R
      PROVE  h[r] = SumFunctionOnSet(f, {c \in S : key[c] = r})
  <2>1. PICK d \in S : r = Row(Group(d))
    BY <1>3
  <2> DEFINE D == {c \in S : key[c] = r}
             m == [c \in In(Group(d)) |-> claim[c].amount_total]
  <2>2. D = In(Group(d))
    <3>1. \A c \in S : key[c] = Row(Group(c))
      OBVIOUS
    <3>2. \A c \in M : Group(c) = Group(d) => c \in S
      BY <1>1, <1>2
    <3>3. \A c \in S : Row(Group(c)) = Row(Group(d)) => Group(c) = Group(d)
      BY <1>2
    <3>4. \A c : c \in In(Group(d)) <=> c \in M /\ Group(c) = Group(d)
      OBVIOUS
    <3>5. \A c : c \in D <=> c \in S /\ key[c] = r
      OBVIOUS
    <3> HIDE DEF Row, S, M, In, key, D
    <3>6. \A c : c \in D <=> c \in In(Group(d))
      BY <1>1, <2>1, <3>1, <3>2, <3>3, <3>4, <3>5
    <3> QED BY <3>6
  <2>3. h[r] = SumOfClaims(In(Group(d)))
    BY <2>1
  <2>4. SumOfClaims(In(Group(d))) = SumFunctionOnSet(m, In(Group(d)))
    BY DEF SumOfClaims, SumFunction
  <2>5. IsFiniteSet(D)
    BY <1>4, FS_Subset
  <2>6. \A c \in D : m[c] = f[c]
    BY <2>2
  <2> HIDE DEF D, In, m, f, h
  <2>7. SumFunctionOnSet(m, D) = SumFunctionOnSet(f, D)
    BY <2>5, <2>6, SumCongruent
  <2> QED BY <2>2, <2>3, <2>4, <2>7 DEF D
<1>8. \A c \in S : f[c] \in Int
  BY <1>1, <1>4
<1>9. SumFunction(h) = SumFunctionOnSet(h, R)
  BY DEF SumFunction
<1>10. SumOfClaims(S) = SumFunctionOnSet(f, S)
  BY DEF SumOfClaims, SumFunction
<1>11. SumFunctionOnSet(h, R) = SumFunctionOnSet(f, S)
  <2>1. \A r \in R : h[r] = SumFunctionOnSet(f, {c \in S : key[c] = r})
    BY <1>7
  <2> HIDE DEF S, R, h, f, key, M, In, Row
  <2>2. IsFiniteSet(S) /\ IsFiniteSet(R) /\ key \in [S -> R]
    BY <1>4, <1>5, <1>6
  <2> QED BY <2>1, <2>2, <1>8, SumPartition
<1> QED BY <1>9, <1>10, <1>11

\* What was booked is settled in one of two ranges of days that meet, and in
\* one only.
LEMMA BookedIsSettled ==
    ASSUME IInv, Books, NEW employee, NEW day \in FirstDay..LastDay - 1,
           NEW currency, NEW Booked,
           Booked = {c \in Claims : /\ ledger[c] # NoEntry
                                    /\ claim[c].state \in {"posted", "done"}
                                    /\ employee \in {Null, claim[c].employee_id}
                                    /\ category[claim[c].category_id] # "gone"
                                    /\ ledger[c].currency = currency}
    PROVE  LET early == Settled(employee, FirstDay, day, currency)
               late  == Settled(employee, day + 1, LastDay, currency)
           IN  /\ early \cup late = Booked
               /\ early \cap late = {}
<1> DEFINE early == Settled(employee, FirstDay, day, currency)
           late  == Settled(employee, day + 1, LastDay, currency)
<1>1. /\ FirstDay \in Int /\ LastDay \in Int /\ day \in Int
      /\ FirstDay <= day /\ day < LastDay
  BY BoundsOK
<1>2. ASSUME NEW c \in Claims, claim[c].state \in {"posted", "done"}
      PROVE  /\ claim[c] # Absent
             /\ claim[c].expense_date \in Int
             /\ FirstDay <= claim[c].expense_date
             /\ claim[c].expense_date <= LastDay
             /\ ledger[c] # NoEntry /\ ledger[c].currency = claim[c].currency
  <2>1. claim[c] # Absent
    BY <1>2 DEF Absent
  <2>2. claim[c].expense_date \in Days
    BY <2>1 DEF IInv, ClaimsOK, RowOK, Holds, Columns
  <2> QED BY <1>1, <1>2, <2>1, <2>2 DEF Books, Days
<1>3. \A c : c \in early <=>
          /\ c \in Claims /\ claim[c] # Absent
          /\ claim[c].expense_date \in FirstDay..day
          /\ employee \in {Null, claim[c].employee_id}
          /\ category[claim[c].category_id] # "gone"
          /\ claim[c].currency = currency
          /\ claim[c].state \in {"posted", "done"}
  BY DEF Settled, Matching, Joins
<1>4. \A c : c \in late <=>
          /\ c \in Claims /\ claim[c] # Absent
          /\ claim[c].expense_date \in day + 1..LastDay
          /\ employee \in {Null, claim[c].employee_id}
          /\ category[claim[c].category_id] # "gone"
          /\ claim[c].currency = currency
          /\ claim[c].state \in {"posted", "done"}
  BY DEF Settled, Matching, Joins
<1>5. \A c : c \in Booked <=>
          /\ c \in Claims /\ ledger[c] # NoEntry
          /\ claim[c].state \in {"posted", "done"}
          /\ employee \in {Null, claim[c].employee_id}
          /\ category[claim[c].category_id] # "gone"
          /\ ledger[c].currency = currency
  OBVIOUS
<1> HIDE DEF early, late
<1>6. \A c : c \in early \/ c \in late <=> c \in Booked
  BY <1>1, <1>2, <1>3, <1>4, <1>5
<1>7. \A c : ~(c \in early /\ c \in late)
  BY <1>1, <1>2, <1>3, <1>4
<1> QED BY <1>6, <1>7 DEF early, late

\* The sums of two ranges of days are the sum of what was booked.
LEMMA ReportAddsUp == IInv /\ Books => BooksAreReported
<1> SUFFICES ASSUME IInv, Books,
                    NEW employee, NEW day \in FirstDay..LastDay - 1,
                    NEW currency \in Codes
             PROVE
        LET Booked == {c \in Claims : /\ ledger[c] # NoEntry
                                      /\ claim[c].state \in {"posted", "done"}
                                      /\ employee \in {Null, claim[c].employee_id}
                                      /\ category[claim[c].category_id] # "gone"
                                      /\ ledger[c].currency = currency}
            Rows(from, to) == {r \in report(employee, from, to) :
                                 /\ r.group.currency = currency
                                 /\ r.group.state \in {"posted", "done"}}
            Said(from, to) ==
                SumFunction([r \in Rows(from, to) |-> r.amount_total])
        IN  Said(FirstDay, day) + Said(day + 1, LastDay)
              = SumFunction([c \in Booked |-> ledger[c].amount])
  BY DEF BooksAreReported
<1> DEFINE Booked == {c \in Claims : /\ ledger[c] # NoEntry
                                     /\ claim[c].state \in {"posted", "done"}
                                     /\ employee \in {Null, claim[c].employee_id}
                                     /\ category[claim[c].category_id] # "gone"
                                     /\ ledger[c].currency = currency}
           Rows(from, to) == SettledRows(employee, from, to, currency)
           Said(from, to) == SumFunction([r \in Rows(from, to) |-> r.amount_total])
           early == Settled(employee, FirstDay, day, currency)
           late  == Settled(employee, day + 1, LastDay, currency)
           f == [c \in Booked |-> claim[c].amount_total]
           g == [c \in Booked |-> ledger[c].amount]
           Sum(h, S) == SumFunctionOnSet(h, S)
<1>1. /\ FirstDay \in Int /\ LastDay \in Int /\ day \in Int /\ day + 1 \in Int
      /\ FirstDay <= day /\ day + 1 <= LastDay
  BY BoundsOK
<1>2. early \cup late = Booked /\ early \cap late = {}
  BY BookedIsSettled
<1>3. /\ IsFiniteSet(Booked) /\ \A c \in Booked : f[c] \in Int /\ g[c] = f[c]
  <2>1. Booked \in SUBSET Claims /\ \A c \in Booked : claim[c] # Absent
    BY DEF Absent
  <2>2. \A c \in Booked : f[c] = claim[c].amount_total /\ g[c] = claim[c].amount_total
    BY DEF Books
  <2> HIDE DEF Booked, f, g
  <2> QED BY <2>1, <2>2, AmountsInt
<1>4. IsFiniteSet(early) /\ IsFiniteSet(late)
  <2> HIDE DEF early, late, Booked
  <2> QED BY <1>2, <1>3, FS_Subset
<1>5. Said(FirstDay, day) = Sum(f, early)
  <2> DEFINE m == [c \in early |-> claim[c].amount_total]
  <2>1. Said(FirstDay, day) = SumOfClaims(early)
    BY <1>1, RowsAddUp
  <2>2. SumOfClaims(early) = Sum(m, early)
    BY DEF SumOfClaims, SumFunction
  <2> HIDE DEF early, Booked
  <2>3. \A c \in early : m[c] = f[c]
    BY <1>2
  <2> HIDE DEF m, f
  <2>4. Sum(m, early) = Sum(f, early)
    BY <1>4, <2>3, SumCongruent
  <2> QED BY <2>1, <2>2, <2>4
<1>6. Said(day + 1, LastDay) = Sum(f, late)
  <2> DEFINE m == [c \in late |-> claim[c].amount_total]
  <2>1. Said(day + 1, LastDay) = SumOfClaims(late)
    BY <1>1, RowsAddUp
  <2>2. SumOfClaims(late) = Sum(m, late)
    BY DEF SumOfClaims, SumFunction
  <2> HIDE DEF late, Booked
  <2>3. \A c \in late : m[c] = f[c]
    BY <1>2
  <2> HIDE DEF m, f
  <2>4. Sum(m, late) = Sum(f, late)
    BY <1>4, <2>3, SumCongruent
  <2> QED BY <2>1, <2>2, <2>4
<1>7. Sum(f, Booked) = Sum(f, early) + Sum(f, late)
  <2> HIDE DEF early, late, Booked, f
  <2>1. \A c \in early \cup late : f[c] \in Int
    BY <1>2, <1>3
  <2> QED BY <1>2, <1>4, <2>1, SumUnion
<1>8. SumFunction(g) = Sum(f, Booked)
  <2>1. SumFunction(g) = Sum(g, Booked)
    BY DEF SumFunction
  <2> HIDE DEF Booked, f, g
  <2>2. Sum(g, Booked) = Sum(f, Booked)
    BY <1>3, SumCongruent
  <2> QED BY <2>1, <2>2
<1>9. Said(FirstDay, day) + Said(day + 1, LastDay) = SumFunction(g)
  <2> HIDE DEF Said, early, late, f, g, Booked
  <2> QED BY <1>5, <1>6, <1>7, <1>8
<1> QED BY <1>9 DEF SettledRows

\* The rows that the report has of posted and done claims, over two ranges of
\* days that meet, add up to the entries that were made, whatever writes,
\* edits and purges run between a post's five steps.
THEOREM BooksReported == Spec => []BooksAreReported
<1>1. Init => Books
  BY DEF Init, Books, Absent, Idle
<1>2. Spec => []Books
  BY <1>1, Invariant, BooksKept, PTL DEF Spec
<1> QED BY <1>2, Invariant, ReportAddsUp, PTL
==============================================================================
