-------------------------- MODULE TenancyStrip_proofs --------------------------
(***************************************************************************)
(* The safety of the strip, for any list of tables: that no row loses its  *)
(* only key, and that a table is refused only to protect rows.             *)
(*                                                                         *)
(* What was found of the table that is being checked is still so where it  *)
(* matters: a column is not taken back, a table without rows has no row of *)
(* a company alone.                                                        *)
(*                                                                         *)
(* A table that passed the check has no row of a company alone, and gets   *)
(* none before the strip is over: where nothing is inserted, or where      *)
(* every table has its unit, which stays so while the strip runs, and      *)
(* inserts name one.                                                       *)
(***************************************************************************)
EXTENDS TenancyStrip, TLAPS

Guarded == quiet \/ (scoped /\ first)

\* What company_id is to the rows of a table.
Keyed(t) == IF t \in company THEN rows[t] \subseteq {"company", "both"}
            ELSE rows[t] \subseteq {"unit", "unkeyed", "lost"}

\* No row of the table has a company alone.
Covered(t) == "company" \notin rows[t]

Checking == strip.pc \in {"look", "count", "nulls"}

\* The table at hand is there, and has the column that was found.
Found ==
    /\ strip.pc \in {"count", "nulls"} => ~Ended /\ Current \in present
    /\ strip.has_org => Checking /\ ~Ended /\ Current \in unit
    /\ strip.pc = "nulls" => strip.has_org

Passed ==
    /\ Checking /\ ~strip.offenders =>
         \A i \in 1 .. strip.at - 1 : Covered(Order[i])
    /\ strip.pc = "nulls" /\ ~strip.total => Covered(Current)
    /\ strip.pc = "drop" => \A t \in Tables : Covered(t)

IInv ==
    /\ TypeOK
    /\ \A t \in Tables : Keyed(t)
    /\ first /\ Running => present \subseteq unit
    /\ Found
    /\ Guarded => Passed
    /\ KeysKept

-----------------------------------------------------------------------------

LEMMA TablesOf == \A i \in 1 .. Len(Order) : Order[i] \in Tables
  BY OrderOK DEF Tables, Range

LEMMA Initially == Init => IInv
<1> SUFFICES ASSUME Init  PROVE IInv
  OBVIOUS
<1>1. present \subseteq Tables
  BY TablesOf DEF Init
<1>2. strip \in Strip
  BY OrderOK DEF Init, Resting, Strip
<1>3. TypeOK
  BY <1>1, <1>2 DEF Init, TypeOK, Kinds, env
<1>4. \A t \in Tables : Keyed(t)
  BY <1>1 DEF Init, Keyed
<1>5. KeysKept
  BY DEF Init, KeysKept
<1> QED  BY <1>3, <1>4, <1>5 DEF Init, IInv, Running, Resting, Found, Passed, Checking

\* The steps of the others change a table's rows or what it has.
LEMMA OthersKeep ==
    ASSUME IInv, NEW t \in Tables,
           CreateTable(t) \/ AddUnit(t) \/ Backfill(t) \/ Insert(t)
    PROVE  IInv'
<1> USE DEF IInv, TypeOK, Strip, Running
<1>1. UNCHANGED <<strip, env, first>>
  BY DEF CreateTable, AddUnit, Backfill, Insert
<1>f. Found'
  <2>1. present \subseteq present' /\ unit \subseteq unit'
    BY DEF CreateTable, AddUnit, Backfill, Insert
  <2> QED  BY <1>1, <2>1 DEF Found, Checking, Ended, Current
<1>c. ~Ended => Current \in Tables
  BY TablesOf, OrderOK DEF Ended, Current
<1>s. Checking' = Checking /\ Current' = Current
  BY <1>1 DEF Checking, Current
<1>2. CASE CreateTable(t)
  <2>1. Running' = Running /\ ~Running
    BY <1>1, <1>2 DEF CreateTable
  <2>2. TypeOK'
    BY <1>1, <1>2 DEF CreateTable, env
  <2>3. \A u \in Tables : Keyed(u)'
    BY <1>2 DEF CreateTable, Keyed
  <2>4. Passed' /\ KeysKept'
    BY <1>1, <1>2, <2>1 DEF CreateTable, Passed, KeysKept, env, Checking
  <2> QED  BY <1>1, <1>f, <2>1, <2>2, <2>3, <2>4
<1>3. CASE AddUnit(t)
  <2>1. TypeOK'
    BY <1>1, <1>3 DEF AddUnit, env
  <2>2. \A u \in Tables : Keyed(u)'
    BY <1>3 DEF AddUnit, Keyed
  <2>3. (Guarded => Passed)' /\ KeysKept'
    BY <1>1, <1>s, <1>3 DEF AddUnit, Guarded, Passed, Covered, KeysKept, env
  <2> QED  BY <1>1, <1>f, <1>3, <2>1, <2>2, <2>3 DEF AddUnit
<1>4. CASE Backfill(t)
  <2>1. rows' = [rows EXCEPT ![t] = (rows[t] \ {"company"}) \cup {"both"}]
    BY <1>4 DEF Backfill
  <2>2. t \in unit /\ "company" \in rows[t] /\ t \in present
    BY <1>4 DEF Backfill
  <2>3. TypeOK'
    BY <1>1, <1>4, <2>1, <2>2 DEF Backfill, env, Kinds
  <2>4. \A u \in Tables : Keyed(u)'
    BY <1>4, <2>1, <2>2 DEF Backfill, Keyed
  <2>5. \A u \in Tables : Covered(u) => Covered(u)'
    BY <2>1 DEF Covered
  <2>6. (Guarded => Passed)'
    BY <1>1, <1>c, <1>s, <2>5, TablesOf DEF Guarded, Passed, Found, env
  <2>7. KeysKept'
    BY <1>1, <2>1 DEF KeysKept, env
  <2> QED  BY <1>1, <1>f, <1>4, <2>3, <2>4, <2>6, <2>7 DEF Backfill
<1>5. CASE Insert(t)
  <2>1. PICK kind \in Inserted(t) :
          rows' = [rows EXCEPT ![t] = rows[t] \cup {kind}]
    BY <1>5 DEF Insert
  <2>2. /\ kind \in Kinds \ {"lost"}
        /\ kind \in {"company", "both"} <=> t \in company
        /\ kind \in {"both", "unit"} => t \in unit
        /\ t \in unit /\ scoped => kind # "company"
    BY <2>1 DEF Inserted, Kinds
  <2>3. t \in present /\ ~(quiet /\ Running)
        /\ UNCHANGED <<present, company, unit>>
    BY <1>5 DEF Insert
  <2>4. TypeOK'
    BY <1>1, <2>1, <2>2, <2>3 DEF env
  <2>5. \A u \in Tables : Keyed(u)'
    BY <2>1, <2>2, <2>3 DEF Keyed, Kinds
  <2>6. Guarded /\ Running => \A u \in Tables : Covered(u) => Covered(u)'
    BY <2>1, <2>2, <2>3 DEF Guarded, Covered
  <2>7. (Guarded => Passed)'
    BY <1>1, <1>c, <1>s, <2>6, TablesOf DEF Guarded, Passed, Found, env, Checking
  <2>8. KeysKept'
    BY <1>1, <2>1, <2>2 DEF KeysKept, env
  <2> QED  BY <1>1, <1>f, <2>3, <2>4, <2>5, <2>7, <2>8
<1> QED  BY <1>2, <1>3, <1>4, <1>5

\* The check is at the next table, or at the next statement of this one.
LEMMA CheckKeeps ==
    ASSUME IInv, Look \/ Count \/ CountNulls
    PROVE  IInv'
<1> USE DEF IInv, TypeOK, Strip
<1>1. /\ UNCHANGED <<present, company, unit, rows, env, first>>
      /\ strip.at \in 1 .. Len(Order) /\ Current \in Tables
      /\ Checking /\ Current = Order[strip.at] /\ ~Ended
  <2>1. Checking /\ ~Ended
    BY DEF Look, Count, CountNulls, Found, Checking
  <2>2. strip.at \in 1 .. Len(Order)
    BY <2>1, OrderOK DEF Ended
  <2> QED
    BY <2>1, <2>2, TablesOf DEF Look, Count, CountNulls, Decide, Current
<1>2. \A t \in Tables : Keyed(t)' /\ (Covered(t)' <=> Covered(t))
  BY <1>1 DEF Keyed, Covered
<1>3. KeysKept'
  BY <1>1 DEF KeysKept, env
<1>4. Running' = Running /\ (Guarded' => Guarded)
  <2>1. Guarded' = Guarded
    BY <1>1 DEF Guarded, env
  <2>2. strip'.pc \in {"look", "count", "nulls"}
    BY DEF Look, Count, CountNulls, Decide
  <2> QED  BY <1>1, <2>1, <2>2 DEF Running, Checking
<1>5. ASSUME NEW safe \in BOOLEAN, Decide(safe),
             Guarded /\ safe => Covered(Current)
      PROVE  IInv'
  <2>1. /\ strip'.pc = "look" /\ strip'.at = strip.at + 1
        /\ strip'.has_org = FALSE
        /\ strip'.offenders = (strip.offenders \/ ~safe)
        /\ strip' \in Strip
    <3> DEFINE at == strip.at + 1
               offenders == strip.offenders \/ ~safe
    <3>1. strip' = [strip EXCEPT !.pc = "look", !.at = at, !.has_org = FALSE,
                                 !.total = FALSE, !.offenders = offenders]
      BY <1>5 DEF Decide
    <3>2. at \in 1 .. Len(Order) + 1 /\ offenders \in BOOLEAN
      BY <1>1, OrderOK
    <3> HIDE DEF at, offenders
    <3>3. /\ strip'.pc = "look" /\ strip'.at = at /\ strip'.has_org = FALSE
          /\ strip'.offenders = offenders /\ strip' \in Strip
      BY <3>1, <3>2
    <3> QED  BY <3>3 DEF at, offenders
  <2>2. TypeOK'
    BY <1>1, <2>1 DEF env
  <2>3. Found'
    BY <2>1 DEF Found
  <2>4. ASSUME Guarded, ~strip'.offenders, NEW i \in 1 .. strip'.at - 1
        PROVE  Covered(Order[i])'
    <3>1. CASE i = strip.at
      BY <1>1, <1>2, <1>5, <2>1, <2>4, <3>1
    <3>2. CASE i # strip.at
      <4>1. i \in 1 .. strip.at - 1 /\ Order[i] \in Tables
        BY <1>1, <2>1, <3>2, TablesOf
      <4> QED  BY <1>1, <1>2, <2>1, <2>4, <4>1 DEF Passed
    <3> QED  BY <3>1, <3>2
  <2>5. (Guarded => Passed)'
    BY <1>4, <2>1, <2>4 DEF Passed
  <2> QED  BY <1>1, <1>2, <1>3, <1>4, <2>2, <2>3, <2>5
<1>6. ASSUME NEW pc \in {"count", "nulls"}, strip'.pc = pc,
             strip' \in Strip, strip'.at = strip.at,
             strip'.offenders = strip.offenders,
             Current \in present, strip'.has_org => Current \in unit,
             pc = "nulls" => strip'.has_org,
             pc = "nulls" /\ ~strip'.total => Covered(Current)
      PROVE  IInv'
  <2>1. TypeOK'
    BY <1>1, <1>6 DEF env
  <2>2. Found'
    BY <1>1, <1>6 DEF Found, Checking, Ended, Current
  <2>3. (Guarded => Passed)'
    <3>1. \A i \in 1 .. strip.at - 1 : Order[i] \in Tables
      BY <1>1, TablesOf
    <3>2. Current' = Current
      BY <1>1, <1>6 DEF Current
    <3> QED  BY <1>1, <1>2, <1>4, <1>6, <3>1, <3>2 DEF Passed, Checking
  <2> QED  BY <1>1, <1>2, <1>3, <1>4, <2>1, <2>2, <2>3
<1>7. CASE Look
  <2>1. CASE Current \in present
    <3> DEFINE has_org == Current \in unit
    <3>1. strip' = [strip EXCEPT !.pc = "count", !.has_org = has_org]
      BY <1>7, <2>1 DEF Look
    <3>2. has_org \in BOOLEAN /\ (has_org => Current \in unit)
      OBVIOUS
    <3> HIDE DEF has_org
    <3>3. /\ strip'.pc = "count" /\ strip' \in Strip /\ strip'.at = strip.at
          /\ strip'.offenders = strip.offenders /\ strip'.has_org = has_org
      BY <3>1, <3>2
    <3> QED  BY <1>6, <2>1, <3>2, <3>3
  <2>2. CASE Current \notin present
    <3>1. Covered(Current)
      BY <1>1, <2>2 DEF Covered
    <3> QED  BY <1>5, <1>7, <2>2, <3>1 DEF Look
  <2> QED  BY <2>1, <2>2
<1>8. CASE Count
  <2>1. Current \in present /\ strip.pc = "count"
    BY <1>8 DEF Count, Found
  <2>2. ~(rows[Current] # {}) => Covered(Current)
    BY DEF Covered
  <2>3. CASE strip.has_org
    <3> DEFINE total == rows[Current] # {}
    <3>1. strip' = [strip EXCEPT !.pc = "nulls", !.total = total]
      BY <1>8, <2>3 DEF Count
    <3>2. total \in BOOLEAN /\ (~total => Covered(Current))
      BY <2>2
    <3>3. Current \in unit
      BY <2>3 DEF Found
    <3> HIDE DEF total
    <3> QED  BY <1>1, <1>6, <2>1, <2>3, <3>1, <3>2, <3>3
  <2>4. CASE ~strip.has_org
    <3> DEFINE safe == Safe(FALSE, rows[Current] # {}, rows[Current] # {})
    <3>1. Decide(safe)
      BY <1>8, <2>4 DEF Count
    <3>2. safe \in BOOLEAN /\ (safe => Covered(Current))
      BY <2>2 DEF Safe
    <3> HIDE DEF safe
    <3> QED  BY <1>5, <3>1, <3>2
  <2> QED  BY <2>3, <2>4
<1>9. CASE CountNulls
  <2> DEFINE safe == Safe(TRUE, OrgNulls(Current) # {}, strip.total)
  <2>1. Decide(safe) /\ strip.pc = "nulls"
    BY <1>9 DEF CountNulls
  <2>2. OrgNulls(Current) = {} => Covered(Current)
    BY DEF OrgNulls, Covered
  <2>3. Guarded /\ ~strip.total => Covered(Current)
    BY <2>1 DEF Passed
  <2>4. safe \in BOOLEAN /\ (Guarded /\ safe => Covered(Current))
    BY <2>2, <2>3 DEF Safe
  <2> HIDE DEF safe
  <2> QED  BY <1>5, <2>1, <2>4
<1> QED  BY <1>7, <1>8, <1>9

\* The strip gets on without touching a row.
LEMMA StripKeeps ==
    ASSUME IInv, Begin \/ Refuse \/ Pass \/ FailMissing \/ Fail
    PROVE  IInv'
<1> USE DEF IInv, TypeOK, Strip
<1>1. UNCHANGED <<present, company, unit, rows, env>>
  BY DEF Begin, Refuse, Pass, FailMissing, Fail
<1>2. /\ \A t \in Tables : Keyed(t)' /\ (Covered(t)' <=> Covered(t))
      /\ first' => first
  BY <1>1 DEF Keyed, Covered, Begin, Refuse, Pass, FailMissing, Fail
<1>3. strip' \in Strip /\ first' \in BOOLEAN
  <2>1. \A pc \in {"idle", "look", "drop", "refused", "done"} :
          Resting(pc) \in Strip
    BY OrderOK DEF Resting
  <2> QED  BY <2>1 DEF Begin, Refuse, Pass, FailMissing, Fail
<1>4. TypeOK'
  BY <1>1, <1>3 DEF env
<1>5. (first /\ Running => present \subseteq unit)'
  <2>1. CASE Begin
    BY <1>1, <2>1 DEF Begin
  <2>2. CASE Refuse \/ FailMissing \/ Fail
    <3>1. strip'.pc = "refused" \/ strip'.pc = "idle"
      BY <2>2 DEF Refuse, FailMissing, Fail, Resting
    <3> QED  BY <3>1 DEF Running
  <2>3. CASE Pass
    BY <1>1, <2>3 DEF Pass, Running
  <2> QED  BY <2>1, <2>2, <2>3
<1>6. KeysKept'
  BY <1>1, <1>2 DEF KeysKept, env
<1>7. Found'
  BY DEF Begin, Refuse, Pass, FailMissing, Fail, Resting, Found
<1>8. (Guarded => Passed)'
  <2> SUFFICES ASSUME Guarded'  PROVE Passed'
    OBVIOUS
  <2>1. Guarded /\ Passed
    BY <1>1, <1>2 DEF Guarded, env
  <2>2. CASE Begin
    BY <2>2 DEF Begin, Resting, Passed
  <2>3. CASE Pass
    <3>1. strip.pc = "look" /\ strip.at = Len(Order) + 1 /\ ~strip.offenders
      BY <2>3 DEF Pass, Ended
    <3>2. \A i \in 1 .. Len(Order) : Covered(Order[i])
      BY <2>1, <3>1, OrderOK DEF Passed, Checking
    <3>3. \A t \in Tables : Covered(t)
      BY <3>2, OrderOK DEF Tables, Range
    <3> QED  BY <1>2, <2>3, <3>3 DEF Pass, Resting, Passed, Checking
  <2>4. CASE Refuse \/ FailMissing \/ Fail
    BY <2>4 DEF Refuse, FailMissing, Fail, Resting, Passed, Checking
  <2> QED  BY <2>2, <2>3, <2>4
<1> QED  BY <1>2, <1>4, <1>5, <1>6, <1>7, <1>8

\* Columns go, of tables whose rows do without.
LEMMA EraseKeeps ==
    ASSUME IInv, NEW ts \in SUBSET Tables, Erase(ts), strip.pc = "drop",
           UNCHANGED <<present, unit, env, first>>,
           strip' \in Strip, strip'.pc \in {"drop", "done"}, ~strip'.has_org
    PROVE  IInv'
<1> USE DEF IInv, TypeOK
<1>1. \A t \in Tables :
        rows'[t] = IF t \in ts THEN {Stripped(kind) : kind \in rows[t]}
                   ELSE rows[t]
  BY DEF Erase
<1>2. \A t \in Tables :
        /\ rows'[t] \subseteq Kinds
        /\ rows'[t] # {} => rows[t] # {}
        /\ rows'[t] \cap {"company", "both"} # {} =>
             t \notin ts /\ rows[t] \cap {"company", "both"} # {}
        /\ rows'[t] \cap {"both", "unit"} # {} =>
             rows[t] \cap {"both", "unit"} # {}
        /\ Covered(t) => Covered(t)'
        /\ Covered(t) /\ "lost" \in rows'[t] => "lost" \in rows[t]
        /\ Keyed(t)'
  BY <1>1 DEF Stripped, Kinds, Covered, Keyed, Erase
<1>3. TypeOK'
  BY <1>2 DEF Erase, env
<1>4. Guarded => \A t \in Tables : Covered(t)
  BY DEF Passed
<1>5. (Guarded => Passed)' /\ KeysKept'
  BY <1>2, <1>4 DEF Guarded, Passed, KeysKept, env, Checking
<1>6. Found'
  BY DEF Found
<1> QED  BY <1>2, <1>3, <1>5, <1>6 DEF Running

LEMMA DropKeeps ==
    ASSUME IInv, Drop \/ Commit
    PROVE  IInv'
<1> USE DEF IInv, TypeOK, Strip
<1>1. UNCHANGED <<present, unit, env, first>> /\ strip.pc = "drop"
      /\ ~strip.has_org
  BY DEF Drop, Commit, Found, Checking
<1>2. CASE Commit
  <2>1. strip' \in Strip /\ strip'.pc = "done" /\ ~strip'.has_org
    BY <1>2, OrderOK DEF Commit, Resting
  <2> QED  BY <1>1, <1>2, <2>1, EraseKeeps DEF Commit
<1>3. CASE Drop
  <2>1. strip.at \in 1 .. Len(Order) /\ Current \in Tables
    BY <1>3, TablesOf, OrderOK DEF Drop, Ended, Current
  <2>2. CASE ~atomic
    <3>1. strip' \in Strip /\ strip'.pc = "drop" /\ ~strip'.has_org
      BY <1>1, <1>3, <2>1, <2>2, OrderOK DEF Drop
    <3> QED  BY <1>1, <1>3, <2>1, <2>2, <3>1, EraseKeeps DEF Drop
  <2>3. CASE atomic
    <3>1. UNCHANGED <<company, rows>>
      BY <1>3, <2>3 DEF Drop
    <3>2. strip' \in Strip /\ strip'.pc = "drop" /\ ~strip'.has_org
      <4> DEFINE at == strip.at + 1
                 dropped == strip.dropped \cup {Current}
      <4>1. strip' = [strip EXCEPT !.at = at, !.dropped = dropped]
        BY <1>3, <2>3 DEF Drop
      <4>2. at \in 1 .. Len(Order) + 1 /\ dropped \in SUBSET Tables
        BY <2>1, OrderOK
      <4>3. strip \in Strip /\ strip.pc = "drop" /\ ~strip.has_org
        BY <1>1
      <4> HIDE DEF at, dropped
      <4> QED  BY <4>1, <4>2, <4>3
    <3>3. TypeOK'
      BY <1>1, <3>1, <3>2 DEF env
    <3>4. \A t \in Tables : Keyed(t)' /\ (Covered(t) => Covered(t)')
      BY <3>1 DEF Keyed, Covered
    <3>5. (Guarded => Passed)' /\ KeysKept'
      BY <1>1, <3>1, <3>2, <3>4 DEF Guarded, Passed, KeysKept, env, Checking
    <3>6. Found'
      BY <3>2 DEF Found
    <3> QED  BY <1>1, <3>1, <3>2, <3>3, <3>4, <3>5, <3>6 DEF Running
  <2> QED  BY <2>2, <2>3
<1> QED  BY <1>2, <1>3

\* What an idle step leaves.
LEMMA StutterKeeps == IInv /\ UNCHANGED vars => IInv'
  BY DEF IInv, TypeOK, Keyed, Covered, Running, Guarded, Found, Checking,
         Ended, Current, Passed, KeysKept, vars, env

\* Of a table that passed the check no row has a company alone, and none gets
\* one until the strip is over.
THEOREM Invariance == Spec => []IInv
<1>1. IInv /\ [Next]_vars => IInv'
  BY OthersKeep, CheckKeeps, StripKeeps, DropKeeps, StutterKeeps
  DEF Next, Statement
<1> QED  BY Initially, <1>1, PTL DEF Spec

-----------------------------------------------------------------------------

\* The types, with what the rows of a table can be keyed by.
THEOREM TypeCorrect == Spec => []TypeOK
<1>1. IInv => TypeOK
  BY DEF IInv
<1> QED  BY Invariance, <1>1, PTL

\* No row loses its only key, where the strip is run as it is meant to be.
THEOREM Kept == Spec => []KeysKept
<1>1. IInv => KeysKept
  BY DEF IInv
<1> QED  BY Invariance, <1>1, PTL

\* A table with its company_id is refused for rows that have nothing else,
\* unless it got its other column after the check had looked for it.
THEOREM ProtectsOnly == Spec => RefusesToProtect
<1>1. IInv /\ [Next]_vars =>
        [Named /\ Current \in company /\ ~Overtaken =>
           "company" \in rows[Current]]_vars
  <2> SUFFICES ASSUME IInv, [Next]_vars, Named, Current \in company, ~Overtaken
               PROVE  "company" \in rows[Current]
    OBVIOUS
  <2>1. ~strip.offenders /\ strip'.offenders
    BY DEF Named
  <2>2. strip # strip'
    BY <2>1
  <2>3. ASSUME Begin \/ Refuse \/ Pass \/ FailMissing \/ Fail \/ Commit
        PROVE  ~strip'.offenders
    BY <2>3 DEF Begin, Refuse, Pass, FailMissing, Fail, Commit, Resting
  <2>4. \/ Count /\ ~strip.has_org /\ rows[Current] # {}
        \/ CountNulls /\ OrgNulls(Current) # {}
    BY <2>1, <2>2, <2>3
    DEF Next, Statement, CreateTable, AddUnit, Backfill, Insert, Look, Count,
        CountNulls, Decide, Safe, Drop, IInv, TypeOK, Strip, vars
  <2>5. Current \in Tables /\ rows[Current] \subseteq {"company", "both"}
    BY DEF IInv, TypeOK, Keyed
  <2>6. CASE Count /\ ~strip.has_org /\ rows[Current] # {}
    <3>1. Current \notin unit
      BY <2>6 DEF Overtaken
    <3> QED  BY <2>5, <2>6, <3>1 DEF IInv, TypeOK
  <2>7. CASE OrgNulls(Current) # {}
    BY <2>5, <2>7 DEF OrgNulls
  <2> QED  BY <2>4, <2>6, <2>7
<1> QED  BY Invariance, <1>1, PTL DEF Spec, RefusesToProtect
===============================================================================
