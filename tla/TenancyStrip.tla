----------------------------- MODULE TenancyStrip -----------------------------
(***************************************************************************)
(* The migration that drops company_id from the module's tables, next to   *)
(* the three others that change them: the migrations that create them, the *)
(* composing service's tenancy decorator, which adds org_unit_id and fills *)
(* it from company_id, and the application, which inserts rows.            *)
(*                                                                         *)
(* The check takes three statements of a table, each with a snapshot of    *)
(* its own: what one has found may be gone when the next is executed.      *)
(*                                                                         *)
(* The decorator and the runner of migrations belong to the composing      *)
(* service.  How they work is the environment's choice, made at the start. *)
(***************************************************************************)
EXTENDS Naturals, Sequences, Functions

CONSTANT Order  \* the tables, in the order the strip takes them

Tables == Range(Order)

ASSUME OrderOK == Order \in Seq(STRING) /\ IsInjective(Order) /\ Order # <<>>

VARIABLES
    present,  \* tables that exist
    company,  \* tables with the column company_id
    unit,     \* tables with the column org_unit_id
    rows,     \* the kinds of rows in each table
    strip,    \* the migration
    atomic,   \* environment: a file of statements is one transaction
    quiet,    \* environment: nothing is inserted while the strip runs
    scoped,   \* environment: inserts name a unit where there is the column
    first     \* no strip has begun before the decorator was everywhere

env == <<atomic, quiet, scoped>>
vars == <<present, company, unit, rows, strip, env, first>>

\* What a row is keyed by: its company, its unit, both; never by anything;
\* or by nothing any more.
Kinds == {"company", "both", "unit", "unkeyed", "lost"}

\* pc: the next statement of the strip; at: the table it is at; has_org and
\* total: what it found of that table, the column and whether there are rows;
\* offenders: a table was named; dropped: columns dropped and not committed.
Strip == [pc : {"idle", "look", "count", "nulls", "drop", "refused", "done"},
          at : 1 .. Len(Order) + 1, has_org : BOOLEAN, total : BOOLEAN,
          offenders : BOOLEAN, dropped : SUBSET Tables]
Resting(pc) == [pc |-> pc, at |-> 1, has_org |-> FALSE, total |-> FALSE,
                offenders |-> FALSE, dropped |-> {}]

Init ==
    /\ \E n \in 0 .. Len(Order) : present = {Order[i] : i \in 1 .. n}
    /\ company = present
    /\ unit = {}
    /\ rows \in [Tables -> {{}, {"company"}}]
    /\ \A t \in Tables \ present : rows[t] = {}
    /\ strip = Resting("idle")
    /\ atomic \in BOOLEAN /\ quiet \in BOOLEAN /\ scoped \in BOOLEAN
    /\ first = TRUE

Running == strip.pc \in {"look", "count", "nulls", "drop"}
Current == Order[strip.at]
Ended == strip.at = Len(Order) + 1

\* Tables the strip's transaction has counted: it shares them to its end.
\* Looking for the column locks the catalogue, not the table.
Shared ==
    CASE strip.pc \in {"look", "count"} -> {Order[i] : i \in 1 .. strip.at - 1}
      [] strip.pc = "nulls" -> {Order[i] : i \in 1 .. strip.at}
      [] strip.pc = "drop" /\ atomic -> Tables
      [] OTHER -> {}

-----------------------------------------------------------------------------
(* The others.                                                             *)

\* The migrations before this one create the tables, in order.
CreateTable(t) ==
    /\ ~Running
    /\ t \notin present
    /\ \A i \in 1 .. Len(Order) : Order[i] = t =>
         \A j \in 1 .. i - 1 : Order[j] \in present
    /\ present' = present \cup {t}
    /\ company' = company \cup {t}
    /\ UNCHANGED <<unit, rows, strip, env, first>>

\* The decorator, in two steps: its ALTER TABLE waits for the strip's readers.
AddUnit(t) ==
    /\ t \in present \ (unit \cup Shared)
    /\ unit' = unit \cup {t}
    /\ UNCHANGED <<present, company, rows, strip, env, first>>

Backfill(t) ==
    /\ t \in unit \ strip.dropped
    /\ "company" \in rows[t]
    /\ rows' = [rows EXCEPT ![t] = (@ \ {"company"}) \cup {"both"}]
    /\ UNCHANGED <<present, company, unit, strip, env, first>>

\* A row as the version of the application that fits the schema inserts it.
\* Without a scope the unit is left empty.
Inserted(t) ==
    LET units == IF t \notin unit THEN {FALSE}
                 ELSE IF scoped THEN {TRUE} ELSE BOOLEAN
    IN  {IF t \in company THEN IF u THEN "both" ELSE "company"
                          ELSE IF u THEN "unit" ELSE "unkeyed" : u \in units}

Insert(t) ==
    /\ t \in present \ strip.dropped
    /\ ~(quiet /\ Running)
    /\ \E kind \in Inserted(t) :
         rows' = [rows EXCEPT ![t] = @ \cup {kind}]
    /\ UNCHANGED <<present, company, unit, strip, env, first>>

-----------------------------------------------------------------------------
(* The strip.                                                              *)

\* Mutant: a refused run is not run again.
Begin_once ==
    /\ strip.pc = "idle"
    /\ strip' = Resting("look")
    /\ first' = (first /\ present \subseteq unit)
    /\ UNCHANGED <<present, company, unit, rows, env>>

\* The file may be run at any time, and again after a success.
Begin ==
    /\ ~Running
    /\ strip' = Resting("look")
    /\ first' = (first /\ present \subseteq unit)
    /\ UNCHANGED <<present, company, unit, rows, env>>

\* A row that is not covered by org_unit_id.
OrgNulls(t) == rows[t] \cap {"company", "unkeyed", "lost"}

\* Mutants: the column is enough; an empty table needs it too.
Safe_column(has_org, org_nulls, total) == has_org \/ ~total
Safe_covered(has_org, org_nulls, total) == has_org /\ ~org_nulls

\* A table that may be stripped: covered, or empty.  Of the two counts it
\* matters whether they are zero.
Safe(has_org, org_nulls, total) == (has_org /\ ~org_nulls) \/ ~total

\* On to the next table; this one is named unless it is safe.
Decide(safe) ==
    strip' = [strip EXCEPT !.pc = "look", !.at = @ + 1,
                           !.has_org = FALSE, !.total = FALSE,
                           !.offenders = @ \/ ~safe]

\* A table of the chain may be missing; is there an org_unit_id?
Look ==
    /\ strip.pc = "look" /\ ~Ended
    /\ IF Current \in present
       THEN strip' = [strip EXCEPT !.pc = "count",
                                   !.has_org = Current \in unit]
       ELSE Decide(TRUE)
    /\ UNCHANGED <<present, company, unit, rows, env, first>>

\* Without the column every row is one that is not covered.
Count ==
    LET total == rows[Current] # {}
    IN  /\ strip.pc = "count"
        /\ IF strip.has_org
           THEN strip' = [strip EXCEPT !.pc = "nulls", !.total = total]
           ELSE Decide(Safe(FALSE, total, total))
        /\ UNCHANGED <<present, company, unit, rows, env, first>>

CountNulls ==
    /\ strip.pc = "nulls"
    /\ Decide(Safe(TRUE, OrgNulls(Current) # {}, strip.total))
    /\ UNCHANGED <<present, company, unit, rows, env, first>>

\* RAISE EXCEPTION
Refuse ==
    /\ strip.pc = "look" /\ Ended
    /\ strip.offenders
    /\ strip' = Resting("refused")
    /\ UNCHANGED <<present, company, unit, rows, env, first>>

Pass ==
    /\ strip.pc = "look" /\ Ended
    /\ ~strip.offenders
    /\ strip' = Resting("drop")
    /\ UNCHANGED <<present, company, unit, rows, env, first>>

\* Mutant: the rows keep what is in the column.
Stripped_kept(kind) == kind

\* A row without company_id.
Stripped(kind) ==
    CASE kind = "company" -> "lost"
      [] kind = "both" -> "unit"
      [] OTHER -> kind

\* The columns of ts are gone.
Erase(ts) ==
    /\ company' = company \ ts
    /\ rows' = [t \in Tables |->
                  IF t \in ts THEN {Stripped(kind) : kind \in rows[t]}
                  ELSE rows[t]]

\* DROP COLUMN IF EXISTS; there is no IF EXISTS for the table.
Drop ==
    /\ strip.pc = "drop" /\ ~Ended
    /\ Current \in present
    /\ IF atomic
       THEN /\ strip' = [strip EXCEPT !.at = @ + 1,
                                      !.dropped = @ \cup {Current}]
            /\ UNCHANGED <<company, rows>>
       ELSE /\ strip' = [strip EXCEPT !.at = @ + 1]
            /\ Erase({Current})
    /\ UNCHANGED <<present, unit, env, first>>

Commit ==
    /\ strip.pc = "drop" /\ Ended
    /\ strip' = Resting("done")
    /\ Erase(strip.dropped)
    /\ UNCHANGED <<present, unit, env, first>>

\* ALTER TABLE of a table that is missing.
Missing == strip.pc = "drop" /\ ~Ended /\ Current \notin present

FailMissing ==
    /\ Missing
    /\ strip' = Resting("idle")
    /\ UNCHANGED <<present, company, unit, rows, env, first>>

\* A statement fails for any other reason, or the connection is lost.
Fail ==
    /\ Running /\ ~Missing
    /\ strip' = Resting("idle")
    /\ UNCHANGED <<present, company, unit, rows, env, first>>

Statement == Look \/ Count \/ CountNulls \/ Refuse \/ Pass \/ Drop
             \/ FailMissing \/ Commit

Next ==
    \/ \E t \in Tables :
         \/ CreateTable(t) \/ AddUnit(t) \/ Backfill(t) \/ Insert(t)
    \/ Begin \/ Statement \/ Fail

\* The chain and the decorator are applied in the end, a run gets on, a run that
\* failed or was refused is run again, and failures that are nobody's doing come
\* to an end.
Fairness ==
    /\ SF_vars(\E t \in Tables : CreateTable(t))
    /\ SF_vars(\E t \in Tables : AddUnit(t))
    /\ SF_vars(\E t \in Tables : Backfill(t))
    /\ WF_vars(Begin)
    /\ WF_vars(Statement)
    /\ <>[][~Fail]_vars

Spec == Init /\ [][Next]_vars /\ Fairness

-----------------------------------------------------------------------------

\* Types; a company is in rows of tables that have the column, a unit too.
TypeOK ==
    /\ present \subseteq Tables
    /\ company \subseteq present
    /\ unit \subseteq present
    /\ rows \in [Tables -> SUBSET Kinds]
    /\ strip \in Strip
    /\ \A t \in Tables :
         /\ rows[t] # {} => t \in present
         /\ rows[t] \cap {"company", "both"} # {} => t \in company
         /\ rows[t] \cap {"both", "unit"} # {} => t \in unit
    /\ env \in BOOLEAN \X BOOLEAN \X BOOLEAN
    /\ first \in BOOLEAN

\* "Rather than dropping a column that still holds the only tenancy key": no
\* row loses its only key where the application is stopped for the strip, or
\* where the decorator was first everywhere and inserts are scoped, whatever
\* fails and however often the file is run.
KeysKept ==
    quiet \/ (scoped /\ first) => \A t \in Tables : "lost" \notin rows[t]

\* The table that is being checked is named an offender.
Named == strip'.offenders /\ ~strip.offenders /\ Running

\* The decorator got in between the look for its column and the count: all
\* rows are taken for rows that are not covered, whether they are or not.
Overtaken == ~strip.has_org /\ Current \in unit

\* "A table is safe to strip when either ...": one that still has its
\* company_id is refused only for the sake of rows that have nothing else, or
\* because the decorator overtook the check, after which a retry passes.
RefusesToProtect ==
    [][Named /\ Current \in company /\ ~Overtaken =>
         "company" \in rows[Current]]_vars

\* A run that failed or was refused does not keep the strip from its end: where
\* it is one transaction and inserts are scoped, all tables are stripped.
AllStripped ==
    atomic /\ scoped ~> (present = Tables /\ company = {})
=============================================================================
