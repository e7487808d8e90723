----------------------------- MODULE GenericCrud -----------------------------
(***************************************************************************)
(* The generic service of an entity, whichever of the three it is: POST    *)
(* and PUT of whole rows, guarded by the row rules the schema declares.    *)
(* A PUT loads the row, applies the body to what it loaded, has the write  *)
(* guard look at both rows and writes the whole new one: between the load  *)
(* and the write anything may have happened to the stored row.             *)
(*                                                                         *)
(* Not every writer of the table passes the guard.  A host saves entities  *)
(* it made with their own builder, new and apply_patch, as releases before *)
(* the guard did; the expense verbs write by SQL of their own.  The guard  *)
(* looks only at columns that a PUT changes, and the migration that makes  *)
(* the rules CHECKs leaves out those that a stored row breaks.             *)
(*                                                                         *)
(* GenericCrudService and its handlers are another crate's, modelled by    *)
(* the types src/ gives them.  One row is followed; deletes and restores   *)
(* do not touch its columns, and a purge ends it.                          *)
(***************************************************************************)
EXTENDS EntityShape, Naturals, Sequences

CONSTANTS
    Clients,    \* who has a PUT in flight
    Varied,     \* the columns in which what clients send is not plain
    Sent,       \* the values they send in them, Null included
    MaxWrites   \* bound: the rows written in a behaviour

ASSUME SentOK == Sent \subseteq Values \cup {"junk"}
ASSUME MaxWritesOK == MaxWrites \in Nat

VARIABLES
    kind,      \* the entity this behaviour is about
    row,       \* the stored row, None if there is none
    blocks,    \* how many blocks of the migration have run
    checks,    \* the rules that are CHECKs now
    put,       \* for each client the PUT in flight: the row it loaded, its body
    writes,    \* how many rows were written
    bypassed   \* history: what broke a rule in this row, put there past the guard

vars == <<kind, row, blocks, checks, put, writes, bypassed>>

None == [none |-> TRUE]
Idle == [before |-> None, body |-> None]

TypeOK ==
    /\ kind \in Kinds
    /\ row \in RowsOf(Entity(kind)) \cup {None}
    /\ blocks \in 0..Len(Checks(kind))
    /\ checks \subseteq {Checks(kind)[i] : i \in 1..blocks}
    /\ DOMAIN put = Clients
    /\ \A k \in Clients : \/ put[k] = Idle
                          \/ /\ put[k].before \in RowsOf(Entity(kind))
                             /\ Parses(UpdateDto(kind), put[k].body)
    /\ writes \in 0..MaxWrites
    /\ bypassed \subseteq RowRules(kind) \X Values

Init ==
    /\ kind \in Kinds
    /\ row = None
    /\ blocks = 0
    /\ checks = {}
    /\ put = [k \in Clients |-> Idle]
    /\ writes = 0
    /\ bypassed = {}

-----------------------------------------------------------------------------

\* What is like a body but for one key: another value, or the key left out.
Variants(body) ==
    {[c \in DOMAIN body \cup {d} |-> IF c = d THEN v ELSE body[c]] :
        d \in Varied \cap Columns(Entity(kind)), v \in Sent}
    \cup {[c \in DOMAIN body \ {d} |-> body[c]] :
             d \in Varied \cap Columns(Entity(kind))}

Plain == [c \in Needed(Entity(kind)) |-> "a"]

\* The CHECKs on amounts are older than the rules.
NonNegative == {"amount_total", "tax_amount", "cap_per_claim", "cap_per_month"}

Storable(r) ==
    /\ \A c \in DOMAIN r \cap NonNegative : r[c] # "negative"
    /\ \A rule \in checks : ~Breaks(rule, r)

Write(r) ==
    /\ writes < MaxWrites
    /\ Storable(r)
    /\ row' = r
    /\ writes' = writes + 1

Broken(r) ==
    {<<rule, r[rule[2]]>> : rule \in {b \in RowRules(kind) : Breaks(b, r)}}

\* The links that only later steps of a claim set, and the fields of a patch.
Stamps == {"approval_request_id", "journal_id", "accounting_post_id",
           "reimbursement_id"}
Patchable == {"category_id", "expense_date", "description", "amount_total",
              "currency", "payment_mode", "reference"}

\* A row that is written past the guard.
WritePast(r) ==
    /\ Write(r)
    /\ bypassed' = bypassed \cup Broken(r)
    /\ UNCHANGED <<kind, blocks, checks, put>>

\* A host saves an entity it made, past the service.
HostSave ==
    /\ row = None
    /\ \E given \in Variants(Plain) :
         /\ \A c \in DOMAIN given : given[c] \in Domain(Entity(kind), c)
         /\ \/ /\ Buildable(kind, given)
               /\ WritePast(Build(kind, given))
            \/ /\ Needed(Entity(kind)) \subseteq DOMAIN given
               /\ WritePast(NewWith(kind, given))

HostPatch ==
    /\ row # None
    /\ \E fields \in Variants([c \in {} |-> Null]) :
         WritePast(ApplyPatch(kind, row, fields))

\* What the verbs ask of a request themselves: validate_amount,
\* validate_currency and the two bases.  Their texts are not looked at.
Valid(r) ==
    /\ \A c \in DOMAIN r \cap {"amount_total", "tax_amount"} : r[c] # "negative"
    /\ \A c \in DOMAIN r \cap {"currency", "basis"} : r[c] \notin {"blank", "long"}

\* create_expense and the INSERT of set_tax_lines: the columns that are not
\* the request's are left NULL, or 'draft', the "a" of the two states.
VerbInsert ==
    /\ row = None
    /\ kind \in {"expense", "expense_tax_line"}
    /\ \E given \in Variants(Plain) :
         LET r == [c \in Columns(Entity(kind)) |->
                     IF c \in {"approval_state", "state"} THEN "a"
                     ELSE IF c \in DOMAIN given \ Stamps THEN given[c]
                     ELSE Null]
         IN  /\ r \in RowsOf(Entity(kind))
             /\ Valid(r)
             /\ WritePast(r)

\* update_expense: COALESCE takes over what the request has, in a draft.
VerbUpdate ==
    /\ row # None
    /\ kind = "expense"
    /\ row["approval_state"] = "a" /\ row["state"] = "a"
    /\ \E given \in Variants([c \in {} |-> Null]) :
         LET r == [c \in DOMAIN row |->
                     IF c \in DOMAIN given \cap Patchable THEN given[c]
                     ELSE row[c]]
         IN  /\ r \in RowsOf(Entity(kind))
             /\ Valid([c \in DOMAIN given \cap Patchable |-> given[c]])
             /\ WritePast(r)

\* One block of the migration: the rule becomes a CHECK unless a stored row
\* breaks it, and is not tried again.
DeclareCheck ==
    /\ blocks < Len(Checks(kind))
    /\ blocks' = blocks + 1
    /\ LET rule == Checks(kind)[blocks']
       IN  checks' = IF row # None /\ Breaks(rule, row) THEN checks
                     ELSE checks \cup {rule}
    /\ UNCHANGED <<kind, row, put, writes, bypassed>>

-----------------------------------------------------------------------------

\* Mutant: a create is checked like an update of an empty row.
Refused_changed(before, after) ==
    {rule \in RowRules(kind) :
        /\ after[rule[2]] # IF before = None THEN Null ELSE before[rule[2]]
        /\ before # None
        /\ Breaks(rule, after)}

\* Mutant: an update is checked in the columns that were NULL.
Refused_unset(before, after) ==
    {rule \in RowRules(kind) :
        /\ before = None \/ before[rule[2]] = Null
        /\ Breaks(rule, after)}

\* WriteGuard::check: a create is held to every rule, an update to those of
\* the columns in which it differs from the row it was applied to.
Refused(before, after) ==
    {rule \in RowRules(kind) :
        /\ before = None \/ before[rule[2]] # after[rule[2]]
        /\ Breaks(rule, after)}

Post ==
    /\ row = None
    /\ \E body \in Variants(Plain) :
         /\ Parses(Of(kind, CreateExpenseDto, CreateExpenseCategoryDto,
                      CreateExpenseTaxLineDto), body)
         /\ Refused(None, FromCreate(kind, body)) = {}
         /\ Write(FromCreate(kind, body))
    /\ UNCHANGED <<kind, blocks, checks, put, bypassed>>

\* A client puts back the row it was shown, but for one key.
PutLoad(k) ==
    /\ writes < MaxWrites
    /\ put[k] = Idle
    /\ row # None
    /\ \E body \in Variants(Response(kind, row)) :
         /\ Parses(UpdateDto(kind), body)
         /\ put' = [put EXCEPT ![k] = [before |-> row, body |-> body]]
    /\ UNCHANGED <<kind, row, blocks, checks, writes, bypassed>>

After(k) == ApplyUpdate(kind, put[k].before, put[k].body)

PutWrite(k) ==
    /\ put[k] # Idle
    /\ Refused(put[k].before, After(k)) = {}
    /\ Write(After(k))
    /\ put' = [put EXCEPT ![k] = Idle]
    /\ UNCHANGED <<kind, blocks, checks, bypassed>>

\* 422 by the guard, 500 by a CHECK; or the client or the process is gone.
PutEnd(k) ==
    /\ put[k] # Idle
    /\ put' = [put EXCEPT ![k] = Idle]
    /\ UNCHANGED <<kind, row, blocks, checks, writes, bypassed>>

\* The trash is emptied: a PUT in flight finds no row of its id any more.
Purge ==
    /\ row # None
    /\ row' = None
    /\ put' = [k \in Clients |-> Idle]
    /\ bypassed' = {}
    /\ UNCHANGED <<kind, blocks, checks, writes>>

Next ==
    \/ HostSave \/ HostPatch \/ VerbInsert \/ VerbUpdate
    \/ DeclareCheck \/ Post \/ Purge
    \/ \E k \in Clients : PutLoad(k) \/ PutWrite(k) \/ PutEnd(k)

Spec == Init /\ [][Next]_vars

-----------------------------------------------------------------------------

\* A stored value that breaks a row rule is one that a host or a verb had put
\* in that column of the row, past the guard: although the guard looks only
\* at what an update changes, and only against the row it had loaded, no POST
\* or PUT brings a broken rule of its own into the table.  A stale PUT may
\* bring one back that was mended meanwhile.
BreaksAreBypassed ==
    row # None =>
        \A rule \in RowRules(kind) :
            Breaks(rule, row) => <<rule, row[rule[2]]>> \in bypassed

\* The guard is as strict as the declared CHECKs: an update that it lets
\* through fails on none of them (a 500 where a 422 was due), unless the row
\* it was checked against has been overwritten.  The unchanged columns are
\* those of a row the CHECKs were declared over.
GuardCoversChecks ==
    \A k \in Clients :
        /\ put[k] # Idle
        /\ put[k].before = row
        /\ Refused(row, After(k)) = {}
        => \A rule \in checks : ~Breaks(rule, After(k))
=============================================================================
