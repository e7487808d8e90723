------------------------- MODULE GenericCrud_proofs -------------------------
(***************************************************************************)
(* What holds of GenericCrud for every set of clients, every set of values *)
(* they send and any number of writes.                                     *)
(***************************************************************************)
EXTENDS GenericCrud, TLAPS

\* The lists of an entity name the same columns, each as its namesake.
LEMMA ListsAgree ==
    ASSUME NEW k \in Kinds
    PROVE  /\ Of(k, CreateExpenseDto, CreateExpenseCategoryDto,
                 CreateExpenseTaxLineDto) = Entity(k)
           /\ UpdateDto(k) = Entity(k)
           /\ Of(k, Expense_from_create_dto, ExpenseCategory_from_create_dto,
                 ExpenseTaxLine_from_create_dto) = Namesakes(Columns(Entity(k)))
           /\ Of(k, Expense_apply_update, ExpenseCategory_apply_update,
                 ExpenseTaxLine_apply_update) = Namesakes(Columns(Entity(k)))
           /\ Of(k, ExpenseResponseDto, ExpenseCategoryResponseDto,
                 ExpenseTaxLineResponseDto) = Namesakes(Columns(Entity(k)))
           /\ Of(k, Expense_apply_patch, ExpenseCategory_apply_patch,
                 ExpenseTaxLine_apply_patch) = Namesakes(Columns(Entity(k)))
           /\ Of(k, ExpenseBuilder, ExpenseCategoryBuilder,
                 ExpenseTaxLineBuilder) = Columns(Entity(k))
           /\ Of(k, Expense_new, ExpenseCategory_new,
                 ExpenseTaxLine_new) = Needed(Entity(k))
           /\ Of(k, Expense_with, ExpenseCategory_with,
                 ExpenseTaxLine_with) = Entity(k).option
BY DEF Kinds, Of, Entity, UpdateDto, CreateExpenseDto,
       CreateExpenseCategoryDto, CreateExpenseTaxLineDto, UpdateExpenseDto,
       UpdateExpenseCategoryDto, UpdateExpenseTaxLineDto,
       Expense_from_create_dto, ExpenseCategory_from_create_dto,
       ExpenseTaxLine_from_create_dto, Expense_apply_update,
       ExpenseCategory_apply_update, ExpenseTaxLine_apply_update,
       ExpenseResponseDto, ExpenseCategoryResponseDto,
       ExpenseTaxLineResponseDto, Expense_apply_patch,
       ExpenseCategory_apply_patch, ExpenseTaxLine_apply_patch,
       ExpenseBuilder, ExpenseCategoryBuilder, ExpenseTaxLineBuilder,
       Expense_new, ExpenseCategory_new, ExpenseTaxLine_new,
       Expense_with, ExpenseCategory_with, ExpenseTaxLine_with

\* Every rule is about a column, and every declared CHECK is a rule.
LEMMA RulesAreAboutColumns ==
    ASSUME NEW k \in Kinds
    PROVE  \A rule \in RowRules(k) : rule[2] \in Columns(Entity(k))
BY DEF Kinds, Of, Entity, RowRules, ExpenseRowRules, ExpenseCategoryRowRules,
       ExpenseTaxLineRowRules, Columns, Expense, ExpenseCategory,
       ExpenseTaxLine

\* The blocks of the migration declare rules of the write guard.
LEMMA ChecksAreRules ==
    ASSUME NEW k \in Kinds, NEW i \in 1..Len(Checks(k))
    PROVE  Checks(k)[i] \in RowRules(k)
BY DEF Kinds, Of, Checks, RowRules, ExpenseRowRules, ExpenseCategoryRowRules,
       ExpenseTaxLineRowRules, ExpenseChecks, ExpenseCategoryChecks,
       ExpenseTaxLineChecks

\* The number of blocks is a number.
LEMMA ChecksLength == \A k : Len(Checks(k)) \in Nat
BY DEF Of, Checks, ExpenseChecks, ExpenseCategoryChecks, ExpenseTaxLineChecks

\* What build insists on, and the currency, are all that is needed.
LEMMA BuildInsists ==
    ASSUME NEW k \in Kinds, NEW c \in Needed(Entity(k))
    PROVE  \/ c \in Of(k, ExpenseBuilder_build, ExpenseCategoryBuilder_build,
                       ExpenseTaxLineBuilder_build)
           \/ c = "currency" /\ c \in Entity(k).text
<1>1. CASE k = "expense"
      BY <1>1 DEF Of, Entity, ExpenseBuilder_build, Expense
<1>2. CASE k = "expense_category"
      BY <1>2 DEF Of, Entity, ExpenseCategoryBuilder_build
<1>3. CASE k = "expense_tax_line"
      BY <1>3 DEF Of, Entity, ExpenseTaxLineBuilder_build
<1>4. QED  BY <1>1, <1>2, <1>3 DEF Kinds

-----------------------------------------------------------------------------
(* Whatever makes or changes a row leaves one of the entity.               *)

\* A body that parses as a DTO with the columns of an entity makes a row.
LEMMA ParsedIsRow ==
    ASSUME NEW k \in Kinds, NEW body, Parses(Entity(k), body)
    PROVE  Parsed(Entity(k), body) \in RowsOf(Entity(k))
<1> DEFINE p == Parsed(Entity(k), body)
<1>1. ASSUME NEW c \in Columns(Entity(k))
      PROVE  p[c] \in Domain(Entity(k), c)
  <2>1. p[c] = IF c \in DOMAIN body THEN body[c] ELSE Null
        BY <1>1 DEF Parsed
  <2>2. CASE c \in DOMAIN body
        BY <1>1, <2>1, <2>2 DEF Parses
  <2>3. CASE c \notin DOMAIN body
    <3>1. c \in Entity(k).option
          BY <1>1, <2>3 DEF Parses, Needed
    <3>2. QED  BY <2>1, <2>3, <3>1 DEF Domain, Values
  <2>4. QED  BY <2>2, <2>3
<1>2. p \in [Columns(Entity(k)) -> Values]
      BY <1>1 DEF Parsed, Domain
<1>3. QED  BY <1>1, <1>2 DEF RowsOf

\* From<CreateDto> leaves nothing of the parsed body out.
LEMMA FromCreateIsRow ==
    ASSUME NEW k \in Kinds, NEW body,
           Parses(Of(k, CreateExpenseDto, CreateExpenseCategoryDto,
                     CreateExpenseTaxLineDto), body)
    PROVE  FromCreate(k, body) = Parsed(Entity(k), body)
<1>1. FromCreate(k, body) =
        [c \in Columns(Entity(k)) |-> Parsed(Entity(k), body)[c]]
      BY ListsAgree DEF FromCreate, Namesakes
<1>2. QED  BY <1>1 DEF Parsed

\* apply_update leaves nothing of the row it is applied to.
LEMMA ApplyUpdateIsRow ==
    ASSUME NEW k \in Kinds, NEW body, NEW r \in RowsOf(Entity(k))
    PROVE  ApplyUpdate(k, r, body) = Parsed(Entity(k), body)
<1>1. DOMAIN r = Columns(Entity(k))
      BY DEF RowsOf
<1>2. ApplyUpdate(k, r, body) =
        [c \in Columns(Entity(k)) |-> Parsed(Entity(k), body)[c]]
      BY <1>1, ListsAgree DEF ApplyUpdate, Namesakes
<1>3. QED  BY <1>2 DEF Parsed

\* apply_patch makes a row of a row, whatever the fields.
LEMMA ApplyPatchIsRow ==
    ASSUME NEW k \in Kinds, NEW fields, NEW r \in RowsOf(Entity(k))
    PROVE  ApplyPatch(k, r, fields) \in RowsOf(Entity(k))
<1> DEFINE p == ApplyPatch(k, r, fields)
<1>1. /\ DOMAIN r = Columns(Entity(k))
      /\ \A c \in Columns(Entity(k)) : r[c] \in Domain(Entity(k), c)
      BY DEF RowsOf
<1>2. ASSUME NEW c \in Columns(Entity(k))
      PROVE  p[c] \in Domain(Entity(k), c)
      BY <1>1 DEF ApplyPatch
<1>3. p \in [Columns(Entity(k)) -> Values]
      BY <1>1, <1>2 DEF ApplyPatch, Domain
<1>4. QED  BY <1>2, <1>3 DEF RowsOf

\* build makes a row of typed values it is content with.
LEMMA BuildIsRow ==
    ASSUME NEW k \in Kinds, NEW given, Buildable(k, given),
           \A c \in DOMAIN given : given[c] \in Domain(Entity(k), c)
    PROVE  Build(k, given) \in RowsOf(Entity(k))
<1> DEFINE b == Build(k, given)
<1>1. ASSUME NEW c \in Columns(Entity(k))
      PROVE  b[c] \in Domain(Entity(k), c)
  <2>1. b[c] = IF c \in DOMAIN given THEN given[c]
               ELSE IF c = "currency" THEN "IDR" ELSE Null
        BY <1>1, ListsAgree DEF Build
  <2>2. CASE c \in DOMAIN given
        BY <2>1, <2>2
  <2>3. CASE c \notin DOMAIN given /\ c = "currency"
    <3>1. c \in Entity(k).text
          BY <1>1, <2>3 DEF Kinds, Of, Entity, Columns, Expense,
             ExpenseCategory, ExpenseTaxLine
    <3>2. QED  BY <2>1, <2>3, <3>1 DEF Domain, Values, Texts
  <2>4. CASE c \notin DOMAIN given /\ c # "currency"
    <3>1. c \in Entity(k).option
          BY <1>1, <2>4, BuildInsists DEF Needed, Buildable
    <3>2. QED  BY <2>1, <2>4, <3>1 DEF Domain, Values
  <2>5. QED  BY <2>2, <2>3, <2>4
<1>2. b \in [Columns(Entity(k)) -> Values]
      BY <1>1 DEF Build, Domain
<1>3. QED  BY <1>1, <1>2 DEF RowsOf

\* new and with_* make a row of typed values, all parameters given.
LEMMA NewWithIsRow ==
    ASSUME NEW k \in Kinds, NEW given, Needed(Entity(k)) \subseteq DOMAIN given,
           \A c \in DOMAIN given : given[c] \in Domain(Entity(k), c)
    PROVE  NewWith(k, given) \in RowsOf(Entity(k))
<1> DEFINE n == NewWith(k, given)
<1>1. ASSUME NEW c \in Columns(Entity(k))
      PROVE  n[c] \in Domain(Entity(k), c)
  <2>1. n[c] = IF c \in Needed(Entity(k))
                    \cup (Entity(k).option \cap DOMAIN given)
               THEN given[c] ELSE Null
        BY <1>1, ListsAgree DEF NewWith
  <2>2. CASE c \in Needed(Entity(k)) \cup (Entity(k).option \cap DOMAIN given)
        BY <2>1, <2>2
  <2>3. CASE c \notin Needed(Entity(k)) \cup (Entity(k).option \cap DOMAIN given)
        BY <1>1, <2>1, <2>3 DEF Needed, Domain, Values
  <2>4. QED  BY <2>2, <2>3
<1>2. n \in [Columns(Entity(k)) -> Values]
      BY <1>1 DEF NewWith, Domain
<1>3. QED  BY <1>1, <1>2 DEF RowsOf

-----------------------------------------------------------------------------
(***************************************************************************)
(* The inductive invariant: what BreaksAreBypassed says of the stored row  *)
(* holds of the rows that PUTs in flight have loaded, which is why a PUT   *)
(* that is applied to an overwritten row brings back nothing new; and a    *)
(* declared CHECK holds of the stored row.                                 *)
(***************************************************************************)
BypassedIn(r) == \A rule \in RowRules(kind) :
                  Breaks(rule, r) => <<rule, r[rule[2]]>> \in bypassed

PutsAreBypassed == \A k \in Clients : put[k] # Idle => BypassedIn(put[k].before)

ChecksHold == row # None => \A rule \in checks : ~Breaks(rule, row)

IInv == /\ TypeOK
        /\ BreaksAreBypassed
        /\ PutsAreBypassed
        /\ ChecksHold

\* A write stores its row, which breaks no CHECK.
LEMMA WriteStores ==
    ASSUME NEW r, Write(r)
    PROVE  /\ row' = r /\ writes < MaxWrites /\ writes' = writes + 1
           /\ \A rule \in checks : ~Breaks(rule, r)
BY DEF Write, Storable

\* A row that was saved by the host records what it breaks.
LEMMA BrokenIsBypassed ==
    ASSUME NEW r, NEW k \in Kinds, kind = k, NEW rule \in RowRules(kind),
           Breaks(rule, r)
    PROVE  <<rule, r[rule[2]]>> \in Broken(r)
BY DEF Broken

\* What a value that breaks a rule of the row can be.
LEMMA BrokenIsTyped ==
    ASSUME NEW k \in Kinds, kind = k, NEW r \in RowsOf(Entity(kind))
    PROVE  Broken(r) \subseteq RowRules(kind) \X Values
<1>1. \A rule \in RowRules(kind) : r[rule[2]] \in Values
      BY RulesAreAboutColumns DEF RowsOf
<1>2. QED  BY <1>1 DEF Broken

\* The invariant holds at the start.
LEMMA InitInv == Init => IInv
<1> SUFFICES ASSUME Init PROVE IInv
    OBVIOUS
<1>1. TypeOK
  <2>1. Len(Checks(kind)) \in Nat
        BY ChecksLength
  <2>2. DOMAIN put = Clients /\ \A k \in Clients : put[k] = Idle
        BY DEF Init
  <2>3. blocks \in 0..Len(Checks(kind)) /\ writes \in 0..MaxWrites
        BY <2>1, MaxWritesOK DEF Init
  <2>4. QED  BY <2>2, <2>3 DEF Init, TypeOK
<1>2. QED  BY <1>1 DEF Init, IInv, BreaksAreBypassed, PutsAreBypassed, ChecksHold

\* A row that is written past the guard keeps the invariant: what it breaks
\* is on record.
LEMMA WritePastInv ==
    ASSUME IInv, NEW r \in RowsOf(Entity(kind)), WritePast(r)
    PROVE  IInv'
<1>1. /\ kind \in Kinds /\ kind' = kind
      /\ put' = put /\ blocks' = blocks /\ checks' = checks
      /\ bypassed' = bypassed \cup Broken(r)
      BY DEF IInv, TypeOK, WritePast
<1>2. row' = r /\ writes < MaxWrites /\ writes' = writes + 1
      /\ \A rule \in checks : ~Breaks(rule, r)
      BY WriteStores DEF WritePast
<1>3. TypeOK'
      BY <1>1, <1>2, BrokenIsTyped, MaxWritesOK DEF IInv, TypeOK
<1>4. BreaksAreBypassed'
      BY <1>1, <1>2, BrokenIsBypassed DEF BreaksAreBypassed
<1>5. PutsAreBypassed'
      BY <1>1 DEF IInv, PutsAreBypassed, BypassedIn
<1>6. ChecksHold'
      BY <1>1, <1>2 DEF ChecksHold
<1>7. QED  BY <1>3, <1>4, <1>5, <1>6 DEF IInv

\* The writers that pass the guard by keep the invariant.
LEMMA PastInv ==
    IInv /\ (HostSave \/ HostPatch \/ VerbInsert \/ VerbUpdate) => IInv'
<1> SUFFICES ASSUME IInv, HostSave \/ HostPatch \/ VerbInsert \/ VerbUpdate
             PROVE  \E r \in RowsOf(Entity(kind)) : WritePast(r)
    BY WritePastInv
<1>1. kind \in Kinds /\ (row # None => row \in RowsOf(Entity(kind)))
      BY DEF IInv, TypeOK
<1>2. CASE HostSave
      BY <1>1, <1>2, BuildIsRow, NewWithIsRow DEF HostSave
<1>3. CASE HostPatch
      BY <1>1, <1>3, ApplyPatchIsRow DEF HostPatch
<1>4. CASE VerbInsert
      BY <1>4 DEF VerbInsert
<1>5. CASE VerbUpdate
      BY <1>5 DEF VerbUpdate
<1>6. QED  BY <1>2, <1>3, <1>4, <1>5

\* The blocks of the migration keep the invariant.
LEMMA MigrateInv == IInv /\ DeclareCheck => IInv'
<1> SUFFICES ASSUME IInv, DeclareCheck PROVE IInv'
    OBVIOUS
<1>1. UNCHANGED <<kind, row, put, writes, bypassed>>
      BY DEF DeclareCheck
<1>2. Len(Checks(kind)) \in Nat
      BY ChecksLength
<1>3. TypeOK'
      BY <1>1, <1>2 DEF DeclareCheck, IInv, TypeOK
<1>4. ChecksHold'
      BY <1>1 DEF DeclareCheck, IInv, ChecksHold
<1>5. BreaksAreBypassed' /\ PutsAreBypassed'
      BY <1>1 DEF IInv, BreaksAreBypassed, PutsAreBypassed, BypassedIn
<1>6. QED  BY <1>3, <1>4, <1>5 DEF IInv

\* The guard: a row it lets through breaks no rule but where its column is
\* as it was in the row before.
LEMMA RefusedCovers ==
    ASSUME NEW before, NEW after, Refused(before, after) = {},
           NEW rule \in RowRules(kind), Breaks(rule, after)
    PROVE  before # None /\ before[rule[2]] = after[rule[2]]
BY DEF Refused

\* A POST keeps the invariant: the guard looked at every rule.
LEMMA PostInv == IInv /\ Post => IInv'
<1> SUFFICES ASSUME IInv, Post PROVE IInv'
    OBVIOUS
<1>1. /\ kind \in Kinds
      /\ UNCHANGED <<kind, blocks, checks, put, bypassed>>
      BY DEF IInv, TypeOK, Post
<1>2. PICK body :
        /\ Parses(Entity(kind), body)
        /\ Refused(None, FromCreate(kind, body)) = {}
        /\ Write(FromCreate(kind, body))
      BY <1>1, ListsAgree DEF Post
<1> DEFINE r == Parsed(Entity(kind), body)
<1>3. /\ FromCreate(kind, body) = r /\ r \in RowsOf(Entity(kind))
      BY <1>1, <1>2, ListsAgree, FromCreateIsRow, ParsedIsRow
<1>4. row' = r /\ writes < MaxWrites /\ writes' = writes + 1
      /\ \A rule \in checks : ~Breaks(rule, r)
      BY <1>2, <1>3, WriteStores
<1>5. TypeOK'
      BY <1>1, <1>3, <1>4, MaxWritesOK DEF IInv, TypeOK
<1>6. BreaksAreBypassed'
      BY <1>1, <1>2, <1>3, <1>4, RefusedCovers DEF BreaksAreBypassed
<1>7. PutsAreBypassed' /\ ChecksHold'
      BY <1>1, <1>4 DEF IInv, PutsAreBypassed, BypassedIn, ChecksHold
<1>8. QED  BY <1>5, <1>6, <1>7 DEF IInv

\* A PUT that loads the row keeps the invariant: what it loaded is bypassed.
LEMMA PutLoadInv == ASSUME IInv, NEW k \in Clients, PutLoad(k) PROVE IInv'
<1>1. UNCHANGED <<kind, row, blocks, checks, writes, bypassed>>
      BY DEF PutLoad
<1>2. PICK body : /\ Parses(UpdateDto(kind), body)
                  /\ put' = [put EXCEPT ![k] = [before |-> row, body |-> body]]
      BY DEF PutLoad
<1>3. kind \in Kinds /\ row \in RowsOf(Entity(kind)) /\ row # None
      BY DEF IInv, TypeOK, PutLoad
<1>4. TypeOK'
      BY <1>1, <1>2, <1>3 DEF IInv, TypeOK
<1>5. PutsAreBypassed'
      BY <1>1, <1>2, <1>3 DEF IInv, TypeOK, PutsAreBypassed, BypassedIn,
         BreaksAreBypassed
<1>6. QED  BY <1>1, <1>4, <1>5 DEF IInv, BreaksAreBypassed, ChecksHold

\* A PUT that writes keeps the invariant: what it changed was looked at,
\* what it did not change was bypassed when it was loaded.
LEMMA PutWriteInv == ASSUME IInv, NEW k \in Clients, PutWrite(k) PROVE IInv'
<1> DEFINE before == put[k].before
           r == Parsed(Entity(kind), put[k].body)
<1>1. /\ UNCHANGED <<kind, blocks, checks, bypassed>>
      /\ put' = [put EXCEPT ![k] = Idle]
      /\ Refused(before, After(k)) = {} /\ Write(After(k))
      BY DEF PutWrite
<1>2. /\ kind \in Kinds /\ before \in RowsOf(Entity(kind))
      /\ Parses(Entity(kind), put[k].body) /\ BypassedIn(before)
      BY ListsAgree DEF IInv, TypeOK, PutWrite, PutsAreBypassed
<1>3. After(k) = r /\ r \in RowsOf(Entity(kind))
      BY <1>2, ApplyUpdateIsRow, ParsedIsRow DEF After
<1>4. row' = r /\ writes < MaxWrites /\ writes' = writes + 1
      /\ \A rule \in checks : ~Breaks(rule, r)
      BY <1>1, <1>3, WriteStores
<1>5. TypeOK'
      BY <1>1, <1>3, <1>4, MaxWritesOK DEF IInv, TypeOK
<1>6. BreaksAreBypassed'
  <2>1. ASSUME NEW rule \in RowRules(kind), Breaks(rule, r)
        PROVE  <<rule, r[rule[2]]>> \in bypassed
    <3>1. before[rule[2]] = r[rule[2]]
          BY <1>1, <1>3, <2>1, RefusedCovers
    <3>2. Breaks(rule, before)
          BY <2>1, <3>1 DEF Breaks
    <3>3. QED  BY <1>2, <3>1, <3>2 DEF BypassedIn
  <2>2. QED  BY <1>1, <1>4, <2>1 DEF BreaksAreBypassed
<1>7. PutsAreBypassed' /\ ChecksHold'
      BY <1>1, <1>4 DEF IInv, TypeOK, PutsAreBypassed, BypassedIn, ChecksHold
<1>8. QED  BY <1>5, <1>6, <1>7 DEF IInv

\* A PUT that ends without a write and a purge keep the invariant.
LEMMA EndsInv ==
    ASSUME IInv, Purge \/ \E k \in Clients : PutEnd(k) PROVE IInv'
<1>1. CASE Purge
      BY <1>1 DEF Purge, IInv, TypeOK, BreaksAreBypassed, PutsAreBypassed,
         ChecksHold
<1>2. ASSUME NEW k \in Clients, PutEnd(k) PROVE IInv'
      BY <1>2 DEF PutEnd, IInv, TypeOK, BreaksAreBypassed, PutsAreBypassed,
         BypassedIn, ChecksHold
<1>3. QED  BY <1>1, <1>2

\* Every step keeps the invariant.
LEMMA NextInv == IInv /\ [Next]_vars => IInv'
<1> SUFFICES ASSUME IInv, [Next]_vars PROVE IInv'
    OBVIOUS
<1>1. CASE HostSave \/ HostPatch \/ VerbInsert \/ VerbUpdate
      BY <1>1, PastInv
<1>2. CASE DeclareCheck
      BY <1>2, MigrateInv
<1>3. CASE Post
      BY <1>3, PostInv
<1>4. CASE Purge \/ \E k \in Clients : PutEnd(k)
      BY <1>4, EndsInv
<1>5. CASE \E k \in Clients : PutLoad(k) \/ PutWrite(k)
      BY <1>5, PutLoadInv, PutWriteInv
<1>6. CASE UNCHANGED vars
      BY <1>6 DEF vars, IInv, TypeOK, BreaksAreBypassed, PutsAreBypassed,
         BypassedIn, ChecksHold
<1>7. QED  BY <1>1, <1>2, <1>3, <1>4, <1>5, <1>6 DEF Next

\* The inductive invariant: rows are of their entity's types, no broken rule
\* is the generic service's own, in the table or in flight, and the declared
\* CHECKs hold.
THEOREM Invariant == Spec => []IInv
<1>1. QED  BY InitInv, NextInv, PTL DEF Spec

\* Stored rows and rows in flight have their entity's columns and types, for
\* all three entities and through every conversion.
THEOREM TypeCorrect == Spec => []TypeOK
<1>1. IInv => TypeOK
      BY DEF IInv
<1>2. QED  BY <1>1, Invariant, PTL

\* Every stored value that breaks a rule was put in that column of the row by
\* a host or a verb, which pass the guard by: no POST or PUT through the
\* generic service brings a broken rule of its own into the table, whatever
\* it raced with.
THEOREM NoNewBreaks == Spec => []BreaksAreBypassed
<1>1. IInv => BreaksAreBypassed
      BY DEF IInv
<1>2. QED  BY <1>1, Invariant, PTL

\* A PUT that the guard lets through fails on no declared CHECK, unless the
\* row it was applied to was overwritten.
THEOREM NoSurprise == Spec => []GuardCoversChecks
<1>1. ASSUME IInv PROVE GuardCoversChecks
  <2>1. SUFFICES ASSUME NEW k \in Clients, put[k] # Idle,
                        put[k].before = row, Refused(row, After(k)) = {},
                        NEW rule \in checks, Breaks(rule, After(k))
                 PROVE  FALSE
        BY DEF GuardCoversChecks
  <2>2. rule \in RowRules(kind)
        BY <1>1, ChecksAreRules, ChecksLength DEF IInv, TypeOK
  <2>3. row # None /\ row[rule[2]] = After(k)[rule[2]]
        BY <2>1, <2>2, RefusedCovers
  <2>4. Breaks(rule, row)
        BY <2>1, <2>3 DEF Breaks
  <2>5. QED  BY <1>1, <2>1, <2>3, <2>4 DEF IInv, ChecksHold
<1>2. QED  BY <1>1, Invariant, PTL
=============================================================================
