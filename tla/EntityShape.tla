----------------------------- MODULE EntityShape -----------------------------
(***************************************************************************)
(* The three generated entities: a claim (Expense), a category and a tax   *)
(* line.  Each is written down many times over in the code: the struct,    *)
(* its builder, a DTO per request, a conversion per direction, a patch     *)
(* arm per column, the row rules, the declared CHECKs.  Here each of these *)
(* lists is a definition of its own, and what the code does with a list is *)
(* an operator over it.                                                    *)
(*                                                                         *)
(* A row is a function from the entity's columns to values; the id and the *)
(* metadata, which no request may set, are left out.  A request body is a  *)
(* function from the keys it has to values.  A key stands for both of its  *)
(* spellings (rename_all = "camelCase", alias = the column's name); keys   *)
(* that are no column are ignored by every reader and left out.            *)
(***************************************************************************)
CONSTANT Null   \* SQL NULL, JSON null, None

ASSUME NullIsNoValue ==
    Null \notin {"a", "b", "IDR", "blank", "long", "negative", "junk"}

\* Of a text the rules look at whether it is blank and whether it is longer
\* than its maximum; of a number, the CHECKs, at its sign.  Ids, dates and
\* enums are opaque.  "junk" is JSON that parses as no column's type.
Texts == {"a", "b", "IDR", "blank", "long"}
Numbers == {"a", "b", "negative"}
Opaques == {"a", "b"}
Values == Texts \cup Numbers \cup Opaques \cup {Null}

-----------------------------------------------------------------------------
(* The columns of the structs, by type; which of them are Option.          *)

Expense ==
    [text |-> {"description", "currency", "reference"},
     number |-> {"amount_total"},
     opaque |-> {"employee_id", "category_id", "expense_date", "payment_mode",
                 "approval_state", "state", "approval_request_id",
                 "journal_id", "accounting_post_id", "reimbursement_id",
                 "receipt_file_id"},
     option |-> {"reference", "approval_request_id", "journal_id",
                 "accounting_post_id", "reimbursement_id", "receipt_file_id"}]

ExpenseCategory ==
    [text |-> {"code", "name", "description"},
     number |-> {"default_tax_rate", "cap_per_claim", "cap_per_month"},
     opaque |-> {"expense_account_id"},
     option |-> {"default_tax_rate", "description", "cap_per_claim",
                 "cap_per_month"}]

ExpenseTaxLine ==
    [text |-> {"basis", "description"},
     number |-> {"rate", "tax_amount"},
     opaque |-> {"expense_id", "account_id"},
     option |-> {"description"}]

Columns(entity) == entity.text \cup entity.number \cup entity.opaque
Needed(entity) == Columns(entity) \ entity.option

Domain(entity, c) ==
    {v \in Values : \/ c \in entity.text /\ v \in Texts
                    \/ c \in entity.number /\ v \in Numbers
                    \/ c \in entity.opaque /\ v \in Opaques
                    \/ c \in entity.option /\ v = Null}

RowsOf(entity) == {r \in [Columns(entity) -> Values] :
                     \A c \in Columns(entity) : r[c] \in Domain(entity, c)}

-----------------------------------------------------------------------------
(* The lists that name the columns over again.  A list of assignments is a *)
(* function from the column to the field it is taken from: its namesake,   *)
(* in every list of today.  That they have to agree, and what each is for, *)
(* is in the operators below and in GenericCrud.                           *)

Namesakes(columns) == [c \in columns |-> c]

\* The bodies of POST and PUT, their optional fields the struct's.
CreateExpenseDto == Expense
CreateExpenseCategoryDto == ExpenseCategory
CreateExpenseTaxLineDto == ExpenseTaxLine
UpdateExpenseDto == Expense
UpdateExpenseCategoryDto == ExpenseCategory
UpdateExpenseTaxLineDto == ExpenseTaxLine

\* From<CreateDto>: the column, and the field of the body of a POST it is.
Expense_from_create_dto == Namesakes(Columns(Expense))
ExpenseCategory_from_create_dto == Namesakes(Columns(ExpenseCategory))
ExpenseTaxLine_from_create_dto == Namesakes(Columns(ExpenseTaxLine))

\* apply_update: the column, and the field of the body of a PUT it gets.
Expense_apply_update == Namesakes(Columns(Expense))
ExpenseCategory_apply_update == Namesakes(Columns(ExpenseCategory))
ExpenseTaxLine_apply_update == Namesakes(Columns(ExpenseTaxLine))

\* From<Entity> for ResponseDto: the field of the answer, and its column.
ExpenseResponseDto == Namesakes(Columns(Expense))
ExpenseCategoryResponseDto == Namesakes(Columns(ExpenseCategory))
ExpenseTaxLineResponseDto == Namesakes(Columns(ExpenseTaxLine))

\* apply_patch: the column that an arm sets, and the key of the arm.
Expense_apply_patch == Namesakes(Columns(Expense))
ExpenseCategory_apply_patch == Namesakes(Columns(ExpenseCategory))
ExpenseTaxLine_apply_patch == Namesakes(Columns(ExpenseTaxLine))

\* The columns the builders have a setter for, and those build insists on.
ExpenseBuilder == Columns(Expense)
ExpenseCategoryBuilder == Columns(ExpenseCategory)
ExpenseTaxLineBuilder == Columns(ExpenseTaxLine)
ExpenseBuilder_build == Needed(Expense) \ {"currency"}
ExpenseCategoryBuilder_build == Needed(ExpenseCategory)
ExpenseTaxLineBuilder_build == Needed(ExpenseTaxLine)

\* The parameters of new, and the columns with_* sets after it.
Expense_new == Needed(Expense)
ExpenseCategory_new == Needed(ExpenseCategory)
ExpenseTaxLine_new == Needed(ExpenseTaxLine)
Expense_with == Expense.option
ExpenseCategory_with == ExpenseCategory.option
ExpenseTaxLine_with == ExpenseTaxLine.option

\* The rules of the write guards, as <<rule, column>>.
ExpenseRowRules ==
    {"required"} \X {"employee_id", "category_id", "description"}
    \cup {"max_length"} \X {"description", "currency", "reference"}

ExpenseCategoryRowRules ==
    {"required"} \X {"code", "name", "expense_account_id"}
    \cup {"max_length"} \X {"code", "name"}

ExpenseTaxLineRowRules ==
    {"required"} \X {"expense_id", "basis", "account_id"}
    \cup {"max_length"} \X {"basis", "description"}

\* The blocks of the migration that declares them as CHECKs, in its order.
ExpenseChecks ==
    <<<<"required", "employee_id">>, <<"required", "category_id">>,
      <<"required", "description">>, <<"max_length", "description">>,
      <<"max_length", "currency">>, <<"max_length", "reference">>>>

ExpenseCategoryChecks ==
    <<<<"required", "code">>, <<"max_length", "code">>,
      <<"required", "name">>, <<"max_length", "name">>,
      <<"required", "expense_account_id">>>>

ExpenseTaxLineChecks ==
    <<<<"required", "expense_id">>, <<"required", "basis">>,
      <<"max_length", "basis">>, <<"required", "account_id">>,
      <<"max_length", "description">>>>

Kinds == {"expense", "expense_category", "expense_tax_line"}

Of(kind, expense, category, tax_line) ==
    IF kind = "expense" THEN expense
    ELSE IF kind = "expense_category" THEN category
    ELSE tax_line

Entity(kind) == Of(kind, Expense, ExpenseCategory, ExpenseTaxLine)

-----------------------------------------------------------------------------
(* What is done with the lists.                                            *)

\* Deserialising a body: every field that is no Option has to be there, all
\* have to be of their type, and an Option that is absent is None.
Parses(dto, body) ==
    /\ Needed(dto) \subseteq DOMAIN body
    /\ \A c \in DOMAIN body \cap Columns(dto) : body[c] \in Domain(dto, c)

Parsed(dto, body) ==
    [c \in Columns(dto) |-> IF c \in DOMAIN body THEN body[c] ELSE Null]

\* A new row of a DTO: what is not taken over is None.
FromCreate(kind, body) ==
    LET dto == Of(kind, CreateExpenseDto, CreateExpenseCategoryDto,
                  CreateExpenseTaxLineDto)
        taken == Of(kind, Expense_from_create_dto,
                    ExpenseCategory_from_create_dto,
                    ExpenseTaxLine_from_create_dto)
    IN  [c \in Columns(Entity(kind)) |->
            IF c \in DOMAIN taken THEN Parsed(dto, body)[taken[c]] ELSE Null]

UpdateDto(kind) == Of(kind, UpdateExpenseDto, UpdateExpenseCategoryDto,
                      UpdateExpenseTaxLineDto)

\* apply_update: the columns it does not assign stay what they are.
ApplyUpdate(kind, row, body) ==
    LET assigned == Of(kind, Expense_apply_update,
                       ExpenseCategory_apply_update,
                       ExpenseTaxLine_apply_update)
    IN  [c \in DOMAIN row |->
            IF c \in DOMAIN assigned
            THEN Parsed(UpdateDto(kind), body)[assigned[c]]
            ELSE row[c]]

Response(kind, row) ==
    LET shown == Of(kind, ExpenseResponseDto, ExpenseCategoryResponseDto,
                    ExpenseTaxLineResponseDto)
    IN  [c \in DOMAIN shown |-> row[shown[c]]]

\* Mutant: null is taken for any column.
ApplyPatch_nulling(kind, row, fields) ==
    LET arms == Of(kind, Expense_apply_patch, ExpenseCategory_apply_patch,
                   ExpenseTaxLine_apply_patch)
    IN  [c \in DOMAIN row |->
            IF /\ c \in DOMAIN arms /\ arms[c] \in DOMAIN fields
               /\ fields[arms[c]] \in Domain(Entity(kind), c) \cup {Null}
            THEN fields[arms[c]] ELSE row[c]]

\* apply_patch: a value that does not parse as the type of its column is
\* passed over, and null parses as that of an Option only.
ApplyPatch(kind, row, fields) ==
    LET arms == Of(kind, Expense_apply_patch, ExpenseCategory_apply_patch,
                   ExpenseTaxLine_apply_patch)
    IN  [c \in DOMAIN row |->
            IF /\ c \in DOMAIN arms /\ arms[c] \in DOMAIN fields
               /\ fields[arms[c]] \in Domain(Entity(kind), c)
            THEN fields[arms[c]] ELSE row[c]]

\* The builder: what its setters were given, if build has what it insists
\* on; a currency that was not set is IDR.
Buildable(kind, given) ==
    Of(kind, ExpenseBuilder_build, ExpenseCategoryBuilder_build,
       ExpenseTaxLineBuilder_build) \subseteq DOMAIN given

Build(kind, given) ==
    LET setters == Of(kind, ExpenseBuilder, ExpenseCategoryBuilder,
                      ExpenseTaxLineBuilder)
    IN  [c \in Columns(Entity(kind)) |->
            IF c \in setters \cap DOMAIN given THEN given[c]
            ELSE IF c = "currency" THEN "IDR" ELSE Null]

\* new with all its parameters, and with_* for the rest of what is given.
NewWith(kind, given) ==
    LET params == Of(kind, Expense_new, ExpenseCategory_new,
                     ExpenseTaxLine_new)
        with == Of(kind, Expense_with, ExpenseCategory_with,
                   ExpenseTaxLine_with)
    IN  [c \in Columns(Entity(kind)) |->
            IF c \in params \cup (with \cap DOMAIN given) THEN given[c]
            ELSE Null]

-----------------------------------------------------------------------------
(* The row rules.                                                          *)

RowRules(kind) == Of(kind, ExpenseRowRules, ExpenseCategoryRowRules,
                     ExpenseTaxLineRowRules)
Checks(kind) == Of(kind, ExpenseChecks, ExpenseCategoryChecks,
                   ExpenseTaxLineChecks)

\* A length that is NULL is within any maximum.
Breaks(rule, row) ==
    \/ rule[1] = "required" /\ row[rule[2]] \in {Null, "blank"}
    \/ rule[1] = "max_length" /\ row[rule[2]] = "long"
=============================================================================
