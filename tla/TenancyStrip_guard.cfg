CONSTANT Order <- ClaimsAndCategories
SPECIFICATION Spec
INVARIANTS
    TypeOK
    KeysKept
PROPERTIES
    RefusesToProtect
    AllStripped
