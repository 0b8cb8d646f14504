SPECIFICATION Spec
CONSTANTS
    PageCount = 6
    FirstFree = 1
    PgSize = 2
    MaxBytes = 11
    NULL = NULL
    Garbage = Garbage
INVARIANTS
    BooksExact
    Coalesced
PROPERTY
    ImplementsPageAlloc
