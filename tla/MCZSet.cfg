CONSTANTS
    Names = {1, 2, 3, 4, 5, 6, 7}
    Scores = {1, 2}
    NULL = NULL
SPECIFICATION Spec
INVARIANTS TypeOK IndexesAgree Balanced QueriesRight
