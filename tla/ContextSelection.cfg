SPECIFICATION Spec
CONSTANTS
    code = code
    test = test
    doc = doc
    NoRange = NoRange
    Paths = {code, test, doc}
    Texts = {"fn", "class", "x", "y", "z", "file"}
    Chunks <- MCChunks
    Symbols <- MCSymbols
    Lists <- MCLists
    Budgets <- MCBudgets
    Overhead = 1
CHECK_DEADLOCK FALSE
INVARIANTS
    TypeOK
    BudgetWellSpent
    SelectionKept
    AttributionFollows
