SPECIFICATION Spec
CONSTANTS
    f1 = f1
    f2 = f2
    Lines = {1, 2, 3}
    Files = {f1, f2}
    FileOf <- MCFileOf
    NumberOf <- MCNumberOf
    TotalLines <- MCTotalLines
    Covered = {3}
    FunctionSets <- MCFunctionSets
    Origins <- MCOrigins
    Reviewers = {r1, r2}
    Statuses = {"cover"}
    Selections = {{1}, {1, 2}, {2, 3}}
    PagedFiles = {f1}
    PageSize = 1
    MaxVersion = 4
    FallbackContext = 1
    MaxMergeGap = 1
    None = None
CONSTRAINT MCFocus
SYMMETRY MCSymmetry
INVARIANTS RowsAgree LayoutShowsPending PagesAreComplete
PROPERTY RevisionCoversContent
CHECK_DEADLOCK FALSE
