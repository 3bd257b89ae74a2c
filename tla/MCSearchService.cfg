SPECIFICATION Spec
CONSTANTS
    small = small
    large = large
    huge = huge
    None = None
    Class = {c1}
    SourceOwner <- MCSourceOwner
    Text = {small, large, huge}
    Size <- MCSize
    Partial = {large}
    TooLong = {huge}
    MaxBytes = 3
    Build = {b1, b2}
    Read = {r1}
    Query = {q1, q2}
    DomainSets = {{"MEMBER_NAME"}, {"MEMBER_NAME", "SOURCE_TEXT"}}
    Catalogs = {{c1}}
    NoCode = {}
    CatalogSizes = {1, 4}
    ResultSizes = {1, 2}
    MaxResults = 1
    ResultBudget = 1
    MaxPublications = 2
    MaxBegun = 3
SYMMETRY Symmetry
CHECK_DEADLOCK FALSE
INVARIANTS
    CoverageHonest
    BudgetsKept
    PagesAreCurrent
