\* Boots cut short anywhere, restarts, seeds by hand and a reader.
SPECIFICATION FairSpec
CONSTANTS
    e1 = e1
    e2 = e2
    employees = employees
    leaves = leaves
    expenses = expenses
    Readers = {q1}
    Employees = {e1, e2}
    Core = employees
    Catalog <- MCCatalog
    Unknown = unknown
    Rows <- MCRows
    None = None
INVARIANTS
    TypeOK
    CoreRowsMeanAllRows
    AnswersAreWhole
    ServesWholeUnlessCut
PROPERTIES
    SeededVolumeKept
    ComesUp
