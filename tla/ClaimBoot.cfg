\* Does every boot leave the portal with its data?
SPECIFICATION FairSpec
CONSTANTS
    e1 = e1
    e2 = e2
    employees = employees
    leaves = leaves
    expenses = expenses
    Readers = {q1}
    Employees = {e1, e2}
    Core = employees
    Catalog <- MCCatalog
    Unknown = unknown
    Rows <- MCRows
    None = None
INVARIANTS
    BootIsIdempotent
