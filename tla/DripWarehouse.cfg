SPECIFICATION FairSpec
CONSTANTS
    Delivery <- ThreeDeliveries
    Specs <- ThreeTables
    Histories <- ThreeHistories
    Keys = {"a", "b"}
    Values = {1, 2}
    MaxCopies = 2
    LastWindow = 1
    MaxFailures = 1
    NoTable = NoTable
INVARIANTS WarehouseInv
PROPERTIES ForeignUntouched ImplementsDrip Finishes
