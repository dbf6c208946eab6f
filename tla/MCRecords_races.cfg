CONSTANTS
    Desks <- MCDesks
    Callers <- MCCallers
    Named = {"e2"}
    MaxRow = 4
    Slots = {1, 2}
    MaxCalls = 3
    Readers = {"operator"}
    PageSizes = {1}
    Ladder <- MCLadder
    ColumnTables <- MCColumnTables
    Restricted <- MCRestricted
    Direct <- MCDirect
SPECIFICATION Spec
CHECK_DEADLOCK FALSE
INVARIANTS NoStatusSkipped ApprovedAsSubmitted ParentOutlivesChild PageWalkMissesNothing
PROPERTIES TenantsStayApart DeletedStaysDeleted EmployeesOnlyRead
