CONSTANTS
    traffic = traffic
    cores = cores
    port1 = port1
    spare1 = spare1
    internal = internal
    Operations = {traffic, cores}
    ColumnsOf <- MCColumns
    Indexes <- MCIndexes
    Objects = {port1, spare1, internal}
    NameOf <- MCNames
    MaxConcurrent = 2
    Attempts = 2
    Bulk = 1
    Tables <- MCTables
    MaxChanges = 1
SPECIFICATION LiveSpec
INVARIANTS
    NothingLeaks
    SocketsInFlight
PROPERTIES
    WholeTable
    OperationsEnd
