SPECIFICATION DSpec
CONSTANTS
    JournalAction = {start, stop, recover_stop}
    Installers = {i1, i2}
INVARIANTS
    MarkedNamesAction
    ConfigLoads
PROPERTIES
    ImplementsJournal
