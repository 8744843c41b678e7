CONSTANTS
    Clients = {c1, c2}
    Main = Main
    Backlog = 1
    MaxQueries = 2
    MaxSignals = 2
SPECIFICATION Spec
CHECK_DEADLOCK FALSE
INVARIANTS AnswersMatchQueries 
PROPERTIES QueriesAnswered ShutdownCompletes
