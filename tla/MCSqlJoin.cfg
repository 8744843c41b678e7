\* A query that names a column of the right table of a join.
CONSTANTS
    PageSize = 64
    InitialTables <- MCTables
    NewTables <- MCNewTables
    Statements <- MCStatements
    Queries <- MCJoinQueries
    MaxStatements = 1
SPECIFICATION Spec
CHECK_DEADLOCK FALSE
INVARIANTS AnswersAreRight
