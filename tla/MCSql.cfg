\* One page holds four rows of a, or fewer after updates, which use up space.
CONSTANTS
    PageSize = 64
    InitialTables <- MCTables
    NewTables <- MCNewTables
    Statements <- MCStatements
    Queries <- MCQueries
    MaxStatements = 4
SPECIFICATION Spec
CHECK_DEADLOCK FALSE
INVARIANTS IndexMatchesTable PlansAgree AnswersAreRight
PROPERTIES StatementsActOnce
