SPECIFICATION Spec
CONSTANTS
    Name <- Names
    Sources <- SomeSources
    Paths <- SomePaths
INVARIANTS
    TypeOK
    MatchesByMeaning
    NothingIsWorkedOutTwice
\* A match ends.
CHECK_DEADLOCK FALSE
