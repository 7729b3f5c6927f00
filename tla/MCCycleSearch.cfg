SPECIFICATION Spec
CONSTANT Key <- FourKeys
INVARIANTS
    TypeOK
    PathIsSimpleWalk
    NoComponentIsDropped
    FirstStartSucceeds
PROPERTIES
    ImplementsReports
    Terminates
\* The program ends when every component has been searched.
CHECK_DEADLOCK FALSE
