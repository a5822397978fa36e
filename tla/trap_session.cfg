CONSTANTS
    Client = {a, b}
    None = none
    Backlog = 2
    Asks = 1
    Links = 3
SPECIFICATION Spec
INVARIANTS DepthIsSuspended AnswersMatch
PROPERTIES OnceInOrder ResumeContinues AllServed
CHECK_DEADLOCK FALSE
