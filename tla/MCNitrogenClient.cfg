CONSTANTS
    MaxEvents = 2
    MaxFailures = 1
    MaxCloses = 2
SPECIFICATION FairSpec
INVARIANTS
    TypeOK
    AnswerMeetsItsEvent
    RepeatBound
    PostedInOrder
    Conservation
PROPERTIES
    EventSettles
CHECK_DEADLOCK FALSE
