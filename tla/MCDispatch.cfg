SPECIFICATION FairSpec
CONSTANTS
    c1 = c1
    c2 = c2
    Clients = {c1, c2}
    Script <- MCScript
    Capacity = 3
    MaxTransfer = 2
INVARIANTS
    TypeOK
    StreamsInOrder
    FittingAnswersAreExact
    AnswersComplete
PROPERTY
    AnswersDelivered
CHECK_DEADLOCK FALSE
