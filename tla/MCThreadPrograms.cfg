SPECIFICATION ProgramSpec
CONSTANT MaxThreads = 5
INVARIANT LifetimesHold
PROPERTY JoinsReturn
CHECK_DEADLOCK FALSE
