CONSTANT ConfiguredRetries = 1
SPECIFICATION FairSpec
CHECK_DEADLOCK FALSE
PROPERTIES StopEnds
