SPECIFICATION FairSpec
CONSTANT QueueSize = 2
PROPERTY AliveFollowsTarget
CHECK_DEADLOCK FALSE
