SPECIFICATION FairSpec
CONSTANT Conns = {s1}
PROPERTY ServeEndsOnCancel
CHECK_DEADLOCK FALSE
