SPECIFICATION FairClientSpec
CONSTANT Conns = {s1, s2, s3}
INVARIANT TypeOK
INVARIANT WaitGroupExact
INVARIANT StoreOutlivesHandlers
PROPERTY ShutdownCompletes
CHECK_DEADLOCK FALSE
