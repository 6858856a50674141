--------------------------- MODULE MCSyncContext ---------------------------
EXTENDS SyncContext

Way(kind, block, reuse, bind, badTimeout) ==
  [kind |-> kind, block |-> block, reuse |-> reuse, bind |-> bind,
   badTimeout |-> badTimeout]

\* redisConnect, redisConnectBindNonBlockWithReuse, redisConnectUnix,
\* redisConnectUnixWithTimeout with a timeout out of range, redisConnectFd.
MCModes == {Way("tcp", TRUE, FALSE, FALSE, FALSE), Way("tcp", FALSE, TRUE, TRUE, FALSE),
            Way("tcp", TRUE, FALSE, FALSE, TRUE), Way("unix", TRUE, FALSE, FALSE, FALSE),
            Way("unix", TRUE, FALSE, FALSE, TRUE), Way("fd", TRUE, FALSE, FALSE, FALSE)}
=============================================================================
