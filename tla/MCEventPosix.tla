----------------------------- MODULE MCEventPosix -----------------------------
\* EventPosix with few threads and few timer starts.
EXTENDS EventPosix
=============================================================================
