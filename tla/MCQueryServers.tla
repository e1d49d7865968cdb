---------------------------- MODULE MCQueryServers ----------------------------
\* Two statements compete for the row, while one request reads logs.
EXTENDS QueryServers
=============================================================================
