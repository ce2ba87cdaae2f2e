----------------------------- MODULE MCShutdown -----------------------------
EXTENDS Shutdown

CONSTANTS app, metrics, k1, k2, k3

MCServers == {app, metrics}
MCConns == {k1, k2, k3}
MCServerOf == [c \in MCConns |-> IF c = k3 THEN metrics ELSE app]
=============================================================================
