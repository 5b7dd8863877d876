--------------------------- MODULE MCSafeChannel ---------------------------
EXTENDS SafeChannel, TLC

CONSTANTS p1, p2, worker

MCPublishers == {p1, p2}
MCOpeners == {worker}
=============================================================================
