--------------------------- MODULE MCRegistration ---------------------------
EXTENDS Registration

CONSTANTS r1, r2, r3, e1, e2

MCRequests == {r1, r2, r3}
MCEmails == {e1, e2}
=============================================================================
