---------------------------- MODULE MCRateLimit ----------------------------
EXTENDS RateLimit

CONSTANT c1

OneClient == {c1}
=============================================================================
