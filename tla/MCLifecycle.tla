---------------------------- MODULE MCLifecycle ----------------------------
EXTENDS Lifecycle, TLC

CONSTANTS transfer, stream

MCKind == transfer :> "TRANSFER"
=============================================================================
