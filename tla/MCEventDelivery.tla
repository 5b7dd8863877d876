-------------------------- MODULE MCEventDelivery --------------------------
EXTENDS EventDelivery, TLC

CONSTANTS transfer, other

MCEvents == {transfer, other}

\* A transfer, which notifies two users, with an event that notifies one.
WithTopUp == (transfer :> "TRANSFER") @@ (other :> "TOPUP")
=============================================================================
