------------------------- MODULE MCBillingWebhooks -------------------------
(* Instances of BillingWebhooks for TLC.                                    *)
EXTENDS BillingWebhooks, TLC

HandlerSymmetry == Permutations(Handlers)
=============================================================================
