----------------------------- MODULE MCBilling -----------------------------
(* Instances of Billing for TLC.                                           *)
EXTENDS Billing, TLC

CONSTANTS s1, s2

(* Two subscriptions that are bought and end.                               *)
Ends == (s1 :> {"completed", "deleted"}) @@ (s2 :> {"completed"})

(* One subscription, of which Stripe tells everything.                      *)
Everything == s1 :> Types
=============================================================================
