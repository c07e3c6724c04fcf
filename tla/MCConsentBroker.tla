-------------------------- MODULE MCConsentBroker --------------------------
(* ConsentBroker on a small instance. *)
EXTENDS ConsentBroker, TLC

CONSTANTS b1, b2, r1, library, write

\* The ordinary topic is denied; and one the settings refuse.
SomeMatrices ==
  { (library :> "deny") @@ (write :> "ask"), (library :> "ask") @@ (write :> "allow") }
=============================================================================
