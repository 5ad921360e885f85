----------------------------- MODULE MCRequestFlow -----------------------------
(***************************************************************************)
(* Small instances of RequestFlow: a read, which the default policy lets   *)
(* pass, and a write, on which it asks.                                    *)
(***************************************************************************)
EXTENDS RequestFlow
=============================================================================
