-------------------------- MODULE MCProviderHealth --------------------------
(***************************************************************************)
(* Instances of ProviderHealth for TLC.  The unit of time is a minute.     *)
(***************************************************************************)
EXTENDS ProviderHealth
=============================================================================
