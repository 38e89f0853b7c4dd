---------------------------- MODULE MCEyeSelect ----------------------------
(* TLC instance of EyeSelect: every grid of the configured size. *)
EXTENDS EyeSelect
=============================================================================
