----------------------------- MODULE MCExchange -----------------------------
(***************************************************************************)
(* Instances of Exchange for TLC.                                          *)
(***************************************************************************)
EXTENDS Exchange
=============================================================================
