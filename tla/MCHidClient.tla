---------------------------- MODULE MCHidClient ----------------------------
(* Small instances of HidClient for TLC.                                   *)
EXTENDS HidClient
=============================================================================
