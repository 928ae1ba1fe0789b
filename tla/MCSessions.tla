----------------------------- MODULE MCSessions -----------------------------
(* Small instances of the session machinery for TLC.                       *)
EXTENDS Sessions
=============================================================================
