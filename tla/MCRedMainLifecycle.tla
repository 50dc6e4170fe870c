------------------------ MODULE MCRedMainLifecycle ------------------------
(* Small instances of RedMainLifecycle for TLC. *)
EXTENDS RedMainLifecycle
=============================================================================
