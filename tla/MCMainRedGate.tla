--------------------------- MODULE MCMainRedGate ---------------------------
(* Small instances of MainRedGate for TLC. *)
EXTENDS MainRedGate
=============================================================================
