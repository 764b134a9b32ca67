--------------------------- MODULE MCNodeOperation ---------------------------
(* An instance of NodeOperation for TLC. *)
EXTENDS NodeOperation

=============================================================================
