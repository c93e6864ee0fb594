------------------------- MODULE MCPendingCommands -------------------------
(* Small instances of PendingCommands for TLC. *)
EXTENDS PendingCommands

CONSTANTS h1, h2
=============================================================================
