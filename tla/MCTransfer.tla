----------------------------- MODULE MCTransfer -----------------------------
(* Three nodes and an object of two chunks: one publishes it, another may    *)
(* hold a copy that has gone bad, both allow the deletion of their copy.    *)
EXTENDS Transfer

CONSTANTS a, b, c
=============================================================================
