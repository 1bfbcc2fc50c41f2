----------------------------- MODULE MCMailbox -----------------------------
(* Three envelopes, listings of at most one, and a filter that selects one *)
(* kind of envelope.  The second is of a kind the reader may never         *)
(* acknowledge, and hides the third for as long as it stays.               *)
EXTENDS Mailbox

MCIds == 1..3
MCFilters == {MCIds, {2}}
MCTaken == {1, 3}
=============================================================================
