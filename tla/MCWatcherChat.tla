---------------------------- MODULE MCWatcherChat ----------------------------
(* Two turns, three participants of whom two may answer a turn, one of them *)
(* twice, and room for two of the replies.  The polls are interchangeable.  *)
EXTENDS WatcherChat, TLC

CONSTANTS timer, refresh

a == 1
b == 2
c == 3

MCReplies == 1..4
MCFrom    == <<a, a, b, c>>
MCTurn    == <<1, 1, 1, 1>>
MCReplyTo == <<1, 1, 1, 1>>
MCPeers   == {a, b, c}
MCHost    == 0
MCPolls   == {timer, refresh}
Symmetry  == Permutations(MCPolls)
=============================================================================
