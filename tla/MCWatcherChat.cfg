CONSTANTS
  timer = timer
  refresh = refresh
  Peers <- MCPeers
  Participants <- MCPeers
  MaxTurns = 2
  MaxResponders = 2
  MaxTotal = 4
  Replies <- MCReplies
  From <- MCFrom
  Turn <- MCTurn
  ReplyTo <- MCReplyTo
  Host <- MCHost
  Polls <- MCPolls
  NoReply = none
  MaxFaults = 1
SYMMETRY Symmetry
SPECIFICATION Spec
INVARIANT Inv
INVARIANT DroppedStaysRejected
PROPERTY AppendOnly
