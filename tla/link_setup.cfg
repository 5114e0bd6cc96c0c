SPECIFICATION FairSpec
CONSTANTS
  SeqMod = 8
  Lsp <- MCLsp
  max_outgoing <- MCMaxOutgoing
  max_len <- MCMaxLen
  max_retransmissions <- MCMaxRetransmissions
  has_control <- MCHasControl
  Negotiating_Lsp = "negotiating"
  StartLsp <- MCStartLspSetup
  Accepts <- MCAcceptOwn
  StartSeq <- MCStartSeq
  MaxRounds = 2
  EakPeers = {}
  MsgLen <- MCMsgLenSetup
  MaxLingo <- OneLingo
  MaxInFlight = 2
  MaxLosses = 1
  MaxResets = 1
  Closers = {"accessory"}
INVARIANTS
  OneProtocolPerSession
PROPERTIES
  NegotiationEnds
  UnackedResolved
CHECK_DEADLOCK FALSE
