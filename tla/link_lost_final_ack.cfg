SPECIFICATION Spec
CONSTANTS
  SeqMod = 8
  Lsp <- MCLsp
  max_outgoing <- MCMaxOutgoing
  max_len <- MCMaxLen
  max_retransmissions <- MCMaxRetransmissions
  has_control <- MCHasControl
  Negotiating_Lsp = "negotiating"
  StartLsp <- MCStartLsp
  Accepts <- MCAcceptAll
  StartSeq <- MCStartSeq
  MaxRounds = 3
  EakPeers = {}
  MsgLen <- MCMsgLenData
  MaxLingo <- NoLingo
  MaxInFlight = 2
  MaxLosses = 1
  MaxResets = 0
  Closers = {}
INVARIANT FinalAckIsEmpty
CHECK_DEADLOCK FALSE
