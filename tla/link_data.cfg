SPECIFICATION Spec
CONSTANTS
  SeqMod = 8
  Lsp <- MCLsp
  max_outgoing <- MCMaxOutgoing
  max_len <- MCMaxLen
  max_retransmissions <- MCMaxRetransmissions
  has_control <- MCHasControl
  Negotiating_Lsp = "negotiating"
  StartLsp <- MCStartLsp
  Accepts <- MCAcceptAll
  StartSeq <- MCStartSeq
  MaxRounds = 3
  EakPeers = {"host"}
  MsgLen <- MCMsgLenData
  MaxLingo <- NoLingo
  MaxInFlight = 2
  MaxLosses = 2
  MaxResets = 0
  Closers = {}
INVARIANTS
  TypeOK
  InOrderDelivery
  ReleasedIsDelivered
  RetransmitMapCovers
  WindowRespected
  NegotiatedKnowsPeer
  AcksFollowSyn
CHECK_DEADLOCK FALSE
