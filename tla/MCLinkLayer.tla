---------------------------- MODULE MCLinkLayer -----------------------------
(* Instances of LinkLayer for TLC. *)
EXTENDS LinkLayer

MCLsp == {"negotiating", "small", "large"}
MCMaxOutgoing == [l \in MCLsp |-> IF l = "large" THEN 2 ELSE 1]
MCMaxLen == [l \in MCLsp |-> IF l = "negotiating" THEN 1 ELSE 2]
MCMaxRetransmissions == [l \in MCLsp |-> 1]
MCHasControl == [l \in MCLsp |-> TRUE]
\* SimpleLSPNegotiator: each side starts with its own LSP and accepts any.
MCStartLsp == [e \in Endpoint |-> "large"]
MCAcceptAll == [e \in Endpoint |-> MCLsp]
\* Sequence numbers wrap within the first packets of either direction.
MCStartSeq == [e \in Endpoint |-> IF e = Host THEN 6 ELSE 5]

MCMsgLenData == [e \in Endpoint |-> IF e = Host THEN <<1>> ELSE <<1, 1, 1>>]
NoLingo == [e \in Endpoint |-> 0]

\* The setup instance: one message each way (the host's exceeds what the
\* accessory takes), one iAP1 frame each way, and a host that insists on its
\* own LSP.
MCMsgLenSetup == [e \in Endpoint |-> IF e = Host THEN <<3>> ELSE <<1>>]
OneLingo == [e \in Endpoint |-> 1]
MCStartLspSetup == [e \in Endpoint |-> IF e = Host THEN "small" ELSE "large"]
MCAcceptOwn == [e \in Endpoint |-> IF e = Host THEN {"small"} ELSE MCLsp]
=============================================================================
