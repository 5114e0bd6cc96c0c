------------------------ MODULE MCTransmitterStreams ------------------------
(* Instances of TransmitterStreams for TLC: one audio and one screen slot. *)
EXTENDS TransmitterStreams

MCOrder == <<"main_audio", "screen">>
=============================================================================
