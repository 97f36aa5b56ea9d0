-------------------------- MODULE MCChannelRouter --------------------------
(* Constants for model checking ChannelRouter. *)
EXTENDS ChannelRouter, TLC

CONSTANTS rx, tx

\* tx long enough to lose a packet, run behind and anchor its clock again, rx
\* with a carry that must stay out of it
UnevenPackets == (rx :> 1) @@ (tx :> 6)

TxPackets == (tx :> 5)
=============================================================================
