------------------------- MODULE MCChannelTransfer -------------------------
(* Instances of ChannelTransfer for TLC. *)
EXTENDS ChannelTransfer

TransferSymmetry == Permutations(Controller)
=============================================================================
