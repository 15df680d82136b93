---------------------------- MODULE MCLanPairing ----------------------------
(* Instances of LanPairing for TLC; devices and workers are interchangeable. *)
EXTENDS LanPairing, TLC

LanSymmetry == Permutations(Devices) \cup Permutations(Workers)
=============================================================================
