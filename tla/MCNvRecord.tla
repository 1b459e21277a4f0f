----------------------------- MODULE MCNvRecord -----------------------------
(* NvRecord for TLC: one device more than there are records. *)
EXTENDS NvRecord, TLC

DeviceSymmetry == Permutations(Device)
=============================================================================
