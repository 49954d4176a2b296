----------------------------- MODULE MCCasaKIo ------------------------------
(* Three devices of one driver and two IRPs: see MCCasaKIo.cfg. *)
EXTENDS CasaKIo, TLC

DeviceSymmetry == Permutations(Devices)
=============================================================================
