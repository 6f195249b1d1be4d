---------------------------- MODULE MCWireProxy ----------------------------
(* Instances of WireProxy for TLC. *)
EXTENDS WireProxy, TLC

ProxiedSymmetry == Permutations(Proxied)
=============================================================================
