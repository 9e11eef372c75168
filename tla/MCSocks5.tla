------------------------------ MODULE MCSocks5 ------------------------------
(* Instances of Socks5 for TLC.                                            *)
EXTENDS Socks5, TLC

(* The addresses of structs only differ in name.                           *)
StructSymmetry == Permutations(Structs)
=============================================================================
