------------------------------ MODULE MCPresence ------------------------------
(* Sessions, PrivateMessages and Presence for TLC: connections, users and    *)
(* names are model values; permuting any of the three is a symmetry.         *)
EXTENDS Presence, TLC

MCSymmetry == Permutations(Conns) \cup Permutations(UserIds) \cup Permutations(Names)
===============================================================================
