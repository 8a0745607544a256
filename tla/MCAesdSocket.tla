---------------------------- MODULE MCAesdSocket ----------------------------
(* Instances of AesdSocket for TLC.                                        *)
EXTENDS AesdSocket, TLC

CONSTANTS c1, c2, c3

Two == {c1, c2}
Three == {c1, c2, c3}

Symmetric == Permutations(Three)
=============================================================================
