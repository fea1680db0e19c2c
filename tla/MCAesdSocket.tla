----------------------------- MODULE MCAesdSocket -----------------------------
(* Connections are interchangeable.                                         *)
EXTENDS AesdSocket, TLC

ConnSymmetry == Permutations(Conn)
===============================================================================
