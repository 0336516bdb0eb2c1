------------------------------ MODULE MCRouter ------------------------------
(* Small instances of Router: two TCP flows, which are interchangeable, and *)
(* one UDP flow.                                                            *)
EXTENDS Router, TLC

Symmetry == Permutations(TcpId)
=============================================================================
