---------------------------- MODULE MCHttpEpoll ----------------------------
(***************************************************************************)
(* An instance of HttpEpoll: three clients, one of which asks twice.       *)
(***************************************************************************)
EXTENDS HttpEpoll

CONSTANTS c1, c2, c3, index, absent, big

MCAsks == [c \in Conns |-> CASE c = c1 -> <<index, absent>>
                             [] c = c2 -> <<absent>>
                             [] c = c3 -> <<big>>]
MCContent == [f \in Files |-> CASE f = index -> "found" [] f = absent -> "missing"
                                [] f = big -> "large"]
=============================================================================
