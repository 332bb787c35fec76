------------------------------ MODULE MCReactor ------------------------------
(***************************************************************************)
(* Reactor for TLC.  Sessions, descriptors and workers are interchangeable *)
(* when every client sends the same number of requests.                    *)
(***************************************************************************)
EXTENDS Reactor, TLC

CONSTANTS s1, s2

OneEach == [s \in Sessions |-> 1]
Talker  == [s \in Sessions |-> IF s = s1 THEN 2 ELSE 0]

Symmetry == Permutations(Sessions) \cup Permutations(FDs) \cup Permutations(Workers)
=============================================================================
