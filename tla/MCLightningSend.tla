-------------------------- MODULE MCLightningSend --------------------------
(***************************************************************************)
(* Model values for LightningSend.  Workers are interchangeable: no        *)
(* definition and no property names one of them.                           *)
(***************************************************************************)
EXTENDS LightningSend, TLC

CONSTANTS w1, w2, w3

AllWorkers == {w1, w2, w3}
Symmetry   == Permutations(AllWorkers)
=============================================================================
