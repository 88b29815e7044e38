--------------------------- MODULE MCUpdateDispatch ---------------------------
(* UpdateDispatch alone, for TLC.                                            *)
EXTENDS UpdateDispatch, TLC

CONSTANTS call1, call2, result

\* The result cites nothing.
NoCites == result :> {}

CallSymmetry == Permutations(Dispatchers)
===============================================================================
