-------------------------- MODULE MCReleasePromotion --------------------------
(* ReleasePromotion for TLC.                                                 *)
EXTENDS ReleasePromotion, TLC

CONSTANTS june, july, august, zen, haswell, oldZen, newZen, oldHaswell, newHaswell,
          operator1, operator2

\* Three releases: the last two share the image of one alias.
ThreeReleases ==
  (june :> ((zen :> oldZen) @@ (haswell :> oldHaswell)))
    @@ (july :> ((zen :> newZen) @@ (haswell :> oldHaswell)))
    @@ (august :> ((zen :> newZen) @@ (haswell :> newHaswell)))

Symmetry == Permutations(Operators)
==============================================================================
