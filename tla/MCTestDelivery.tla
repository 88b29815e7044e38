---------------------------- MODULE MCTestDelivery ----------------------------
(* TestDelivery for TLC.                                                     *)
EXTENDS TestDelivery, TLC

CONSTANTS promote1, rollback2, base, new, footprint1, footprint2

DeliveredImage == (promote1 :> new) @@ (rollback2 :> base)

\* The Deployment of the start runs the base image.  Footprints are
\* interchangeable, so it has the first of them.
DeliveryInit ==
  Init /\ live.content.footprint = footprint1 /\ live.content.image = base

DeliverySpec == DeliveryInit /\ [][Next]_vars /\ WF_vars(Run) /\ WF_vars(Clock)
==============================================================================
