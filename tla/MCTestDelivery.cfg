\* A promotion and a rollback, one rollout of the platform, one late write,
\* runs that are killed, and a clock that goes on.
CONSTANTS
  promote1 = promote1
  rollback2 = rollback2
  base = base
  new = new
  footprint1 = footprint1
  footprint2 = footprint2
  None = None
  Operations = {promote1, rollback2}
  Images = {base, new}
  Image <- DeliveredImage
  Footprints = {footprint1, footprint2}
  MaxForeign = 1
  MaxLate = 1
SPECIFICATION DeliverySpec
INVARIANT SucceededMeansDelivered
PROPERTY PatchesOnceWhatWasJournaled
PROPERTY EveryDeliveryCloses
