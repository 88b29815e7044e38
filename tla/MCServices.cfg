\* Dispatch: two processes, two sets of parameters, three calls.
\* Photos: three calls, two at once, for two photos of one name.
\* Media: two applications, four runs, one write of each.
\* Bootstrap: three changes of GitLab's resources, each a retry, an erasure or a
\* new listing.
CONSTANTS
  call1 = call1
  call2 = call2
  call3 = call3
  result = result
  acceptance = acceptance
  health = health
  Dispatchers = {call1, call2}
  Params = {"first", "second"}
  Papers = {result, acceptance, health}
  Result = result
  Cites <- SomeCites
  Void = Void
  MaxAsked = 3
  Downloads = {call1, call2, call3}
  Items <- SomeItems
  Names <- SomeNames
  Nothing = Nothing
  Apps = {"plex", "ombi"}
  MaxBackups = 4
  MaxWrites = 1
  MaxMoves = 3
SPECIFICATION SuiteSpec
SYMMETRY CallSymmetry
CONSTRAINT Bounded
INVARIANT DispatchIsFaithful
INVARIANT DownloadsStay
INVARIANT ArchivesAreKept
INVARIANT AcceptedAsRecorded
CHECK_DEADLOCK FALSE
