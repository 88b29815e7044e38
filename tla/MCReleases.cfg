\* Promotion: three releases, two aliases, two operators, one write of others,
\* at most four plans retained.
\* Preparation: three hosts, two domains, one controller, one finding lost.
\* Transfer: two invocations, two writes of others.
\* Builds: at most three members, two retries or erasures (one with three).
\* Identities: two publishers, one build, three runs or writes of others in all.
\* Manifest: up to two members, two hosts, two validators.
\* Roots: two jobs at once, three jobs or two and an act of others, two stagings.
CONSTANTS
  june = june
  july = july
  august = august
  zen = zen
  haswell = haswell
  oldZen = oldZen
  newZen = newZen
  oldHaswell = oldHaswell
  newHaswell = newHaswell
  operator1 = operator1
  operator2 = operator2
  None = None
  Releases = {june, july, august}
  Aliases = {zen, haswell}
  Images = {oldZen, newZen, oldHaswell, newHaswell}
  Image <- ThreeReleases
  Operators = {operator1, operator2}
  MaxForeign = 1
  MaxPlans = 4
  canary = canary
  host1 = host1
  host2 = host2
  Hosts = {canary, host1, host2}
  Domains = {"power", "storage"}
  Controllers = {canary}
  MaxSpoiled = 1
  transfer1 = transfer1
  transfer2 = transfer2
  Transfers = {transfer1, transfer2}
  MaxWrites = 2
  Nobody = Nobody
  Jobs = {transfer1, transfer2}
  Stagings = {"left", "right"}
  MaxJobs = 3
  MaxTampers = 1
  Missing = Missing
  Torn = Torn
  Requests <- SomeRequests
  Architectures <- SomeArchitectures
  MaxRetries <- SomeRetries
  Publishers = {transfer1, transfer2}
  Builders = {host1}
  MaxActs = 3
  Validators = {transfer1, transfer2}
  MemberIds = {"one", "two"}
  Selections = {"normal", "debug"}
  Machines = {"owl", "web"}
  Identities = {"june", "july"}
  Guids = {"left", "right"}
  NotAny = NotAny
SPECIFICATION SuiteSpec
CHECK_DEADLOCK FALSE
INVARIANT TypesOK
INVARIANT PartialCopiesDescribed
INVARIANT ResetsAreGated
INVARIANT CompleteIsWhole
INVARIANT CopiedOnce
INVARIANT AcceptedIsOneGraph
INVARIANT ReferenceIsOneIdentity
INVARIANT ManifestIsTheRelease
PROPERTY PointerFollowsAliases
