\* Two request IDs compete for one execution slot; fairness, so no symmetry.
CONSTANTS
  r1 = r1
  r2 = r2
  RequestIDs = {r1, r2}
  MaxConcurrent = 1
SPECIFICATION FairSpec
INVARIANTS
  StopJoinedBeforeFinalize
  StopReachesLaunch
  ShutdownQuiescent
PROPERTIES
  AcceptedStopHonoured
  ShutdownCompletes
  ImplementsFairLifecycle
