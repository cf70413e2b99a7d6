CONSTANTS
  t1 = t1
  t2 = t2
  Threads <- MCThreadsOne
  TriggerFd <- MCTriggerFdOne
  MsiAddrs = {1, 2}
  MsiData = {7}
  NoFd <- MCNoFd
  MaxGsi = 27
SPECIFICATION MCSpec
INVARIANT TypeOK
INVARIANT InitialTableCorrect
INVARIANT MsiGsiUnique
INVARIANT KernelInSyncWhenIdle
PROPERTY RoutingRefinement
