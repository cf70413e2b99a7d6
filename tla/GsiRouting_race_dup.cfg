CONSTANTS
  t1 = t1
  t2 = t2
  Threads <- MCThreadsTwo
  TriggerFd <- MCTriggerFdTwo
  MsiAddrs = {1}
  MsiData = {7}
  NoFd <- MCNoFd
  MaxGsi = 26
SPECIFICATION MCSpec
INVARIANT MsiGsiUnique
