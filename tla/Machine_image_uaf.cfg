CONSTANTS
  v1 = v1
  v2 = v2
  r1 = r1
  r2 = r2
  d1 = d1
  d2 = d2
  f1 = f1
  NoPci = NoPci
  Devices <- MCDevices
  ConnectOrder <- MCConnectOrder
  DevfnConfigs <- MCDevfnConfigsOk
  Vcpus <- MCVcpusOne
  Reqs <- MCReqsOne
SPECIFICATION Spec
INVARIANT ImageNoUseAfterFree
