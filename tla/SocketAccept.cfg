CONSTANTS
  SocketLoops = {l1}
  SocketKinds <- AcceptingOnly
  MaxQueue = 2
  NoItem = none
  l1 = l1
  l2 = l2
SPECIFICATION SocketSpec
INVARIANTS DisabledIsRespected
