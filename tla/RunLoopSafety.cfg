CONSTANTS
  Loop = loop
  Clients = {c1}
  Modes = {a, b}
  Sources0 = {s1, s2}
  Sources1 = {p1}
  Blocks = {b1, b2, b3, b4}
  ModesOf <- OneMode
  BlockModes <- BlocksMixed
  Order <- InOrder
  MainModes = {a}
  Calls <- EachLimit
  MaxDepth = 2
  a = a
  b = b
  s1 = s1
  s2 = s2
  p1 = p1
  b1 = b1
  b2 = b2
  b3 = b3
  b4 = b4
SPECIFICATION SafetySpec
INVARIANTS TypeOK NoLostWakeUp NoBlockLost MainQueueNotReentered FlatBlocksInOrder
