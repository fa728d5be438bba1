CONSTANTS
  Loop = loop
  Clients = {c1}
  Modes = {a}
  Sources0 = {s1}
  Sources1 = {p1}
  Blocks = {b1}
  ModesOf <- OneMode
  BlockModes <- BlocksInA
  Order <- SameOrder
  MainModes = {a}
  Calls <- EachLimit
  MaxDepth = 1
  a = a
  b = b
  s1 = s1
  s2 = s2
  p1 = p1
  b1 = b1
  b2 = b2
  b3 = b3
SPECIFICATION FairSpec
PROPERTIES SignalServed BlockServed RunEnds MainQueueServed
