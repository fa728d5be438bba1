CONSTANTS
  Threads = {t1, t2}
  Loops = {l1}
  Modes = {a, b}
  Sources = {s1}
  Common = {a}
  Ops <- CommonOnly
  t1 = t1
  t2 = t2
  a = a
  b = b
  s1 = s1
  s2 = s2
SPECIFICATION Spec
SYMMETRY Symmetry
INVARIANTS NoDeadlyEmbrace
