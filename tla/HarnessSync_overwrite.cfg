SPECIFICATION Spec
CONSTANTS
  rules = rules
  other = other
  a = a
  b = b
  u = u
  Files = {rules, other}
  Rules = rules
  Upstream = {a, b}
  Local = {u}
  Absent = Absent
  NoTree = NoTree
  TornJson = TornJson
  Trees <- SmallTrees
INVARIANT
  NeverOverwritesLocal
