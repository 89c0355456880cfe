\* Any three commands, two items, two identities; commits may be torn.
SPECIFICATION Spec
CONSTANTS
  Cmds = {p1, p2, p3}
  Items = {i1, i2}
  Contents = {a, b}
  None = None
SYMMETRY Symmetry
VIEW View
INVARIANTS CacheIsChosen WindowResolves NoBarredCache ChoiceStands
PROPERTIES FilesKept
