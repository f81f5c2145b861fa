CONSTANTS
  Conn = {c1, c2}
  Data = {1, 2}
  Input = {2}
  MaxPage = 3
  MaxChange = 2
  NoPage = NoPage
  NoView = NoView
  Found <- Files
SYMMETRY Symmetry
SPECIFICATION Spec
INVARIANTS LocksExclude PagerStates CacheIsCurrent
PROPERTY Atomic
