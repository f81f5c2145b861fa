SPECIFICATION Spec
CONSTANTS
  v1 = v1
  v2 = v2
  v3 = v3
  v4 = v4
  NULL = NULL
  Vdbes <- FourVdbes
  Texts <- SomeTexts
  MaxDepth = 6
SYMMETRY Symmetry
INVARIANTS
  StackDiscipline
  Owned
  NeverMisused
