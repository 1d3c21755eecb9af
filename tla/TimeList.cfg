SPECIFICATION Spec
CONSTANTS
  ListValue = {l1, l2, l3, l4}
  NULL = NULL
  Time = {1, 2, 3}
INVARIANTS
  TypeOK
  LinksAreInverse
  OneRing
PROPERTIES
  ImplementsQueue
