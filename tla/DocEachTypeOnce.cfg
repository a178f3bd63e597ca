SPECIFICATION Spec
CONSTANTS
  t1 = t1
  t2 = t2
  own = own
  other = other
  none = none
  Types <- MCTypes
  Headers <- MCHeaders
  NoHeader = none
  Members <- MCMembers
  Names = {"c", "f", "h1", "h2", "h3"}
  Texts = {"int", "long", "char"}
  Stems = {"f", "g", "h", "v"}
  Objects <- MCObjects
  MassRenameMin = 2
  EventCap = 3
INVARIANT EachTypeOnce
