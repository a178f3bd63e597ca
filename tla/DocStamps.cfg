SPECIFICATION Spec
CONSTANTS
  Keys = {"f"}
  Templates = {"f"}
  Bodies = {"b1", "b2"}
  Signatures = {"s1", "s2"}
  Macros = {"SIZE", "VERSION"}
  Stamps = {"VERSION"}
  Values = {"v1", "v2"}
  Units <- MCUnits
  MaxHeaders = 3
  MaxFiles = 2
INVARIANT
  StampsExcluded
