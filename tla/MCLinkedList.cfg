SPECIFICATION Spec
CONSTANTS
  Values = {a, b, c}
  None = None
  Indices <- MCIndices
  MaxLen = 4
  Threshold = 2
VIEW Containers
INVARIANT OneContainer
PROPERTY ListRefined
