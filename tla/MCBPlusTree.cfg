SPECIFICATION Spec
CONSTANTS
  kMaxLeafKeys = 3
  kMaxInnerKeys = 4
  MaxCount = 20
VIEW Canonical
INVARIANTS Shape CountsExact Sorted Ranks Seeks Walks
PROPERTY SetRefined
