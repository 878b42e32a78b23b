SPECIFICATION Spec
CONSTANTS
  Keys <- AnyKey
  Names = {"a"}
  MAX_ARRAY_NESTING = 2
  MAX_JSON_ID_LENGTH = 8
  MaxDepth = 4
  MaxElements = 2
  MaxSpoiled = 4
INVARIANTS TypeOK  EndsOnce
PROPERTY RejectsOnlyTheDeep
