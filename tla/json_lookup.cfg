CONSTANTS
  Names <- MCNames
  Paths <- MCPaths
  MJSON_MAX_DEPTH = 3
  MaxItems = 2
SPECIFICATION Spec
INVARIANTS TypeOK RefusesOnlyNonJson FindsWhatIsThere AbsentIsNotFound
CHECK_DEADLOCK FALSE
