CONSTANTS
  Field = {"x", "y"}
  Literal <- Literals
  CompOp = {"<", "!="}
  PayloadValue <- Values
  MaxTokens = 7
  Same <- PythonSame
  Less <- PythonLess
SPECIFICATION Spec
INVARIANTS
  ParserReadsGrammar
  MissingOnlyHides
CHECK_DEADLOCK FALSE
