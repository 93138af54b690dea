SPECIFICATION Spec
CONSTANTS
  Macros <- MCMacros
  Replacement <- MCReplacement
  INCLUDE_STACK_SIZE = 3
  IFDEF_STACK_SIZE = 4
  MaxLines <- MCMaxLines
  Programs <- MCPrograms
  Main = "main.c"
  CommandLine = "<command line>"
  EmptyFiles = FALSE
  PushesTwice = FALSE
INVARIANTS MeansSource GuardsGuard
CHECK_DEADLOCK FALSE
