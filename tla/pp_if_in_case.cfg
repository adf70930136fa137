\* An `if in an inactive case becomes active.  With Shape = "switch_in_case": the
\* labels of a switch in an inactive case act on the switch around it.
SPECIFICATION Spec
CONSTANTS
  Programs <- MCPrograms
  NestLimit = 3
  InitialValues <- MCValues
  InitialDefines <- MCDefines
  Shape = "if_in_case"
INVARIANTS
  AsStructured
