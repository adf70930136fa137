\* Block structures up to three deep, and regions whose directives do not match;
\* for_stack and switch_stack have two entries.
SPECIFICATION FairSpec
CONSTANTS
  Programs <- MCPrograms
  NestLimit = 2
  InitialValues <- MCValues
  InitialDefines <- MCDefines
  Shape = "disciplined"
CONSTRAINT HeadConstraint
INVARIANTS
  AsStructured
  StacksFit
PROPERTIES
  Returns
