\* A program, a local file, a package and two modules of it.
CONSTANTS
  Projects <- MCProjects
  MaxDepth = 4
SPECIFICATION Spec
INVARIANTS LoadOrderIrrelevant SelectionComplete NamesKept CyclesReported
\* Each project is compiled once.
CHECK_DEADLOCK FALSE
