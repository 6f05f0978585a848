\* Two jobs, three units at most: whole and last chunks, units that share paths in
\* a chunk and across chunks, and a test that fills the pipe.
CONSTANTS
  Invocations <- MCInvocations
  Jobs = 2
  PipeCapacity = 2
  BadSources = {"bad"}
  MaxRuns = 2
SPECIFICATION FairSpec
INVARIANTS OwnVerdict ExitAgrees
PROPERTIES AlwaysReports
\* The command ends.
CHECK_DEADLOCK FALSE
