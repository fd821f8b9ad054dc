SPECIFICATION MCSpec
INVARIANT ProbeMeasuresTheSystem
INVARIANT ProbeGatesAreHonest
PROPERTY DrillLeavesServicesUp
INVARIANT StageIsUndone
INVARIANT SuiteReportsItsStages
INVARIANT SamplesAreReal
\* Every script ends.
CHECK_DEADLOCK FALSE
