SPECIFICATION Spec
CONSTANT N <- MC_N
INVARIANT ClosedMeansDone
