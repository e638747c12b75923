\* matchRec on INTEGER attributes and literals in -3..3, every operator.
CONSTANT Values <- SmallSamples
SPECIFICATION Spec
INVARIANT IntegerFilterCorrect
CHECK_DEADLOCK FALSE
