\* QU_Insert's record assembly and QU_Select's projection, main and G11 versions, on every input.
CONSTANTS
    Variants = {"main", "g11"}
    Names = {n1, n2, n3}
    Lens = {1, 2}
    MaxAttrs = 3
    NoAttr = NoAttr
SPECIFICATION Spec
INVARIANT PermutationAssembled
INVARIANT ProjectionCorrect
