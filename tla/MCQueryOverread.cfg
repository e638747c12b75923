\* QU_Insert's record assembly (main) on any attribute list.
CONSTANTS
    Variants = {"main"}
    Names = {n1, n2, n3}
    Lens = {1, 2}
    MaxAttrs = 3
    NoAttr = NoAttr
SPECIFICATION Spec
INVARIANT ListInBounds
