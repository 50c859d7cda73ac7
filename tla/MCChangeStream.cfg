CONSTANTS
    Controllers = {c1, c2}
    Keys = {k1, k2}
    Edits = {"update"}
    NumTermWatermarks = 2
    MaxChanges = 4
SPECIFICATION Spec
INVARIANTS TypeOK UnreadNeverPruned TermCoversKeys ViewsAdvance
PROPERTY UpperBoundMonotone
SYMMETRY Symmetry
