SPECIFICATION Spec
CONSTANTS
    w1 = w1
    w2 = w2
    Writers = {w1, w2}
    tp = tp
    fp = fp
    Labels = {tp, fp}
    NoFilter = NoFilter
    MaxRecords = 3
    PageLimit = 1
    MaxAdds = 5
    LastClock = 1
SYMMETRY MCSymmetry
INVARIANTS
    PagingMissesNothing
    AnswerCoherent
    NewestUpToOverlap
