SPECIFICATION Spec
CONSTANTS
    User = {u1, u2, u3}
    Txn = {t1, t2}
    MaxVersion = 2
    MaxLeaves = 9
SYMMETRY Interchangeable
INVARIANTS TypeOK LeavesMatchBundles CleanRootIsCurrent AnswerIsProved TreeIsRight
