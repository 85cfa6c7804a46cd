CONSTANTS
    UserIds = {u1, u2}
    GroupIds = {g1, g2}
    Names = {n1, n2}
    Writers = {w1, w2}
    Creators = {c1}
    NoName = NoName
    NoGroup = NoGroup
    NoWriter = NoWriter
SPECIFICATION Spec
SYMMETRY Symmetry
INVARIANTS TypeOK
PROPERTIES OnlyAskedOrLateRemovals AnswerIsStored RenameSurvives OnlyManagedJoin
