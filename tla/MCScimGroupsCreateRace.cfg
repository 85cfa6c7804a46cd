CONSTANTS
    UserIds = {u1, u2}
    GroupIds = {g1}
    Names = {n1}
    Writers = {w1}
    Creators = {c1}
    NoName = NoName
    NoGroup = NoGroup
    NoWriter = NoWriter
SPECIFICATION Spec
SYMMETRY Symmetry
PROPERTIES OnlyAskedRemovals
