CONSTANTS
    UserIds = {u1}
    Names = {n1, n2}
    Subjects = {x1}
    NoSubject = NoSubject
    Writers = {w1, w2}
    Logins = {l1}
    Omitted = Omitted
    NoJob = NoJob
    NoUser = NoUser
    AllowAdmin = TRUE
    AutoProvision = FALSE
    Attempts = 2
SPECIFICATION Spec
SYMMETRY Symmetry
INVARIANTS TypeOK
PROPERTIES OmittedSurvives
