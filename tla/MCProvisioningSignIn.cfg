CONSTANTS
    UserIds = {u1, u2}
    Names = {n1, n2}
    Subjects = {x1}
    NoSubject = NoSubject
    Writers = {w1}
    Logins = {l1}
    Omitted = Omitted
    NoJob = NoJob
    NoUser = NoUser
    AllowAdmin = FALSE
    AutoProvision = TRUE
    Attempts = 2
SPECIFICATION FairSpec
INVARIANTS OwnAccount
PROPERTIES NoNewClash LocalUntouched SubjectStable ScimGrantsNoAdmin MutexReleased
