CONSTANTS
    Logins = {l1}
    Logouts = {o1, o2}
    Sids = {s1}
    NoSid = NoSid
    Subjects = {x1}
    UserIds = {u1}
    CallbackWindow = 1
    ssoLogoutFence = 2
    MaxNow = 3
SPECIFICATION Spec
SYMMETRY HandlerSymmetry
INVARIANTS EndedStaysEnded JustifiedRefusal
PROPERTIES OnlyNamedSignInsEnd RefinesRevocation
