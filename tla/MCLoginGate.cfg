CONSTANTS
    Handlers = {h1, h2}
    Clients = {c1, c2}
    Proxies = {p1, p2}
    V6 = {c1, p2}
    Garbage = Garbage
    Salts = {s1, s2, s3}
    clientLimit = 2
    clientWindow = 1
    loginAccountLimit = 1
    loginAccountWindow = 2
    attemptsCap = 3
    PowLifetime = 2
    PruneMin = 1
    NoJob = NoJob
    MaxNow = 3
    MaxCount = 3
SPECIFICATION Spec
SYMMETRY Symmetry
INVARIANTS TypeOK TablesBounded GuessesBounded SpentOnceWhileValid CountedToSender
           NoForeignRequest
