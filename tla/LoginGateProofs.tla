-------------------------- MODULE LoginGateProofs ---------------------------
(***************************************************************************)
(* The sign-in gate holds for any number of clients, handlers, puzzles and *)
(* windows, and for every limit: the inductive invariant Inv says what the *)
(* two tables and the requests in flight owe to one another.               *)
(***************************************************************************)
EXTENDS LoginGate, ClientAddressProofs, FiniteSetTheorems

Job == [sender : Clients, client : LimiterKeys, foreign : BOOLEAN, salt : Salts]

TypeInv ==
    /\ TypeOK
    /\ now # 0
    /\ job \in [Handlers -> Job \cup {NoJob}]
    /\ IsFiniteSet(KnownKeys)

AccountKey(c) == <<"login-account", c>>

HashingFor(c) == {h \in Handlers : hpc[h] = "hashing" /\ job[h].client = c}

(* What a live window has counted, with the requests past the check that   *)
(* may still be counted in it.                                             *)
GuessInv ==
    \A c \in LimiterKeys :
        now < At(attempts, AccountKey(c)).reset =>
            At(attempts, AccountKey(c)).count + Cardinality(HashingFor(c))
                < loginAccountLimit + Cardinality(Handlers)

(* A puzzle accepted while it was valid is in the spent set for as long as *)
(* it stays valid; a request in flight has one that was handed out.        *)
SpentInv ==
    /\ SpentOnceWhileValid
    /\ \A s \in Salts : accepted[s] # 0 =>
          challenge[s] # 0 /\ (challenge[s] < now \/ salts[s] = challenge[s])
    /\ \A h \in SigningIn : challenge[job[h].salt] # 0

SenderInv == \A h \in SigningIn : job[h].client = OwnKey(job[h].sender) /\ ~job[h].foreign

Inv == TypeInv /\ TablesBounded /\ GuessInv /\ SpentInv /\ SenderInv

-----------------------------------------------------------------------------
(***************************************************************************)
(* Pages of another origin                                                 *)
(***************************************************************************)

LEMMA ForeignOrigins ==
    ASSUME NEW page \in Pages, Foreign(page), NEW d \in Deployments
    PROVE  /\ PageOrigin(page, d) # NoOrigin /\ PageOrigin(page, d).host = page
           /\ PageOrigin(page, d) # AppURL(d)
<1>1. page \in {"sibling", "elsewhere"}
  BY DEF Foreign
<1>2. page # "own" /\ page # "program"
  BY <1>1
<1>3. PageOrigin(page, d) = [scheme |-> "https", host |-> page]
  BY <1>2, Zenon DEF PageOrigin
<1>4. AppURL(d).host = "app" /\ NoOrigin.host = ""
  BY DEF AppURL, NoOrigin
<1>5. PageOrigin(page, d).host = page
  BY <1>3
<1> QED
  BY <1>1, <1>4, <1>5

LEMMA RequestFields ==
    ASSUME NEW page, NEW d \in Deployments, NEW r \in Requests(page, d)
    PROVE  /\ r.origin = PageOrigin(page, d) /\ r.host \in {"app", "lan", "backend"}
           /\ r.session => page \in {"own", "sibling"}
           /\ r.csrf \in CSRFCookies(page, d) /\ r.token \in Tokens(page, r.csrf, d)
<1>1. d.visited \in {"app", "lan"}
  BY DEF Deployments, Deployment
<1>2. PICK csrf \in CSRFCookies(page, d) :
        r \in [origin : {PageOrigin(page, d)}, site : {SecFetchSite(page, d)},
               host : {IF d.rewritten THEN "backend" ELSE d.visited},
               session : {page \in {"own", "sibling"}}, csrf : {csrf},
               token : Tokens(page, csrf, d)]
  BY Zenon DEF Requests
<1>3. /\ r.origin = PageOrigin(page, d) /\ r.session = (page \in {"own", "sibling"})
      /\ r.host = IF d.rewritten THEN "backend" ELSE d.visited
      /\ r.csrf = csrf /\ r.token \in Tokens(page, csrf, d)
  BY <1>2, Zenon
<1>4. r.host \in {"app", "lan", "backend"}
  BY <1>1, <1>3, Zenon
<1> QED
  BY <1>3, <1>4, Zenon

(* Neither a sign-in nor a request with the session gets past ServeHTTP    *)
(* when a page of another origin sends it.                                 *)
LEMMA NoForeignPage ==
    ASSUME NEW page, Foreign(page)
    PROVE  page \notin SignInPages /\ page \notin ActingPages
<1>1. page \in Pages /\ page \in {"sibling", "elsewhere"}
  BY DEF Foreign, Pages
<1>2. ASSUME NEW d \in Deployments, NEW r \in Requests(page, d) PROVE SignInRefused(r, d)
  <2>1. r.origin = PageOrigin(page, d) /\ r.host \in {"app", "lan", "backend"}
    BY RequestFields
  <2>2. r.origin # NoOrigin /\ r.origin.host = page /\ r.origin # AppURL(d)
    BY <1>1, <2>1, ForeignOrigins
  <2>3. r.origin.host # r.host
    BY <1>1, <2>1, <2>2
  <2> QED
    BY <2>2, <2>3 DEF SignInRefused, foreignOrigin, sameOrigin
<1>3. ASSUME NEW d \in Deployments, NEW r \in Requests(page, d), r.session
      PROVE  CSRFRefused(r)
  <2>1. page = "sibling"
    <3>1. page \in {"own", "sibling"}
      BY <1>3, RequestFields, Zenon
    <3> QED
      BY <1>1, <3>1
  <2>2. ~PreflightGranted(PageOrigin(page, d), d)
    BY <1>1, ForeignOrigins DEF PreflightGranted, sameOrigin
  <2>3. r.token \in Tokens(page, r.csrf, d) /\ r.csrf \in CSRFCookies(page, d)
    BY RequestFields
  <2>4. r.token = ""
    BY <2>1, <2>2, <2>3 DEF Tokens
  <2> QED
    BY <1>3, <2>4 DEF CSRFRefused, ValidateCSRF
<1> QED
  BY <1>2, <1>3 DEF SignInPages, ActingPages

-----------------------------------------------------------------------------
(***************************************************************************)
(* Windows                                                                 *)
(***************************************************************************)

LEMMA ConstantTypes ==
    /\ clientLimit \in Nat \ {0} /\ clientWindow \in Nat \ {0}
    /\ loginAccountLimit \in Nat \ {0} /\ loginAccountWindow \in Nat \ {0}
    /\ attemptsCap \in Nat \ {0} /\ PruneMin \in Nat \ {0}
    /\ PowLifetime \in Nat /\ MaxNow \in Nat /\ MaxCount \in Nat
    /\ IsFiniteSet(Salts) /\ IsFiniteSet(Handlers)
  BY LoginGateAssumption

LEMMA AtWindow ==
    ASSUME TypeOK, NEW k
    PROVE  At(attempts, k) \in [count : Nat, reset : Nat]
  BY DEF TypeOK, KnownKeys, Window, At, ZeroWindow

LEMMA BumpedWindow ==
    ASSUME NEW e \in [count : Nat, reset : Nat], NEW t \in Nat, NEW window \in Nat
    PROVE  /\ bumpWindow(e, t, window) \in Window
           /\ t > e.reset => bumpWindow(e, t, window) = [count |-> 1, reset |-> t + window]
           /\ ~(t > e.reset) => bumpWindow(e, t, window)
                                  = [count |-> e.count + 1, reset |-> e.reset]
<1>1. CASE t > e.reset
  <2>1. bumpWindow(e, t, window) = [count |-> 1, reset |-> t + window]
    BY <1>1, Zenon DEF bumpWindow
  <2> QED
    BY <1>1, <2>1 DEF Window
<1>2. CASE ~(t > e.reset)
  <2>1. bumpWindow(e, t, window) = [e EXCEPT !.count = @ + 1]
    BY <1>2, Zenon DEF bumpWindow
  <2>2. [e EXCEPT !.count = @ + 1] = [count |-> e.count + 1, reset |-> e.reset]
    OBVIOUS
  <2> QED
    BY <1>2, <2>1, <2>2 DEF Window
<1> QED
  BY <1>1, <1>2

(* What makeRoom leaves: windows it does not change, and room for one more. *)
LEMMA RoomMade ==
    ASSUME TypeInv, Cardinality(KnownKeys) <= attemptsCap, NEW t \in Nat,
           NEW room \in makeRoom(t)
    PROVE  \E S \in SUBSET KnownKeys : /\ room = Restrict(attempts, S)
                                       /\ Cardinality(S) < attemptsCap
<1> DEFINE left == {k \in KnownKeys : t <= attempts[k].reset}
<1>1. IsFiniteSet(KnownKeys) /\ left \in SUBSET KnownKeys
  BY DEF TypeInv
<1> HIDE DEF left
<1>2. IsFiniteSet(left) /\ Cardinality(left) <= Cardinality(KnownKeys)
      /\ Cardinality(left) \in Nat /\ Cardinality(KnownKeys) \in Nat
  BY <1>1, FS_Subset, FS_CardinalityType
<1>3. CASE Cardinality(left) < attemptsCap
  <2>1. room = Restrict(attempts, left)
    BY <1>3 DEF makeRoom, left
  <2> QED
    BY <1>1, <1>3, <2>1
<1>4. CASE ~(Cardinality(left) < attemptsCap)
  <2>1. PICK v \in left : room = Restrict(attempts, left \ {v})
    BY <1>4 DEF makeRoom, left
  <2>2. Cardinality(left \ {v}) = Cardinality(left) - 1
    BY <1>2, FS_RemoveElement
  <2>3. Cardinality(left \ {v}) < attemptsCap
    BY <1>2, <2>2, ConstantTypes
  <2> QED
    BY <1>1, <2>1, <2>3
<1> QED
  BY <1>3, <1>4

(* One call of Bump: some windows may go to make room, k's is bumped, the  *)
(* others stay as they are.                                                *)
LEMMA BumpEffect ==
    ASSUME TypeInv, Cardinality(KnownKeys) <= attemptsCap, NEW k \in Keys,
           NEW t \in Nat, NEW window \in Nat, Bump(k, t, window)
    PROVE  \E S \in SUBSET KnownKeys :
              /\ IsFiniteSet(S \cup {k}) /\ Cardinality(S \cup {k}) <= attemptsCap
              /\ attempts' = [x \in S \cup {k} |->
                                IF x = k THEN bumpWindow(At(attempts, k), t, window)
                                ELSE attempts[x]]
<1> DEFINE full == k \notin KnownKeys /\ Cardinality(KnownKeys) >= attemptsCap
<1>1. PICK room \in (IF full THEN makeRoom(t) ELSE {attempts}) :
         attempts' = [x \in DOMAIN room \cup {k} |->
                        IF x = k THEN bumpWindow(At(room, k), t, window) ELSE room[x]]
  BY Zenon DEF Bump
<1>2. IsFiniteSet(KnownKeys) /\ Cardinality(KnownKeys) \in Nat
  BY FS_CardinalityType DEF TypeInv
<1>3. CASE ~full
  <2>1. room = attempts
    BY <1>1, <1>3
  <2>2. attempts' = [x \in KnownKeys \cup {k} |->
                       IF x = k THEN bumpWindow(At(attempts, k), t, window) ELSE attempts[x]]
    BY <1>1, <2>1, Zenon DEF KnownKeys
  <2>3. IsFiniteSet(KnownKeys \cup {k})
    BY <1>2, FS_AddElement
  <2>4. Cardinality(KnownKeys \cup {k}) <= attemptsCap
    <3>1. CASE k \in KnownKeys
      <4>1. KnownKeys \cup {k} = KnownKeys
        BY <3>1
      <4> QED
        BY <4>1
    <3>2. CASE Cardinality(KnownKeys) < attemptsCap /\ k \notin KnownKeys
      <4>1. Cardinality(KnownKeys \cup {k}) = Cardinality(KnownKeys) + 1
        BY <1>2, <3>2, FS_AddElement
      <4> QED
        BY <1>2, <3>2, <4>1, ConstantTypes
    <3> QED
      BY <1>2, <1>3, <3>1, <3>2, ConstantTypes
  <2> QED
    BY <2>2, <2>3, <2>4
<1>4. CASE full
  <2>1. room \in makeRoom(t)
    BY <1>1, <1>4
  <2>2. PICK S \in SUBSET KnownKeys : room = Restrict(attempts, S) /\ Cardinality(S) < attemptsCap
    BY <2>1, RoomMade
  <2>3. DOMAIN room = S /\ \A x \in S : room[x] = attempts[x]
    BY <2>2 DEF Restrict
  <2>4. k \notin S /\ k \notin DOMAIN attempts
    BY <1>4 DEF KnownKeys
  <2>5. At(room, k) = At(attempts, k)
    BY <2>3, <2>4 DEF At
  <2>6. attempts' = [x \in S \cup {k} |->
                       IF x = k THEN bumpWindow(At(attempts, k), t, window) ELSE attempts[x]]
    BY <1>1, <2>3, <2>5
  <2>7. IsFiniteSet(S) /\ Cardinality(S) \in Nat
    BY <1>2, FS_Subset, FS_CardinalityType
  <2>8. IsFiniteSet(S \cup {k}) /\ Cardinality(S \cup {k}) = Cardinality(S) + 1
    BY <2>4, <2>7, FS_AddElement
  <2>9. Cardinality(S \cup {k}) <= attemptsCap
    BY <2>2, <2>7, <2>8, ConstantTypes
  <2> QED
    BY <2>6, <2>8, <2>9
<1> QED
  BY <1>3, <1>4

LEMMA BumpFacts ==
    ASSUME TypeInv, Cardinality(KnownKeys) <= attemptsCap, NEW k \in Keys,
           NEW t \in Nat, NEW window \in Nat, Bump(k, t, window)
    PROVE  /\ KnownKeys' \subseteq Keys /\ attempts' \in [KnownKeys' -> Window]
           /\ IsFiniteSet(KnownKeys') /\ Cardinality(KnownKeys') <= attemptsCap
           /\ At(attempts', k) = bumpWindow(At(attempts, k), t, window)
           /\ \A x : x # k => \/ At(attempts', x) = At(attempts, x)
                              \/ At(attempts', x) = ZeroWindow
<1>1. PICK S \in SUBSET KnownKeys :
        /\ IsFiniteSet(S \cup {k}) /\ Cardinality(S \cup {k}) <= attemptsCap
        /\ attempts' = [x \in S \cup {k} |->
                          IF x = k THEN bumpWindow(At(attempts, k), t, window) ELSE attempts[x]]
  BY BumpEffect
<1> DEFINE w == bumpWindow(At(attempts, k), t, window)
<1>2. w \in Window
  BY AtWindow, BumpedWindow DEF TypeInv
<1> HIDE DEF w
<1>3. attempts' = [x \in S \cup {k} |-> IF x = k THEN w ELSE attempts[x]]
  BY <1>1 DEF w
<1>4. KnownKeys' = S \cup {k}
  BY <1>3 DEF KnownKeys
<1>5. S \subseteq Keys /\ \A x \in S : attempts[x] \in Window
  BY DEF TypeInv, TypeOK
<1>6. attempts' \in [S \cup {k} -> Window]
  BY <1>2, <1>3, <1>5
<1>7. At(attempts', k) = w
  BY <1>3 DEF At
<1>8. ASSUME NEW x, x # k
      PROVE  At(attempts', x) = At(attempts, x) \/ At(attempts', x) = ZeroWindow
  <2>1. CASE x \in S
    <3>1. x \in DOMAIN attempts
      BY <2>1 DEF KnownKeys
    <3> QED
      BY <1>3, <1>8, <2>1, <3>1 DEF At
  <2>2. CASE x \notin S
    BY <1>3, <1>8, <2>2 DEF At
  <2> QED
    BY <2>1, <2>2
<1> QED
  BY <1>1, <1>4, <1>5, <1>6, <1>7, <1>8 DEF w

LEMMA ReadingFacts ==
    ASSUME TypeInv, NEW t \in ClockReadings
    PROVE  t \in Nat /\ t # 0 /\ t <= now /\ now <= t + 1
  BY DEF TypeInv, TypeOK, ClockReadings

-----------------------------------------------------------------------------
(***************************************************************************)
(* Requests in flight                                                      *)
(***************************************************************************)

LEMMA SignInFacts ==
    ASSUME NEW r \in SignIns
    PROVE  /\ r.sender \in Clients /\ r.client = OwnKey(r.sender)
           /\ r.client \in LimiterKeys /\ r.foreign = FALSE
<1>1. PICK c \in Clients :
        r \in [sender : {c}, client : KeysFor(c), foreign : {Foreign(page) : page \in SignInPages}]
  BY DEF SignIns
<1>2. r.sender = c /\ r.client \in KeysFor(c) /\ r.foreign \in {Foreign(page) : page \in SignInPages}
  BY <1>1, Zenon
<1>3. r.client = OwnKey(c)
  BY <1>2, CountedToOwnKey
<1>4. PICK page \in SignInPages : r.foreign = Foreign(page)
  BY <1>2
<1>5. ~Foreign(page)
  BY NoForeignPage
<1>6. r.foreign = FALSE
  <2>1. Foreign(page) = FALSE
    BY <1>5 DEF Foreign
  <2> QED
    BY <1>4, <2>1, Zenon
<1> QED
  BY <1>2, <1>3, <1>6, OwnKeyIsKey

LEMMA BusyJob ==
    ASSUME TypeInv, NEW h \in Handlers, hpc[h] # "idle"
    PROVE  /\ job[h] \in Job /\ job[h].client \in LimiterKeys /\ job[h].salt \in Salts
           /\ job[h].sender \in Clients
<1>1. job[h] \in Job
  BY DEF TypeInv, TypeOK, Job
<1> QED
  BY <1>1 DEF Job

HandlersOK ==
    /\ hpc \in [Handlers -> States]
    /\ job \in [Handlers -> Job \cup {NoJob}]
    /\ \A h \in Handlers : job[h] \in IF hpc[h] = "idle" THEN {NoJob} ELSE Job

LEMMA HandlersTyped == ASSUME TypeInv PROVE HandlersOK
  BY DEF TypeInv, TypeOK, HandlersOK, Job

LEMMA AnsweredFacts ==
    ASSUME HandlersOK, NEW h \in Handlers, Answered(h)
    PROVE  /\ HandlersOK'
           /\ hpc'[h] = "idle"
           /\ \A g \in Handlers : g # h => hpc'[g] = hpc[g] /\ job'[g] = job[g]
<1>1. /\ hpc'[h] = "idle" /\ job'[h] = NoJob
      /\ \A g \in Handlers : g # h => hpc'[g] = hpc[g] /\ job'[g] = job[g]
  BY DEF HandlersOK, Answered
<1>2. hpc' \in [Handlers -> States] /\ job' \in [Handlers -> Job \cup {NoJob}]
  BY DEF HandlersOK, Answered, States
<1>3. \A g \in Handlers : job'[g] \in IF hpc'[g] = "idle" THEN {NoJob} ELSE Job
  BY <1>1 DEF HandlersOK
<1> QED
  BY <1>1, <1>2, <1>3 DEF HandlersOK

LEMMA ReachesFacts ==
    ASSUME HandlersOK, NEW h \in Handlers, hpc[h] # "idle",
           NEW state \in States, state # "idle", Reaches(h, state)
    PROVE  /\ HandlersOK'
           /\ hpc'[h] = state /\ job' = job
           /\ \A g \in Handlers : g # h => hpc'[g] = hpc[g]
<1>1. /\ hpc'[h] = state /\ job' = job
      /\ \A g \in Handlers : g # h => hpc'[g] = hpc[g]
  BY DEF HandlersOK, Reaches
<1>2. hpc' \in [Handlers -> States]
  BY DEF HandlersOK, Reaches
<1>3. \A g \in Handlers : job'[g] \in IF hpc'[g] = "idle" THEN {NoJob} ELSE Job
  BY <1>1 DEF HandlersOK
<1> QED
  BY <1>1, <1>2, <1>3 DEF HandlersOK

(* A request that passes the client window starts with the job it is given. *)
LEMMA StartedFacts ==
    ASSUME HandlersOK, NEW h \in Handlers, NEW j \in Job,
           hpc' = [hpc EXCEPT ![h] = "gated"], job' = [job EXCEPT ![h] = j]
    PROVE  /\ HandlersOK'
           /\ hpc'[h] = "gated" /\ job'[h] = j
           /\ \A g \in Handlers : g # h => hpc'[g] = hpc[g] /\ job'[g] = job[g]
<1>1. /\ hpc'[h] = "gated" /\ job'[h] = j
      /\ \A g \in Handlers : g # h => hpc'[g] = hpc[g] /\ job'[g] = job[g]
  BY DEF HandlersOK
<1>2. hpc' \in [Handlers -> States] /\ job' \in [Handlers -> Job \cup {NoJob}]
  BY DEF HandlersOK, States
<1>3. \A g \in Handlers : job'[g] \in IF hpc'[g] = "idle" THEN {NoJob} ELSE Job
  BY <1>1 DEF HandlersOK
<1> QED
  BY <1>1, <1>2, <1>3 DEF HandlersOK

(* What each step makes of the handlers: nothing, all of them at rest, or  *)
(* one of them answered, moved on or started.                              *)
Starts(h) == \E r \in SignIns, s \in Salts :
    /\ challenge[s] # 0
    /\ hpc[h] = "idle" /\ hpc' = [hpc EXCEPT ![h] = "gated"]
    /\ job' = [job EXCEPT ![h] = [sender |-> r.sender, client |-> r.client,
                                  foreign |-> r.foreign, salt |-> s]]

LEMMA StartsFacts ==
    ASSUME HandlersOK, NEW h \in Handlers, Starts(h)
    PROVE  /\ HandlersOK'
           /\ hpc'[h] = "gated"
           /\ \E s \in Salts : challenge[s] # 0 /\ job'[h].salt = s
           /\ job'[h].client = OwnKey(job'[h].sender) /\ job'[h].foreign = FALSE
           /\ \A g \in Handlers : g # h => hpc'[g] = hpc[g] /\ job'[g] = job[g]
<1>1. PICK r \in SignIns, s \in Salts :
        /\ challenge[s] # 0
        /\ hpc[h] = "idle" /\ hpc' = [hpc EXCEPT ![h] = "gated"]
        /\ job' = [job EXCEPT ![h] = [sender |-> r.sender, client |-> r.client,
                                      foreign |-> r.foreign, salt |-> s]]
  BY Zenon DEF Starts
<1> DEFINE j == [sender |-> r.sender, client |-> r.client, foreign |-> r.foreign, salt |-> s]
<1>2. /\ r.sender \in Clients /\ r.client = OwnKey(r.sender)
      /\ r.client \in LimiterKeys /\ r.foreign = FALSE
  BY SignInFacts
<1>3. j \in Job
  BY <1>2 DEF Job
<1>4. j.salt = s /\ j.client = OwnKey(j.sender) /\ j.foreign = FALSE
  BY <1>2
<1>5. job' = [job EXCEPT ![h] = j]
  BY <1>1
<1> HIDE DEF j
<1>6. /\ HandlersOK' /\ hpc'[h] = "gated" /\ job'[h] = j
      /\ \A g \in Handlers : g # h => hpc'[g] = hpc[g] /\ job'[g] = job[g]
  BY <1>1, <1>3, <1>5, StartedFacts
<1> QED
  BY <1>1, <1>4, <1>6, Zenon

Moves(h) == \/ Answered(h)
            \/ \E state \in States : state # "idle" /\ hpc[h] # "idle" /\ Reaches(h, state)
            \/ Starts(h)

AllAtRest == hpc' = [h \in Handlers |-> "idle"] /\ job' = [h \in Handlers |-> NoJob]

(* A request that the client window lets through starts its handler. *)
LEMMA ClientWindowStarts ==
    ASSUME NEW h \in Handlers, ClientWindow(h)
    PROVE  UNCHANGED handlers \/ Starts(h)
<1>1. PICK r \in SignIns, s \in Salts, t \in ClockReadings :
         /\ challenge[s] # 0
         /\ Bump(<<"login", r.client>>, t, clientWindow)
         /\ IF attempts'[<<"login", r.client>>].count <= clientLimit
            THEN /\ hpc' = [hpc EXCEPT ![h] = "gated"]
                 /\ job' = [job EXCEPT ![h] = [sender |-> r.sender, client |-> r.client,
                                               foreign |-> r.foreign, salt |-> s]]
            ELSE UNCHANGED handlers
  BY Zenon DEF ClientWindow
<1>2. hpc[h] = "idle"
  BY DEF ClientWindow
<1>3. CASE attempts'[<<"login", r.client>>].count <= clientLimit
  <2>1. /\ hpc' = [hpc EXCEPT ![h] = "gated"]
        /\ job' = [job EXCEPT ![h] = [sender |-> r.sender, client |-> r.client,
                                      foreign |-> r.foreign, salt |-> s]]
    BY <1>1, <1>3, Zenon
  <2> QED
    BY <1>1, <1>2, <2>1, Zenon DEF Starts
<1>4. CASE ~(attempts'[<<"login", r.client>>].count <= clientLimit)
  BY <1>1, <1>4, Zenon
<1> QED
  BY <1>3, <1>4

LEMMA HandlerSteps ==
    ASSUME [Next]_vars
    PROVE  UNCHANGED handlers \/ AllAtRest \/ \E h \in Handlers : Moves(h)
<1>1. CASE UNCHANGED vars
  BY <1>1 DEF vars, handlers
<1>2. CASE Tick
  BY <1>2 DEF Tick, handlers
<1>3. CASE Restart
  BY <1>3 DEF Restart, AllAtRest
<1>4. CASE \E s \in Salts : GeneratePoWChallenge(s)
  BY <1>4 DEF GeneratePoWChallenge, handlers
<1>5. ASSUME NEW h \in Handlers, ClientWindow(h)
      PROVE  UNCHANGED handlers \/ Starts(h)
  BY <1>5, ClientWindowStarts
<1>6. ASSUME NEW h \in Handlers, CheckSolution(h)
      PROVE  Moves(h)
  BY <1>6 DEF CheckSolution, Moves, States
<1>7. ASSUME NEW h \in Handlers, spend(h)
      PROVE  Moves(h)
  <2>1. Answered(h) \/ (hpc[h] = "solved" /\ Reaches(h, "spent"))
    BY <1>7, Zenon DEF spend
  <2> QED
    BY <2>1 DEF Moves, States
<1>8. ASSUME NEW h \in Handlers, AccountWindow(h)
      PROVE  Moves(h)
  <2>1. Answered(h) \/ (hpc[h] = "spent" /\ Reaches(h, "hashing"))
    BY <1>8, Zenon DEF AccountWindow
  <2> QED
    BY <2>1 DEF Moves, States
<1>9. ASSUME NEW h \in Handlers, WrongPassword(h) \/ RightPassword(h)
      PROVE  Moves(h)
  BY <1>9 DEF WrongPassword, RightPassword, Moves
<1> QED
  BY <1>1, <1>2, <1>3, <1>4, <1>5, <1>6, <1>7, <1>8, <1>9, Zenon DEF Next, HandleLogin, Moves

(* A puzzle that was handed out stays so. *)
LEMMA ChallengesStay ==
    ASSUME TypeInv, [Next]_vars
    PROVE  /\ challenge' \in [Salts -> Nat]
           /\ \A s \in Salts : challenge[s] # 0 => challenge'[s] = challenge[s]
<1>1. challenge \in [Salts -> Nat] /\ now \in Nat
  BY DEF TypeInv, TypeOK
<1>2. CASE UNCHANGED challenge
  BY <1>1, <1>2
<1>3. ASSUME NEW s \in Salts, GeneratePoWChallenge(s)
      PROVE  /\ challenge' \in [Salts -> Nat]
             /\ \A x \in Salts : challenge[x] # 0 => challenge'[x] = challenge[x]
  BY <1>1, <1>3, ConstantTypes DEF GeneratePoWChallenge
<1> QED
  BY <1>2, <1>3 DEF Next, vars, Tick, Restart, HandleLogin, ClientWindow, CheckSolution,
                    spend, AccountWindow, WrongPassword, RightPassword

(* The handlers keep their types, are counted to their senders, come from  *)
(* no other site's page and hold puzzles that were handed out.             *)
LEMMA RequestsStep ==
    ASSUME TypeInv, SenderInv, SpentInv, [Next]_vars
    PROVE  /\ HandlersOK' /\ SenderInv'
           /\ \A h \in SigningIn' : challenge'[job'[h].salt] # 0
<1>1. HandlersOK
  BY HandlersTyped
<1>2. \A s \in Salts : challenge[s] # 0 => challenge'[s] # 0
  BY ChallengesStay
<1>3. ASSUME NEW g \in Handlers, hpc'[g] # "idle", hpc[g] # "idle", job'[g] = job[g]
      PROVE  /\ job'[g].client = OwnKey(job'[g].sender) /\ ~job'[g].foreign
             /\ challenge'[job'[g].salt] # 0
  <2>1. job[g].salt \in Salts
    BY <1>3, BusyJob
  <2>2. g \in SigningIn
    BY <1>3 DEF SigningIn
  <2>3. challenge[job[g].salt] # 0
    BY <2>2 DEF SpentInv
  <2>4. challenge'[job[g].salt] # 0
    BY <1>2, <2>1, <2>3
  <2>5. job[g].client = OwnKey(job[g].sender) /\ ~job[g].foreign
    BY <2>2, Zenon DEF SenderInv
  <2> QED
    BY <1>3, <2>4, <2>5, Zenon
<1> DEFINE Good(g) == hpc'[g] # "idle" =>
                        /\ job'[g].client = OwnKey(job'[g].sender) /\ ~job'[g].foreign
                        /\ challenge'[job'[g].salt] # 0
<1>4. ASSUME NEW g \in Handlers, hpc[g] # "idle" \/ hpc'[g] = "idle", job'[g] = job[g]
      PROVE  Good(g)
  BY <1>3, <1>4, Zenon
<1>5. CASE UNCHANGED handlers
  <2>1. hpc' = hpc /\ job' = job
    BY <1>5 DEF handlers
  <2>2. HandlersOK'
    BY <1>1, <2>1, Zenon DEF HandlersOK
  <2>3. \A g \in Handlers : Good(g)
    BY <1>4, <2>1, Zenon
  <2> QED
    BY <2>2, <2>3, Zenon DEF SenderInv, SigningIn
<1>6. CASE AllAtRest
  <2>1. HandlersOK'
    BY <1>6 DEF AllAtRest, HandlersOK, States
  <2>2. \A g \in Handlers : hpc'[g] = "idle"
    BY <1>6 DEF AllAtRest
  <2> QED
    BY <2>1, <2>2, Zenon DEF SenderInv, SigningIn
<1>7. ASSUME NEW h \in Handlers, Moves(h)
      PROVE  HandlersOK' /\ \A g \in Handlers : Good(g)
  <2>1. CASE Answered(h)
    <3>1. /\ HandlersOK' /\ hpc'[h] = "idle"
          /\ \A g \in Handlers : g # h => hpc'[g] = hpc[g] /\ job'[g] = job[g]
      BY <1>1, <2>1, AnsweredFacts
    <3> QED
      BY <1>4, <3>1, Zenon
  <2>2. ASSUME NEW state \in States, state # "idle", hpc[h] # "idle", Reaches(h, state)
        PROVE  HandlersOK' /\ \A g \in Handlers : Good(g)
    <3>1. /\ HandlersOK' /\ job' = job
          /\ \A g \in Handlers : g # h => hpc'[g] = hpc[g]
      BY <1>1, <2>2, ReachesFacts
    <3> QED
      BY <1>4, <2>2, <3>1, Zenon
  <2>3. CASE Starts(h)
    <3>1. /\ HandlersOK'
          /\ \E s \in Salts : challenge[s] # 0 /\ job'[h].salt = s
          /\ job'[h].client = OwnKey(job'[h].sender) /\ job'[h].foreign = FALSE
          /\ \A g \in Handlers : g # h => hpc'[g] = hpc[g] /\ job'[g] = job[g]
      BY <1>1, <2>3, StartsFacts, Zenon
    <3>2. challenge'[job'[h].salt] # 0
      BY <1>2, <3>1
    <3>3. Good(h)
      BY <3>1, <3>2, Zenon
    <3> QED
      BY <1>4, <3>1, <3>3, Zenon
  <2> QED
    BY <1>7, <2>1, <2>2, <2>3, Zenon DEF Moves
<1>8. CASE \E h \in Handlers : Moves(h)
  BY <1>7, <1>8, Zenon DEF SenderInv, SigningIn
<1> QED
  BY <1>5, <1>6, <1>8, HandlerSteps

-----------------------------------------------------------------------------
(***************************************************************************)
(* The tables                                                              *)
(***************************************************************************)

(* The key a sign-in is counted to, and the account's. *)
LEMMA KeyTypes ==
    ASSUME NEW c \in LimiterKeys
    PROVE  <<"login", c>> \in Keys /\ AccountKey(c) \in Keys
  BY DEF Keys, AccountKey

LEMMA AttemptsSteps ==
    ASSUME TypeInv, [Next]_vars
    PROVE  \/ UNCHANGED attempts
           \/ attempts' = <<>>
           \/ \E k \in Keys, t \in ClockReadings, w \in Nat : Bump(k, t, w)
<1> DEFINE Bumped == \E k \in Keys, t \in ClockReadings, w \in Nat : Bump(k, t, w)
<1>1. ASSUME NEW h \in Handlers, ClientWindow(h) PROVE Bumped
  <2>1. PICK r \in SignIns, t \in ClockReadings : Bump(<<"login", r.client>>, t, clientWindow)
    BY <1>1, Zenon DEF ClientWindow
  <2>2. <<"login", r.client>> \in Keys
    BY SignInFacts, KeyTypes
  <2> QED
    BY <2>1, <2>2, ConstantTypes
<1>2. ASSUME NEW h \in Handlers, WrongPassword(h) PROVE Bumped
  <2>1. PICK t \in ClockReadings : Bump(AccountKey(job[h].client), t, loginAccountWindow)
    BY <1>2, Zenon DEF WrongPassword, AccountKey
  <2>2. hpc[h] # "idle"
    BY <1>2 DEF WrongPassword
  <2>3. AccountKey(job[h].client) \in Keys
    BY <2>2, BusyJob, KeyTypes
  <2> QED
    BY <2>1, <2>3, ConstantTypes
<1>3. CASE Restart
  BY <1>3 DEF Restart
<1>4. ASSUME NEW h \in Handlers,
             CheckSolution(h) \/ spend(h) \/ AccountWindow(h) \/ RightPassword(h)
      PROVE  UNCHANGED attempts
  BY <1>4 DEF CheckSolution, spend, AccountWindow, RightPassword, table
<1>5. CASE Tick \/ UNCHANGED vars \/ \E s \in Salts : GeneratePoWChallenge(s)
  BY <1>5 DEF Tick, GeneratePoWChallenge, vars, table
<1> QED
  BY <1>1, <1>2, <1>3, <1>4, <1>5, Zenon DEF Next, HandleLogin

LEMMA AttemptsStep ==
    ASSUME TypeInv, TablesBounded, [Next]_vars
    PROVE  /\ KnownKeys' \subseteq Keys /\ attempts' \in [KnownKeys' -> Window]
           /\ IsFiniteSet(KnownKeys') /\ Cardinality(KnownKeys') <= attemptsCap
<1>1. Cardinality(KnownKeys) <= attemptsCap
  BY DEF TablesBounded
<1>2. CASE UNCHANGED attempts
  <2>1. KnownKeys' = KnownKeys
    BY <1>2 DEF KnownKeys
  <2> QED
    BY <1>1, <1>2, <2>1 DEF TypeInv, TypeOK
<1>3. CASE attempts' = <<>>
  <2>1. KnownKeys' = {}
    BY <1>3 DEF KnownKeys
  <2>2. attempts' \in [{} -> Window]
    BY <1>3
  <2>3. IsFiniteSet({}) /\ Cardinality({}) = 0
    BY FS_EmptySet
  <2> QED
    BY <2>1, <2>2, <2>3, ConstantTypes
<1>4. ASSUME NEW k \in Keys, NEW t \in ClockReadings, NEW w \in Nat, Bump(k, t, w)
      PROVE  /\ KnownKeys' \subseteq Keys /\ attempts' \in [KnownKeys' -> Window]
             /\ IsFiniteSet(KnownKeys') /\ Cardinality(KnownKeys') <= attemptsCap
  <2>1. t \in Nat
    BY ReadingFacts
  <2> QED
    BY <1>1, <1>4, <2>1, BumpFacts
<1> QED
  BY <1>2, <1>3, <1>4, AttemptsSteps

(* What spend makes of the spent set, and of the count of acceptances. *)
Spends(s) ==
    /\ s \in Salts /\ challenge[s] # 0 /\ ~(salts[s] # 0 /\ salts[s] >= now)
    /\ UNCHANGED <<now, challenge>>
    /\ accepted' = [accepted EXCEPT ![s] = CountAcceptance(s)]
    /\ \E kept \in {salts, pruned(now)} :
          /\ salts' = [kept EXCEPT ![s] = challenge[s]]
          /\ IF kept = salts /\ Cardinality(Held) < pruneAt
             THEN pruneAt' = pruneAt
             ELSE LET n == Cardinality({x \in Salts : kept[x] # 0})
                  IN  pruneAt' = IF 2 * n > PruneMin THEN 2 * n ELSE PruneMin

LEMMA SpentSteps ==
    ASSUME TypeInv, SpentInv, [Next]_vars
    PROVE  \/ UNCHANGED spent
           \/ /\ salts' = [s \in Salts |-> 0] /\ accepted' = [s \in Salts |-> 0]
              /\ pruneAt' = PruneMin
           \/ \E s \in Salts : Spends(s)
<1>1. ASSUME NEW h \in Handlers, spend(h)
      PROVE  UNCHANGED spent \/ Spends(job[h].salt)
  <2> DEFINE s == job[h].salt
             full == Cardinality(Held) >= pruneAt
             kept == IF full THEN pruned(now) ELSE salts
             n == Cardinality({x \in Salts : kept[x] # 0})
  <2>1. CASE salts[s] # 0 /\ salts[s] >= now
    BY <1>1, <2>1, Zenon DEF spend
  <2>2. CASE ~(salts[s] # 0 /\ salts[s] >= now)
    <3>1. /\ pruneAt' = IF ~full THEN pruneAt ELSE IF 2 * n > PruneMin THEN 2 * n ELSE PruneMin
          /\ salts' = [kept EXCEPT ![s] = challenge[s]]
          /\ accepted' = [accepted EXCEPT ![s] = CountAcceptance(s)]
          /\ UNCHANGED <<now, challenge>>
      BY <1>1, <2>2, Zenon DEF spend
    <3>2. hpc[h] # "idle" /\ h \in SigningIn
      BY <1>1 DEF spend, SigningIn
    <3>3. s \in Salts /\ challenge[s] # 0
      BY <3>2, BusyJob DEF SpentInv
    <3>4. pruneAt \in Nat /\ Cardinality(Held) \in Nat
      <4>1. IsFiniteSet(Held)
        BY ConstantTypes, FS_Subset DEF Held
      <4> QED
        BY <4>1, FS_CardinalityType DEF TypeInv, TypeOK
    <3> HIDE DEF s
    <3>5. CASE full
      <4>1. kept = pruned(now) /\ ~(Cardinality(Held) < pruneAt)
        BY <3>4, <3>5
      <4> HIDE DEF kept
      <4> QED
        BY <2>2, <3>1, <3>3, <3>5, <4>1, Zenon DEF Spends, s
    <3>6. CASE ~full
      <4>1. kept = salts /\ Cardinality(Held) < pruneAt
        BY <3>4, <3>6
      <4> HIDE DEF kept
      <4> QED
        BY <2>2, <3>1, <3>3, <3>6, <4>1, Zenon DEF Spends, s
    <3> QED
      BY <3>5, <3>6
  <2> QED
    BY <2>1, <2>2
<1>2. ASSUME NEW h \in Handlers,
             \/ CheckSolution(h) \/ ClientWindow(h) \/ AccountWindow(h)
             \/ RightPassword(h) \/ WrongPassword(h)
      PROVE  UNCHANGED spent
  BY <1>2 DEF CheckSolution, ClientWindow, AccountWindow, RightPassword, WrongPassword
<1>3. CASE Tick \/ UNCHANGED vars \/ \E s \in Salts : GeneratePoWChallenge(s)
  BY <1>3 DEF Tick, GeneratePoWChallenge, vars
<1>4. CASE Restart
  BY <1>4 DEF Restart
<1>5. ASSUME NEW s, Spends(s) PROVE s \in Salts
  BY <1>5 DEF Spends
<1> QED
  BY <1>1, <1>2, <1>3, <1>4, <1>5, Zenon DEF Next, HandleLogin

(* An acceptance is counted while the puzzle is valid, and then for the    *)
(* first time; the pruned set and the new entry still fit under pruneAt.   *)
LEMMA SpendsFacts ==
    ASSUME TypeInv, TablesBounded, SpentInv, NEW s \in Salts, Spends(s)
    PROVE  /\ salts' \in [Salts -> Nat] /\ accepted' \in [Salts -> Nat] /\ pruneAt' \in Nat
           /\ Cardinality(Held') <= pruneAt'
           /\ \A x \in Salts : /\ accepted'[x] <= 1
                               /\ accepted'[x] # 0 => /\ challenge[x] # 0
                                                      /\ challenge[x] < now \/ salts'[x] = challenge[x]
<1>1. /\ salts \in [Salts -> Nat] /\ accepted \in [Salts -> Nat] /\ challenge \in [Salts -> Nat]
      /\ pruneAt \in Nat /\ now \in Nat
  BY DEF TypeInv, TypeOK
<1>2. PICK kept \in {salts, pruned(now)} :
          /\ salts' = [kept EXCEPT ![s] = challenge[s]]
          /\ IF kept = salts /\ Cardinality(Held) < pruneAt
             THEN pruneAt' = pruneAt
             ELSE LET n == Cardinality({x \in Salts : kept[x] # 0})
                  IN  pruneAt' = IF 2 * n > PruneMin THEN 2 * n ELSE PruneMin
  BY DEF Spends
<1>3. /\ kept \in [Salts -> Nat]
      /\ \A x \in Salts : kept[x] = salts[x] \/ (kept[x] = 0 /\ salts[x] < now)
  BY <1>1, <1>2 DEF pruned
<1>4. /\ challenge[s] # 0 /\ ~(salts[s] # 0 /\ salts[s] >= now)
      /\ accepted' = [accepted EXCEPT ![s] = CountAcceptance(s)]
  BY DEF Spends
<1>5. /\ salts' \in [Salts -> Nat] /\ salts'[s] = challenge[s]
      /\ \A x \in Salts : x # s => salts'[x] = kept[x]
  BY <1>1, <1>2, <1>3
<1> DEFINE K == {x \in Salts : kept[x] # 0}
           n == Cardinality(K)
<1>6. IsFiniteSet(K) /\ n \in Nat /\ IsFiniteSet(Held) /\ Cardinality(Held) \in Nat
  <2>1. IsFiniteSet(K) /\ IsFiniteSet(Held)
    BY ConstantTypes, FS_Subset DEF Held
  <2> QED
    BY <2>1, FS_CardinalityType
<1>7. Cardinality(Held') <= n + 1 /\ Cardinality(Held') \in Nat
  <2>1. Held' \subseteq K \cup {s}
    BY <1>5 DEF Held
  <2>2. IsFiniteSet(K \cup {s}) /\ Cardinality(K \cup {s}) \in {n, n + 1}
    BY <1>6, FS_AddElement
  <2>3. IsFiniteSet(Held') /\ Cardinality(Held') <= Cardinality(K \cup {s})
    BY <2>1, <2>2, FS_Subset
  <2>4. Cardinality(Held') \in Nat
    BY <2>3, FS_CardinalityType
  <2> QED
    BY <1>6, <2>2, <2>3, <2>4
<1>8. pruneAt' \in Nat /\ Cardinality(Held') <= pruneAt'
  <2>1. CASE kept = salts /\ Cardinality(Held) < pruneAt
    <3>1. pruneAt' = pruneAt
      BY <1>2, <2>1
    <3>2. K = Held
      BY <2>1 DEF Held
    <3> QED
      BY <1>1, <1>6, <1>7, <2>1, <3>1, <3>2
  <2>2. CASE ~(kept = salts /\ Cardinality(Held) < pruneAt)
    <3>1. pruneAt' = IF 2 * n > PruneMin THEN 2 * n ELSE PruneMin
      BY <1>2, <2>2, Zenon
    <3> HIDE DEF n
    <3>2. pruneAt' \in Nat /\ pruneAt' >= 2 * n /\ pruneAt' >= 1
      BY <1>6, <3>1, ConstantTypes
    <3> QED
      BY <1>6, <1>7, <3>2
  <2> QED
    BY <2>1, <2>2
<1>9. /\ accepted[s] \in Nat /\ accepted[s] <= 1
      /\ accepted[s] # 0 => challenge[s] < now \/ salts[s] = challenge[s]
  BY <1>1 DEF SpentInv, SpentOnceWhileValid
<1>10. CountAcceptance(s) \in Nat /\ CountAcceptance(s) <= 1
  <2>1. CASE now <= challenge[s]
    <3>1. accepted[s] = 0
      BY <1>1, <1>4, <1>9, <2>1
    <3>2. CountAcceptance(s) = 0 + 1
      BY <2>1, <3>1, Zenon DEF CountAcceptance
    <3> QED
      BY <3>2
  <2>2. CASE ~(now <= challenge[s])
    <3>1. CountAcceptance(s) = accepted[s] + 0
      BY <2>2, Zenon DEF CountAcceptance
    <3> QED
      BY <1>9, <3>1
  <2> QED
    BY <2>1, <2>2
<1>11. /\ accepted' \in [Salts -> Nat] /\ accepted'[s] = CountAcceptance(s)
       /\ \A x \in Salts : x # s => accepted'[x] = accepted[x]
  BY <1>1, <1>4, <1>10
<1>12. ASSUME NEW x \in Salts
       PROVE  /\ accepted'[x] <= 1
              /\ accepted'[x] # 0 => /\ challenge[x] # 0
                                     /\ challenge[x] < now \/ salts'[x] = challenge[x]
  <2>1. CASE x = s
    BY <1>4, <1>5, <1>10, <1>11, <2>1
  <2>2. CASE x # s
    <3>1. /\ accepted[x] <= 1
          /\ accepted[x] # 0 => challenge[x] # 0 /\ (challenge[x] < now \/ salts[x] = challenge[x])
      BY DEF SpentInv, SpentOnceWhileValid
    <3>2. accepted'[x] = accepted[x] /\ salts'[x] = kept[x]
      BY <1>5, <1>11, <2>2
    <3>3. kept[x] = salts[x] \/ salts[x] < now
      BY <1>3
    <3> QED
      BY <3>1, <3>2, <3>3
  <2> QED
    BY <2>1, <2>2
<1> QED
  BY <1>5, <1>8, <1>11, <1>12

LEMMA ClockStep ==
    ASSUME TypeInv, [Next]_vars
    PROVE  now' \in Nat /\ now' # 0 /\ now' >= now
<1>1. now \in Nat /\ now # 0
  BY DEF TypeInv, TypeOK
<1>2. CASE UNCHANGED now
  BY <1>1, <1>2
<1>3. CASE Tick
  BY <1>1, <1>3 DEF Tick
<1> QED
  BY <1>2, <1>3 DEF Next, vars, GeneratePoWChallenge, Restart, HandleLogin, ClientWindow,
                    CheckSolution, spend, AccountWindow, WrongPassword, RightPassword

LEMMA SpentStep ==
    ASSUME TypeInv, TablesBounded, SpentInv, SenderInv, [Next]_vars
    PROVE  /\ salts' \in [Salts -> Nat] /\ accepted' \in [Salts -> Nat] /\ pruneAt' \in Nat
           /\ Cardinality(Held') <= pruneAt'
           /\ SpentInv'
<1>1. /\ salts \in [Salts -> Nat] /\ accepted \in [Salts -> Nat] /\ challenge \in [Salts -> Nat]
      /\ pruneAt \in Nat /\ now \in Nat
  BY DEF TypeInv, TypeOK
<1>2. /\ challenge' \in [Salts -> Nat]
      /\ \A x \in Salts : challenge[x] # 0 => challenge'[x] = challenge[x]
  BY ChallengesStay
<1>3. now' \in Nat /\ now' >= now
  BY ClockStep
<1>4. \A h \in SigningIn' : challenge'[job'[h].salt] # 0
  BY RequestsStep
<1>5. ASSUME /\ salts' \in [Salts -> Nat] /\ accepted' \in [Salts -> Nat]
             /\ \A x \in Salts : /\ accepted'[x] <= 1
                                 /\ accepted'[x] # 0 =>
                                      /\ challenge[x] # 0
                                      /\ challenge[x] < now \/ salts'[x] = challenge[x]
      PROVE  SpentInv'
  <2>1. ASSUME NEW x \in Salts, accepted'[x] # 0
        PROVE  challenge'[x] # 0 /\ (challenge'[x] < now' \/ salts'[x] = challenge'[x])
    BY <1>1, <1>2, <1>3, <1>5, <2>1
  <2>2. SpentOnceWhileValid'
    BY <1>5 DEF SpentOnceWhileValid
  <2> QED
    BY <1>4, <2>1, <2>2, Zenon DEF SpentInv
<1>6. CASE UNCHANGED spent
  <2>1. salts' = salts /\ pruneAt' = pruneAt /\ accepted' = accepted
    BY <1>6 DEF spent
  <2>2. Held' = Held
    BY <2>1 DEF Held
  <2>3. \A x \in Salts : /\ accepted[x] <= 1
                         /\ accepted[x] # 0 => /\ challenge[x] # 0
                                               /\ challenge[x] < now \/ salts[x] = challenge[x]
    BY DEF SpentInv, SpentOnceWhileValid
  <2>4. SpentInv'
    BY <1>1, <1>5, <2>1, <2>3
  <2> QED
    BY <1>1, <2>1, <2>2, <2>4 DEF TablesBounded
<1>7. CASE /\ salts' = [s \in Salts |-> 0] /\ accepted' = [s \in Salts |-> 0]
           /\ pruneAt' = PruneMin
  <2>1. Held' = {}
    BY <1>7 DEF Held
  <2>2. Cardinality(Held') = 0
    BY <2>1, FS_EmptySet
  <2>3. SpentInv'
    BY <1>5, <1>7
  <2> QED
    BY <1>7, <2>2, <2>3, ConstantTypes
<1>8. ASSUME NEW s \in Salts, Spends(s)
      PROVE  /\ salts' \in [Salts -> Nat] /\ accepted' \in [Salts -> Nat] /\ pruneAt' \in Nat
             /\ Cardinality(Held') <= pruneAt'
             /\ SpentInv'
  BY <1>5, <1>8, SpendsFacts
<1> QED
  BY <1>6, <1>7, <1>8, SpentSteps

-----------------------------------------------------------------------------
(***************************************************************************)
(* Guesses                                                                 *)
(***************************************************************************)

LEMMA HashingCount ==
    ASSUME NEW c
    PROVE  /\ HashingFor(c) \subseteq Handlers /\ HashingFor(c)' \subseteq Handlers
           /\ IsFiniteSet(HashingFor(c)) /\ IsFiniteSet(HashingFor(c)')
           /\ Cardinality(HashingFor(c)) \in Nat /\ Cardinality(HashingFor(c)') \in Nat
           /\ Cardinality(Handlers) \in Nat
           /\ Cardinality(HashingFor(c)') <= Cardinality(Handlers)
<1>1. HashingFor(c) \subseteq Handlers /\ HashingFor(c)' \subseteq Handlers
  BY DEF HashingFor
<1>2. IsFiniteSet(HashingFor(c)) /\ IsFiniteSet(HashingFor(c)')
      /\ Cardinality(HashingFor(c)') <= Cardinality(Handlers)
  BY <1>1, ConstantTypes, FS_Subset
<1> QED
  BY <1>1, <1>2, ConstantTypes, FS_CardinalityType

(* Only a request that passes the account's window starts hashing. *)
LEMMA HashingSteps ==
    ASSUME TypeInv, [Next]_vars, NEW c
    PROVE  \/ HashingFor(c)' \subseteq HashingFor(c)
           \/ \E h \in Handlers : AccountWindow(h) /\ Reaches(h, "hashing")
<1>1. HandlersOK
  BY HandlersTyped
<1>2. ASSUME NEW h \in Handlers, Answered(h)
      PROVE  HashingFor(c)' \subseteq HashingFor(c)
  BY <1>1, <1>2, AnsweredFacts DEF HashingFor
<1>3. ASSUME NEW h \in Handlers, Starts(h)
      PROVE  HashingFor(c)' \subseteq HashingFor(c)
  <2>1. /\ hpc'[h] = "gated"
        /\ \A g \in Handlers : g # h => hpc'[g] = hpc[g] /\ job'[g] = job[g]
    BY <1>1, <1>3, StartsFacts, Zenon
  <2> QED
    BY <2>1 DEF HashingFor
<1>4. ASSUME NEW h \in Handlers, NEW state \in States, state # "idle", state # "hashing",
             hpc[h] # "idle", Reaches(h, state)
      PROVE  HashingFor(c)' \subseteq HashingFor(c)
  <2>1. /\ hpc'[h] = state /\ job' = job
        /\ \A g \in Handlers : g # h => hpc'[g] = hpc[g]
    BY <1>1, <1>4, ReachesFacts
  <2> QED
    BY <1>4, <2>1 DEF HashingFor
<1>5. ASSUME UNCHANGED handlers PROVE HashingFor(c)' \subseteq HashingFor(c)
  BY <1>5 DEF handlers, HashingFor
<1>6. CASE Restart
  BY <1>6 DEF Restart, HashingFor
<1>7. ASSUME NEW h \in Handlers, CheckSolution(h)
      PROVE  Answered(h) \/ (hpc[h] # "idle" /\ Reaches(h, "solved"))
  BY <1>7 DEF CheckSolution
<1>8. ASSUME NEW h \in Handlers, spend(h)
      PROVE  Answered(h) \/ (hpc[h] # "idle" /\ Reaches(h, "spent"))
  <2>1. Answered(h) \/ (hpc[h] = "solved" /\ Reaches(h, "spent"))
    BY <1>8, Zenon DEF spend
  <2> QED
    BY <2>1
<1>9. ASSUME NEW h \in Handlers, AccountWindow(h)
      PROVE  Answered(h) \/ Reaches(h, "hashing")
  BY <1>9, Zenon DEF AccountWindow
<1>10. ASSUME NEW h \in Handlers, WrongPassword(h) \/ RightPassword(h)
       PROVE  Answered(h)
  BY <1>10 DEF WrongPassword, RightPassword
<1>11. ASSUME NEW h \in Handlers, HandleLogin(h)
       PROVE  \/ HashingFor(c)' \subseteq HashingFor(c)
              \/ AccountWindow(h) /\ Reaches(h, "hashing")
  <2>1. "solved" \in States /\ "solved" # "idle" /\ "solved" # "hashing"
        /\ "spent" \in States /\ "spent" # "idle" /\ "spent" # "hashing"
    BY DEF States
  <2>2. CASE ClientWindow(h)
    <3>1. UNCHANGED handlers \/ Starts(h)
      BY <2>2, ClientWindowStarts
    <3>2. CASE UNCHANGED handlers
      BY <1>5, <3>2
    <3>3. CASE Starts(h)
      BY <1>3, <3>3
    <3> QED
      BY <3>1, <3>2, <3>3
  <2>3. CASE CheckSolution(h)
    BY <1>2, <1>4, <1>7, <2>1, <2>3
  <2>4. CASE spend(h)
    BY <1>2, <1>4, <1>8, <2>1, <2>4
  <2>5. CASE AccountWindow(h)
    BY <1>2, <1>9, <2>5
  <2>6. CASE WrongPassword(h) \/ RightPassword(h)
    BY <1>2, <1>10, <2>6
  <2> QED
    BY <1>11, <2>2, <2>3, <2>4, <2>5, <2>6 DEF HandleLogin
<1>12. CASE Tick \/ UNCHANGED vars \/ \E s \in Salts : GeneratePoWChallenge(s)
  BY <1>5, <1>12 DEF Tick, GeneratePoWChallenge, vars
<1> QED
  BY <1>6, <1>11, <1>12 DEF Next

(* The window of an account and a client changes only when a wrong         *)
(* password of that client is counted, when it is dropped to make room and *)
(* when the server starts again.                                           *)
LEMMA WindowSteps ==
    ASSUME TypeInv, TablesBounded, [Next]_vars, NEW c \in LimiterKeys
    PROVE  \/ At(attempts', AccountKey(c)) = At(attempts, AccountKey(c))
           \/ At(attempts', AccountKey(c)) = ZeroWindow
           \/ \E h \in Handlers : WrongPassword(h) /\ job[h].client = c
<1> DEFINE Kept == \/ At(attempts', AccountKey(c)) = At(attempts, AccountKey(c))
                   \/ At(attempts', AccountKey(c)) = ZeroWindow
<1>1. Cardinality(KnownKeys) <= attemptsCap
  BY DEF TablesBounded
<1>2. ASSUME NEW k \in Keys, NEW t \in ClockReadings, NEW w \in Nat, Bump(k, t, w),
             k # AccountKey(c)
      PROVE  Kept
  <2>1. t \in Nat
    BY ReadingFacts
  <2> QED
    BY <1>1, <1>2, <2>1, BumpFacts
<1>3. ASSUME NEW h \in Handlers, ClientWindow(h) PROVE Kept
  <2>1. PICK r \in SignIns, t \in ClockReadings : Bump(<<"login", r.client>>, t, clientWindow)
    BY <1>3, Zenon DEF ClientWindow
  <2>2. <<"login", r.client>> \in Keys
    BY SignInFacts, KeyTypes
  <2>3. <<"login", r.client>> # AccountKey(c)
    BY DEF AccountKey
  <2> QED
    BY <1>2, <2>1, <2>2, <2>3, ConstantTypes
<1>4. ASSUME NEW h \in Handlers, WrongPassword(h), job[h].client # c PROVE Kept
  <2>1. PICK t \in ClockReadings : Bump(AccountKey(job[h].client), t, loginAccountWindow)
    BY <1>4, Zenon DEF WrongPassword, AccountKey
  <2>2. hpc[h] # "idle"
    BY <1>4 DEF WrongPassword
  <2>3. AccountKey(job[h].client) \in Keys
    BY <2>2, BusyJob, KeyTypes
  <2>4. AccountKey(job[h].client) # AccountKey(c)
    BY <1>4 DEF AccountKey
  <2> QED
    BY <1>2, <2>1, <2>3, <2>4, ConstantTypes
<1>5. CASE UNCHANGED attempts
  BY <1>5
<1>6. CASE Restart
  BY <1>6 DEF Restart, At
<1>7. ASSUME NEW h \in Handlers,
             CheckSolution(h) \/ spend(h) \/ AccountWindow(h) \/ RightPassword(h)
      PROVE  UNCHANGED attempts
  BY <1>7 DEF CheckSolution, spend, AccountWindow, RightPassword, table
<1>8. CASE Tick \/ UNCHANGED vars \/ \E s \in Salts : GeneratePoWChallenge(s)
  BY <1>8 DEF Tick, GeneratePoWChallenge, vars, table
<1> QED
  BY <1>3, <1>4, <1>5, <1>6, <1>7, <1>8, Zenon DEF Next, HandleLogin

LEMMA GuessStep ==
    ASSUME TypeInv, TablesBounded, GuessInv, [Next]_vars
    PROVE  GuessInv'
<1> SUFFICES ASSUME NEW c \in LimiterKeys
             PROVE  now' < At(attempts', AccountKey(c)).reset =>
                      At(attempts', AccountKey(c)).count + Cardinality(HashingFor(c)')
                        < loginAccountLimit + Cardinality(Handlers)
  BY Zenon DEF GuessInv
<1> DEFINE W == At(attempts, AccountKey(c))
           V == At(attempts', AccountKey(c))
           H == HashingFor(c)
           G == HashingFor(c)'
<1>1. /\ G \subseteq Handlers /\ IsFiniteSet(H) /\ IsFiniteSet(G)
      /\ Cardinality(H) \in Nat /\ Cardinality(G) \in Nat /\ Cardinality(Handlers) \in Nat
      /\ Cardinality(G) <= Cardinality(Handlers)
  BY HashingCount
<1>2. W.count \in Nat /\ W.reset \in Nat
  BY AtWindow DEF TypeInv
<1>3. now \in Nat /\ now # 0 /\ now' \in Nat /\ now' >= now
  BY ClockStep DEF TypeInv, TypeOK
<1>4. now < W.reset => W.count + Cardinality(H) < loginAccountLimit + Cardinality(Handlers)
  BY DEF GuessInv
<1>5. V = W \/ V = ZeroWindow \/ \E h \in Handlers : WrongPassword(h) /\ job[h].client = c
  BY WindowSteps
<1>6. G \subseteq H \/ \E h \in Handlers : AccountWindow(h) /\ Reaches(h, "hashing")
  BY HashingSteps
<1>7. loginAccountLimit \in Nat \ {0} /\ loginAccountWindow \in Nat
  BY ConstantTypes
<1> HIDE DEF H, G
<1>8. CASE V = ZeroWindow
  <2>1. V.reset = 0
    BY <1>8 DEF ZeroWindow
  <2> QED
    BY <1>3, <2>1
<1>9. CASE V = W /\ G \subseteq H
  <2>1. Cardinality(G) <= Cardinality(H)
    BY <1>1, <1>9, FS_Subset
  <2> QED
    BY <1>1, <1>2, <1>3, <1>4, <1>7, <1>9, <2>1 DEF H, G
<1>10. ASSUME NEW h \in Handlers, AccountWindow(h), Reaches(h, "hashing"), V = W
       PROVE  now' < V.reset =>
                V.count + Cardinality(G) < loginAccountLimit + Cardinality(Handlers)
  <2>1. now' = now
    BY <1>10 DEF AccountWindow
  <2>2. CASE job[h].client = c
    <3>1. ~attemptsExhausted(AccountKey(c), loginAccountLimit)
      <4>1. ~Answered(h)
        <5>1. h \in DOMAIN hpc
          BY DEF TypeInv, TypeOK
        <5>2. hpc'[h] = "hashing"
          BY <1>10, <5>1 DEF Reaches
        <5> QED
          BY <5>1, <5>2 DEF Answered
      <4> QED
        BY <1>10, <2>2, <4>1, Zenon DEF AccountWindow, AccountKey
    <3>2. ASSUME now < W.reset PROVE W.count < loginAccountLimit
      <4>1. AccountKey(c) \in KnownKeys
        BY <1>3, <3>2 DEF At, ZeroWindow, KnownKeys
      <4>2. W = attempts[AccountKey(c)]
        BY <4>1 DEF At, KnownKeys
      <4> QED
        BY <1>2, <1>7, <3>1, <3>2, <4>1, <4>2 DEF attemptsExhausted
    <3> QED
      BY <1>1, <1>2, <1>7, <1>10, <2>1, <3>2
  <2>3. CASE job[h].client # c
    <3>1. G \subseteq H
      <4>1. HandlersOK /\ hpc[h] # "idle"
        BY <1>10, HandlersTyped DEF AccountWindow
      <4>2. "hashing" \in States /\ "hashing" # "idle"
        BY DEF States
      <4>3. job' = job /\ \A g \in Handlers : g # h => hpc'[g] = hpc[g]
        BY <1>10, <4>1, <4>2, ReachesFacts
      <4> QED
        BY <2>3, <4>3 DEF G, H, HashingFor
    <3> QED
      BY <1>9, <1>10, <3>1 DEF G
  <2> QED
    BY <2>2, <2>3
<1>11. ASSUME NEW h \in Handlers, WrongPassword(h), job[h].client = c
       PROVE  now' < V.reset =>
                V.count + Cardinality(G) < loginAccountLimit + Cardinality(Handlers)
  <2>1. PICK t \in ClockReadings : Bump(AccountKey(c), t, loginAccountWindow)
    BY <1>11, Zenon DEF WrongPassword, AccountKey
  <2>2. t \in Nat /\ t <= now
    BY ReadingFacts
  <2>3. V = bumpWindow(W, t, loginAccountWindow)
    BY <1>7, <2>1, <2>2, KeyTypes, BumpFacts DEF TablesBounded
  <2>4. /\ hpc[h] = "hashing" /\ Answered(h) /\ now' = now
    BY <1>11 DEF WrongPassword
  <2>5. h \in H
    BY <1>11, <2>4 DEF H, HashingFor
  <2>6. G \subseteq H \ {h}
    BY <2>4, HandlersTyped, AnsweredFacts DEF G, H, HashingFor
  <2>7. Cardinality(H \ {h}) = Cardinality(H) - 1 /\ IsFiniteSet(H \ {h})
    BY <1>1, <2>5, FS_RemoveElement
  <2>8. Cardinality(G) <= Cardinality(H) - 1
    BY <2>6, <2>7, FS_Subset
  <2>9. Cardinality(H) <= Cardinality(Handlers)
    <3>1. H \in SUBSET Handlers
      BY DEF H, HashingFor
    <3> QED
      BY <3>1, ConstantTypes, FS_Subset
  <2>10. W \in [count : Nat, reset : Nat]
    BY AtWindow DEF TypeInv
  <2> HIDE DEF W, V
  <2>11. CASE t > W.reset
    <3>1. V = [count |-> 1, reset |-> t + loginAccountWindow]
      BY <1>7, <2>2, <2>3, <2>10, <2>11, BumpedWindow
    <3>2. V.count = 1
      BY <3>1
    <3> QED
      BY <1>1, <1>7, <2>8, <2>9, <3>2
  <2>12. CASE ~(t > W.reset)
    <3>1. V = [count |-> W.count + 1, reset |-> W.reset]
      BY <1>7, <2>2, <2>3, <2>10, <2>12, BumpedWindow
    <3>2. V.count = W.count + 1 /\ V.reset = W.reset
      BY <3>1
    <3> QED
      BY <1>1, <1>2, <1>4, <1>7, <2>4, <2>8, <3>2
  <2> QED
    BY <2>11, <2>12
<1> QED
  BY <1>5, <1>6, <1>8, <1>9, <1>10, <1>11, Zenon DEF G

-----------------------------------------------------------------------------
(***************************************************************************)
(* The theorems                                                            *)
(***************************************************************************)

LEMMA InitInv == Init => Inv
<1> SUFFICES ASSUME Init PROVE Inv
  OBVIOUS
<1> USE DEF Init
<1>1. KnownKeys = {}
  BY DEF KnownKeys
<1>2. IsFiniteSet({}) /\ Cardinality({}) = 0
  BY FS_EmptySet
<1>3. TypeOK
  <2>1. attempts \in [{} -> Window]
    OBVIOUS
  <2>2. \A h \in Handlers : hpc[h] = "idle" /\ job[h] = NoJob
    OBVIOUS
  <2> QED
    BY <1>1, <2>1, <2>2, ConstantTypes DEF TypeOK, States
<1>4. TypeInv
  BY <1>1, <1>2, <1>3 DEF TypeInv
<1>5. TablesBounded
  <2>1. Held = {}
    BY DEF Held
  <2> QED
    BY <1>1, <1>2, <2>1, ConstantTypes DEF TablesBounded
<1>6. GuessInv
  <2>1. \A k : At(attempts, k) = ZeroWindow
    BY DEF At
  <2> QED
    BY <2>1 DEF GuessInv, ZeroWindow
<1>7. SigningIn = {}
  BY DEF SigningIn
<1>8. SpentInv /\ SenderInv
  BY <1>7 DEF SpentInv, SenderInv, SpentOnceWhileValid
<1> QED
  BY <1>4, <1>5, <1>6, <1>8 DEF Inv

LEMMA NextInv == Inv /\ [Next]_vars => Inv'
<1> SUFFICES ASSUME Inv, [Next]_vars PROVE Inv'
  OBVIOUS
<1>1. TypeInv /\ TablesBounded /\ GuessInv /\ SpentInv /\ SenderInv
  BY DEF Inv
<1>2. /\ KnownKeys' \subseteq Keys /\ attempts' \in [KnownKeys' -> Window]
      /\ IsFiniteSet(KnownKeys') /\ Cardinality(KnownKeys') <= attemptsCap
  BY <1>1, AttemptsStep
<1>3. /\ salts' \in [Salts -> Nat] /\ accepted' \in [Salts -> Nat] /\ pruneAt' \in Nat
      /\ Cardinality(Held') <= pruneAt' /\ SpentInv'
  BY <1>1, SpentStep
<1>4. HandlersOK' /\ SenderInv'
  BY <1>1, RequestsStep
<1>5. now' \in Nat /\ now' # 0 /\ challenge' \in [Salts -> Nat]
  BY <1>1, ClockStep, ChallengesStay
<1>6. TypeInv'
  BY <1>2, <1>3, <1>4, <1>5, Zenon DEF TypeInv, TypeOK, HandlersOK, Job
<1>7. TablesBounded'
  BY <1>2, <1>3, Zenon DEF TablesBounded
<1>8. GuessInv'
  BY <1>1, GuessStep
<1> QED
  BY <1>3, <1>4, <1>6, <1>7, <1>8, Zenon DEF Inv

(* The limiter map, the spent set and the requests in flight keep the      *)
(* inductive invariant of handleLogin, for every value of the constants.   *)
THEOREM Invariance == Spec => []Inv
  BY InitInv, NextInv, PTL DEF Spec

(* The tables and the handlers keep their types; every window that is kept *)
(* has counted an attempt (bumpWindow).                                    *)
THEOREM TypeCorrect == Spec => []TypeOK
<1>1. Inv => TypeOK
  BY DEF Inv, TypeInv
<1> QED
  BY <1>1, Invariance, PTL

(* The limiter map never outgrows attemptsCap and the spent set never      *)
(* outgrows pruneAt, whatever keys and puzzles arrive (makeRoom, spend).   *)
THEOREM TablesStayBounded == Spec => []TablesBounded
<1>1. Inv => TablesBounded
  BY DEF Inv
<1> QED
  BY <1>1, Invariance, PTL

(* In a live window of an account and a client fewer wrong passwords are   *)
(* hashed than the limit and the handlers in flight together               *)
(* (attemptsExhausted is read before hashing, the failure counted after).  *)
THEOREM GuessesStayBounded == Spec => []GuessesBounded
<1>1. Inv => GuessesBounded
  <2> SUFFICES ASSUME Inv, NEW c \in LimiterKeys,
                      now < At(attempts, AccountKey(c)).reset
               PROVE  At(attempts, AccountKey(c)).count
                        < loginAccountLimit + Cardinality(Handlers)
    BY Zenon DEF GuessesBounded, AccountKey
  <2>1. At(attempts, AccountKey(c)).count + Cardinality(HashingFor(c))
          < loginAccountLimit + Cardinality(Handlers)
    BY DEF Inv, GuessInv
  <2>2. At(attempts, AccountKey(c)).count \in Nat
    BY AtWindow DEF Inv, TypeInv
  <2> QED
    BY <2>1, <2>2, HashingCount, ConstantTypes
<1> QED
  BY <1>1, Invariance, PTL

(* A puzzle is accepted at most once while it is valid, by however many    *)
(* requests at once and through every prune (PoWSpent.spend).              *)
THEOREM PuzzlesSpentOnce == Spec => []SpentOnceWhileValid
<1>1. Inv => SpentOnceWhileValid
  BY DEF Inv, SpentInv
<1> QED
  BY <1>1, Invariance, PTL

(* Every sign-in is counted to the key of the client that sent it          *)
(* (limiterIP, ClientIP, RateLimitKey).                                    *)
THEOREM SignInsCountedToSender == Spec => []CountedToSender
<1>1. Inv => CountedToSender
  BY DEF Inv, SenderInv, CountedToSender
<1> QED
  BY <1>1, Invariance, PTL

(* No page of another origin gets a sign-in, or a request with the         *)
(* session, to a handler (foreignOrigin, ValidateCSRF).                    *)
THEOREM ForeignRequestsRefused == Spec => []NoForeignRequest
<1>1. \A page \in ActingPages : ~Foreign(page)
  BY NoForeignPage
<1>2. Inv => NoForeignRequest
  BY <1>1, Zenon DEF Inv, SenderInv, NoForeignRequest
<1> QED
  BY <1>2, Invariance, PTL

=============================================================================
