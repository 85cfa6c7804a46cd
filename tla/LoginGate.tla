----------------------------- MODULE LoginGate ------------------------------
(***************************************************************************)
(* What handleLogin asks of a client before and after it hashes a          *)
(* password: the per-client window, a solved puzzle, the per-account       *)
(* window.  The limiter map and the set of spent puzzles are each behind a *)
(* mutex; handlers interleave between the calls.  Requests come through    *)
(* ServeHTTP (module RequestGate) and are counted to the address module    *)
(* ClientAddress finds for them.  Sessions are module Accounts'.           *)
(* Captcha.Provider is "pow"; with another the puzzle is not asked for.    *)
(***************************************************************************)
EXTENDS FiniteSets, Functions, ClientAddress, RequestGate

CONSTANTS Handlers,            \* login requests in flight at a time
          Salts,
          clientLimit, clientWindow,                \* 20 a minute
          loginAccountLimit, loginAccountWindow,    \* 10 in 15 minutes
          attemptsCap,
          PowLifetime,         \* a puzzle's 5 minutes
          PruneMin,            \* 1024
          NoJob,               \* a handler at rest
          MaxNow, MaxCount     \* bounds on the clock and on any one counter

ASSUME LoginGateAssumption ==
    /\ {clientLimit, clientWindow, loginAccountLimit, loginAccountWindow,
        attemptsCap, PruneMin} \subseteq Nat \ {0}
    /\ {PowLifetime, MaxNow, MaxCount} \subseteq Nat
    /\ IsFiniteSet(Salts) /\ IsFiniteSet(Clients) /\ IsFiniteSet(Handlers)

VARIABLES now,
          attempts,   \* Server.attempts, the windows by key
          challenge,  \* signed puzzles handed out: their expires_at, 0 for none
          salts,      \* PoWSpent.salts: expiry, 0 for an absent salt
          pruneAt,
          hpc, job,   \* handlers: control state; whose request it is, the key it
                      \* is counted to, the salt, whether another site's page sent it
          accepted    \* history: how often this process accepted a salt whose
                      \* puzzle had not expired

table == <<attempts>>
spent == <<salts, pruneAt, accepted>>
handlers == <<hpc, job>>
vars == <<now, table, challenge, spent, handlers>>

-----------------------------------------------------------------------------
(* One account: its key is the account and the client together. *)
Keys == {"login", "login-account"} \X LimiterKeys

(* The sign-ins that get past ServeHTTP, with the key limiterIP finds for  *)
(* them.                                                                   *)
SignIns == UNION {[sender : {c}, client : KeysFor(c), foreign : {Foreign(page) : page \in SignInPages}]
                    : c \in Clients}

Window == [count : Nat \ {0}, reset : Nat]
ZeroWindow == [count |-> 0, reset |-> 0]

States == {"idle", "gated", "solved", "spent", "hashing"}

KnownKeys == DOMAIN attempts

(* What reading a Go map gives: the zero value for an absent key. *)
At(windows, k) == IF k \in DOMAIN windows THEN windows[k] ELSE ZeroWindow

(* Faulty variant: a fresh window starts at zero. *)
bumpWindow_FromZero(entry, t, window) ==
    IF t > entry.reset THEN [count |-> 0, reset |-> t + window]
    ELSE [entry EXCEPT !.count = @ + 1]

bumpWindow(entry, t, window) ==
    IF t > entry.reset THEN [count |-> 1, reset |-> t + window]
    ELSE [entry EXCEPT !.count = @ + 1]

(* Faulty variant: only expired windows make room. *)
makeRoom_ExpiredOnly(t) ==
    {Restrict(attempts, {k \in KnownKeys : t <= attempts[k].reset})}

(* The maps makeRoom can leave: without the expired windows, and, if that  *)
(* frees nothing, without one more, whichever the iteration meets first.   *)
makeRoom(t) ==
    LET left == {k \in KnownKeys : t <= attempts[k].reset}
    IN  IF Cardinality(left) < attemptsCap THEN {Restrict(attempts, left)}
        ELSE {Restrict(attempts, left \ {v}) : v \in left}

(* allowAttempt reads the clock before it takes the lock, so t may be a    *)
(* tick old.                                                               *)
Bump(k, t, window) ==
    /\ At(attempts, k).count < MaxCount
    /\ \E room \in IF k \notin KnownKeys /\ Cardinality(KnownKeys) >= attemptsCap
                   THEN makeRoom(t) ELSE {attempts} :
         attempts' = [x \in DOMAIN room \cup {k} |->
                        IF x = k THEN bumpWindow(At(room, k), t, window) ELSE room[x]]

ClockReadings == {now} \cup {t \in {now - 1} : now > 1}

attemptsExhausted(k, limit) ==
    k \in KnownKeys /\ now < attempts[k].reset /\ attempts[k].count >= limit

Answered(h) ==
    /\ hpc' = [hpc EXCEPT ![h] = "idle"]
    /\ job' = [job EXCEPT ![h] = NoJob]

Reaches(h, state) ==
    /\ hpc' = [hpc EXCEPT ![h] = state]
    /\ UNCHANGED job

-----------------------------------------------------------------------------
Init ==
    /\ now = 1
    /\ attempts = <<>>
    /\ challenge = [s \in Salts |-> 0]
    /\ salts = [s \in Salts |-> 0]
    /\ pruneAt = PruneMin
    /\ hpc = [h \in Handlers |-> "idle"]
    /\ job = [h \in Handlers |-> NoJob]
    /\ accepted = [s \in Salts |-> 0]

Tick ==
    /\ now < MaxNow
    /\ now' = now + 1
    /\ UNCHANGED <<table, challenge, spent, handlers>>

(* handlePoWChallenge; the salt is random, so never handed out twice. *)
GeneratePoWChallenge(s) ==
    /\ challenge[s] = 0
    /\ challenge' = [challenge EXCEPT ![s] = now + PowLifetime]
    /\ UNCHANGED <<now, table, spent, handlers>>

(* A login request that carries a solution, its own or a copy, passes or   *)
(* fails the per-client window.                                            *)
ClientWindow(h) ==
    /\ hpc[h] = "idle"
    /\ \E r \in SignIns, s \in Salts, t \in ClockReadings :
         /\ challenge[s] # 0
         /\ Bump(<<"login", r.client>>, t, clientWindow)
         /\ IF attempts'[<<"login", r.client>>].count <= clientLimit
            THEN /\ hpc' = [hpc EXCEPT ![h] = "gated"]
                 /\ job' = [job EXCEPT ![h] = [sender |-> r.sender, client |-> r.client,
                                               foreign |-> r.foreign, salt |-> s]]
            ELSE UNCHANGED handlers
    /\ UNCHANGED <<now, challenge, spent>>

(* VerifyPoWSolution up to the work itself: the puzzle has not expired. *)
CheckSolution(h) ==
    /\ hpc[h] = "gated"
    /\ IF challenge[job[h].salt] < now THEN Answered(h) ELSE Reaches(h, "solved")
    /\ UNCHANGED <<now, table, challenge, spent>>

Held == {s \in Salts : salts[s] # 0}

(* Faulty variant: a salt in its last second is pruned. *)
pruned_LastSecond(t) == [s \in Salts |-> IF salts[s] <= t THEN 0 ELSE salts[s]]

(* The salts that survive a prune. *)
pruned(t) == [s \in Salts |-> IF salts[s] < t THEN 0 ELSE salts[s]]

CountAcceptance(s) == accepted[s] + IF now <= challenge[s] THEN 1 ELSE 0

(* spend: reads the clock again, prunes when the set has doubled. *)
spend(h) ==
    LET s == job[h].salt
        full == Cardinality(Held) >= pruneAt
        kept == IF full THEN pruned(now) ELSE salts
        n == Cardinality({x \in Salts : kept[x] # 0})
    IN
    /\ hpc[h] = "solved"
    /\ IF salts[s] # 0 /\ salts[s] >= now
       THEN Answered(h) /\ UNCHANGED spent
       ELSE /\ pruneAt' = IF ~full THEN pruneAt
                          ELSE IF 2 * n > PruneMin THEN 2 * n ELSE PruneMin
            /\ salts' = [kept EXCEPT ![s] = challenge[s]]
            /\ accepted' = [accepted EXCEPT ![s] = CountAcceptance(s)]
            /\ Reaches(h, "spent")
    /\ UNCHANGED <<now, table, challenge>>

(* Faulty variant: the account's window is not consulted. *)
AccountWindow_Ignored(h) ==
    /\ hpc[h] = "spent"
    /\ Reaches(h, "hashing")
    /\ UNCHANGED <<now, table, challenge, spent>>

(* The account's window is read, not counted, before hashing. *)
AccountWindow(h) ==
    /\ hpc[h] = "spent"
    /\ IF attemptsExhausted(<<"login-account", job[h].client>>, loginAccountLimit)
       THEN Answered(h) ELSE Reaches(h, "hashing")
    /\ UNCHANGED <<now, table, challenge, spent>>

(* A wrong password is counted after the hashing; a right one is not. *)
WrongPassword(h) ==
    /\ hpc[h] = "hashing"
    /\ \E t \in ClockReadings :
         Bump(<<"login-account", job[h].client>>, t, loginAccountWindow)
    /\ Answered(h)
    /\ UNCHANGED <<now, challenge, spent>>

RightPassword(h) ==
    /\ hpc[h] = "hashing"
    /\ Answered(h)
    /\ UNCHANGED <<now, table, challenge, spent>>

(* A restart forgets both tables, and every request. *)
Restart ==
    /\ attempts' = <<>>
    /\ salts' = [s \in Salts |-> 0]
    /\ pruneAt' = PruneMin
    /\ accepted' = [s \in Salts |-> 0]
    /\ hpc' = [h \in Handlers |-> "idle"]
    /\ job' = [h \in Handlers |-> NoJob]
    /\ UNCHANGED <<now, challenge>>

HandleLogin(h) ==
    \/ ClientWindow(h) \/ CheckSolution(h) \/ spend(h) \/ AccountWindow(h)
    \/ WrongPassword(h) \/ RightPassword(h)

Next == \/ Tick \/ Restart
        \/ \E s \in Salts : GeneratePoWChallenge(s)
        \/ \E h \in Handlers : HandleLogin(h)

Spec == Init /\ [][Next]_vars

-----------------------------------------------------------------------------
(***************************************************************************)
(* Properties                                                              *)
(***************************************************************************)

(* The limiter map, the spent set and the handlers keep their types; a     *)
(* window that is kept has counted an attempt.                             *)
TypeOK ==
    /\ now \in Nat
    /\ KnownKeys \subseteq Keys
    /\ attempts \in [KnownKeys -> Window]
    /\ challenge \in [Salts -> Nat] /\ salts \in [Salts -> Nat]
    /\ pruneAt \in Nat
    /\ hpc \in [Handlers -> States]
    /\ \A h \in Handlers :
         job[h] \in IF hpc[h] = "idle" THEN {NoJob}
                   ELSE [sender : Clients, client : LimiterKeys, foreign : BOOLEAN, salt : Salts]
    /\ accepted \in [Salts -> Nat]

(* The limiter map never holds more than attemptsCap windows: makeRoom     *)
(* always frees a slot for a new key, live windows or not.  And the spent  *)
(* set outgrows its last prune at most by doubling: it never holds more    *)
(* than pruneAt salts.                                                     *)
TablesBounded ==
    /\ Cardinality(KnownKeys) <= attemptsCap
    /\ Cardinality(Held) <= pruneAt

(* Within a live window of an account and a client, the wrong passwords    *)
(* hashed exceed loginAccountLimit by no more than the requests that were  *)
(* past the check of attemptsExhausted when the limit was reached.         *)
GuessesBounded ==
    \A c \in LimiterKeys :
        LET e == At(attempts, <<"login-account", c>>)
        IN  now < e.reset => e.count < loginAccountLimit + Cardinality(Handlers)

(* A puzzle that has not expired buys one attempt from a running server,   *)
(* however many requests present its solution at once and whatever a prune *)
(* of the spent set removes.                                               *)
SpentOnceWhileValid == \A s \in Salts : accepted[s] <= 1

SigningIn == {h \in Handlers : hpc[h] # "idle"}

(* A sign-in is counted to whoever sent it: directly, through one trusted  *)
(* proxy or through two, however they are listed and forward, no           *)
(* X-Forwarded-For and no spelling or choice of an address of its own lets *)
(* a client use another window (ClientIP, RateLimitKey,                    *)
(* ParseTrustedProxies).                                                   *)
CountedToSender == \A h \in SigningIn : job[h].client = OwnKey(job[h].sender)

(* No page of another origin, on a sibling subdomain or elsewhere, gets a  *)
(* sign-in past ServeHTTP, with or without https and under whichever name  *)
(* the app is reached (foreignOrigin, Sec-Fetch-Site); nor any other       *)
(* state-changing request with the session cookie of the browser it runs   *)
(* in, even if it plants a CSRF cookie (ValidateCSRF, CookieName).         *)
NoForeignRequest ==
    /\ \A h \in SigningIn : ~job[h].foreign
    /\ \A page \in ActingPages : ~Foreign(page)

=============================================================================
