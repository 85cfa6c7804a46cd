---------------------------- MODULE RequestGate -----------------------------
(***************************************************************************)
(* What ServeHTTP turns away before a handler runs: a state-changing       *)
(* request that carries the session cookie without its CSRF token, and a   *)
(* sign-in that a page of another origin made the browser send; with the   *)
(* cookie rules config.LoadFromEnv enforces, and the browser they rely on. *)
(***************************************************************************)

(* The deployment: an https app URL or not, reached under it or, without   *)
(* https, under another name too; whether a proxy rewrites Host.           *)
Deployment == [https : BOOLEAN, secure : BOOLEAN, domain : BOOLEAN,
               visited : {"app", "lan"}, rewritten : BOOLEAN]

AppURL(d) == [scheme |-> IF d.https THEN "https" ELSE "http", host |-> "app"]

(* LoadFromEnv: with an https app URL the cookies are __Host- cookies.  A  *)
(* proxy that rewrites Host serves the app URL only.                       *)
Accepted(d) == /\ d.https => d.secure /\ ~d.domain
               /\ d.visited = "lan" => ~d.https /\ ~d.rewritten
Deployments == {d \in Deployment : Accepted(d)}

HostCookies(d) == d.https

-----------------------------------------------------------------------------
(***************************************************************************)
(* ServeHTTP                                                               *)
(***************************************************************************)

NoOrigin == [scheme |-> "", host |-> ""]

sameOrigin(origin, appURL) == origin = appURL

(* A present Origin that is neither the host the request was sent to nor   *)
(* the app URL.                                                            *)
foreignOrigin(r, d) ==
    r.origin # NoOrigin /\ r.origin.host # r.host /\ ~sameOrigin(r.origin, AppURL(d))

SignInRefused(r, d) == r.site \in {"cross-site", "same-site"} \/ foreignOrigin(r, d)

(* Faulty variant: the cookie alone is proof. *)
ValidateCSRF_CookieOnly(r) == r.csrf # ""

(* The header repeats the cookie. *)
ValidateCSRF(r) == r.csrf # "" /\ r.token = r.csrf

CSRFRefused(r) == r.session /\ ~ValidateCSRF(r)

(* OPTIONS: another origin is refused, and only the app's own is named in  *)
(* Access-Control-Allow-Origin.                                            *)
PreflightGranted(origin, d) == sameOrigin(origin, AppURL(d))

-----------------------------------------------------------------------------
(***************************************************************************)
(* The browser of somebody signed in, external: a page of the app, of a    *)
(* sibling subdomain or of another site sends a POST; or a program that is *)
(* no browser does.                                                        *)
(***************************************************************************)

Pages == {"own", "sibling", "elsewhere", "program"}
Foreign(page) == page \in {"sibling", "elsewhere"}

PageOrigin(page, d) ==
    CASE page = "own" -> [AppURL(d) EXCEPT !.host = d.visited]
      [] page = "program" -> NoOrigin
      [] OTHER -> [scheme |-> "https", host |-> page]

(* Only for a destination that is not plain HTTP. *)
SecFetchSite(page, d) ==
    IF ~d.https THEN ""
    ELSE [own |-> "same-origin", sibling |-> "same-site",
          elsewhere |-> "cross-site", program |-> ""][page]

(* SameSite=Lax withholds cookies from another site's POST.  A sibling can *)
(* set a cookie of its parent domain, but none whose name has __Host-.     *)
CSRFCookies(page, d) ==
    IF page \in {"own", "sibling"}
    THEN {"minted"} \cup (IF page = "sibling" /\ ~HostCookies(d) THEN {"planted"} ELSE {})
    ELSE {""}

(* A page of the app reads the cookie and sends it back.  Others need the  *)
(* preflight's leave for the header, and know only what they planted, or   *)
(* what a cookie with a Domain shows them.                                 *)
Tokens(page, csrf, d) ==
    IF page = "own" THEN {csrf}
    ELSE IF page = "sibling" /\ PreflightGranted(PageOrigin(page, d), d)
    THEN {"", "planted"} \cup (IF d.domain THEN {csrf} ELSE {})
    ELSE {""}

Requests(page, d) ==
    UNION {[origin : {PageOrigin(page, d)}, site : {SecFetchSite(page, d)},
            host : {IF d.rewritten THEN "backend" ELSE d.visited},
            session : {page \in {"own", "sibling"}}, csrf : {csrf},
            token : Tokens(page, csrf, d)] : csrf \in CSRFCookies(page, d)}

(* The pages whose sign-in, and whose state-changing request with the      *)
(* session, reaches a handler.                                             *)
SignInPages ==
    {page \in Pages : \E d \in Deployments : \E r \in Requests(page, d) : ~SignInRefused(r, d)}
ActingPages ==
    {page \in Pages : \E d \in Deployments : \E r \in Requests(page, d) :
        r.session /\ ~CSRFRefused(r)}

=============================================================================
