----------------------------- MODULE Revocation -----------------------------
(***************************************************************************)
(* What sign-in promises, with no tables, statements or clocks: a token is *)
(* granted at most once, a revocation condemns a set of tokens in one      *)
(* step, and a condemned token is never usable again, however late its     *)
(* grant arrives.  SsoLogout (back-channel logout) and Accounts (password, *)
(* role and status changes) implement this specification.                  *)
(***************************************************************************)
CONSTANT Tokens

VARIABLES usable,     \* tokens a client holds and the server accepts
          condemned   \* tokens a revocation has named, granted or not

Init == usable = {} /\ condemned = {}

(* A sign-in completes. *)
Grant(t) ==
    /\ t \notin usable \cup condemned
    /\ usable' = usable \cup {t}
    /\ UNCHANGED condemned

(* A revocation names the tokens T; a client's own sign-out and an expiry  *)
(* take tokens out of use without condemning them.                         *)
Revoke(T) ==
    /\ condemned' = condemned \cup T
    /\ usable' = usable \ T

Retire(T) ==
    /\ usable' = usable \ T
    /\ UNCHANGED condemned

Next == \/ \E t \in Tokens : Grant(t)
        \/ \E T \in SUBSET Tokens : Revoke(T) \/ Retire(T)

Spec == Init /\ [][Next]_<<usable, condemned>>
=============================================================================
