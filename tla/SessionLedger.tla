---------------------------- MODULE SessionLedger ----------------------------
(***************************************************************************)
(* What Sigryx promises about sign-in sessions: a session belongs to one   *)
(* user for ever and has one refresh token at a time; the holder of that   *)
(* token exchanges it, once, for one never given out before; a revoked     *)
(* session stays revoked and its token is worth nothing.  AuthSessions.tla *)
(* shows that the authentication and access services implement this, one   *)
(* SQL statement at a time.                                                *)
(***************************************************************************)
EXTENDS Naturals

CONSTANTS Users, Sessions,
          NoUser   \* the owner of a session that does not exist yet

VARIABLES owner,   \* session -> the user who signed in
          token,   \* session -> its refresh token, 0 before there is one
          revoked, \* the sessions revoked so far
          drawn    \* tokens 1..drawn have been given out

vars == <<owner, token, revoked, drawn>>

Init ==
    /\ owner = [s \in Sessions |-> NoUser]
    /\ token = [s \in Sessions |-> 0]
    /\ revoked = {}
    /\ drawn = 0

Open(s, u) ==
    /\ owner[s] = NoUser
    /\ owner' = [owner EXCEPT ![s] = u]
    /\ drawn' = drawn + 1
    /\ token' = [token EXCEPT ![s] = drawn']
    /\ UNCHANGED revoked

Exchange(s, k) ==
    /\ owner[s] # NoUser
    /\ s \notin revoked
    /\ token[s] = k
    /\ drawn' = drawn + 1
    /\ token' = [token EXCEPT ![s] = drawn']
    /\ UNCHANGED <<owner, revoked>>

Revoke(S) ==
    /\ \A s \in S : owner[s] # NoUser
    /\ revoked' = revoked \cup S
    /\ UNCHANGED <<owner, token, drawn>>

Next ==
    \/ \E s \in Sessions, u \in Users : Open(s, u)
    \/ \E s \in Sessions : \E k \in 1..drawn : Exchange(s, k)
    \/ \E S \in SUBSET Sessions : Revoke(S)

Spec == Init /\ [][Next]_vars
=============================================================================
