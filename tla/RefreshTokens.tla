----------------------------- MODULE RefreshTokens -----------------------------
(***************************************************************************)
(* The refresh token sessions of one user (backend/app/auth/service.py and *)
(* repository.py): logins, rotations, logouts and revocations, each request*)
(* in a READ COMMITTED transaction that commits when it ends.  SELECT ...  *)
(* FOR UPDATE and UPDATE hold the rows they touch until then; an UPDATE    *)
(* with a condition picks its rows from what is committed when it starts,  *)
(* waits for those another transaction holds and tries the condition again.*)
(***************************************************************************)
EXTENDS Naturals, FiniteSets

CONSTANTS AuthRequests,  \* requests in flight at a time
          MaxTokens,     \* bound: tokens issued
          MaxFamilies    \* bound: logins

ASSUME AuthAssumption == MaxTokens \in Nat /\ MaxFamilies \in Nat

VARIABLES tokens,   \* the committed rows, by token: family, the token it was rotated from, revoked
          auth,     \* each request: what it does, where it is, and the rows it means to touch
          raced     \* families rotated while they were being revoked (history)

authVars == <<tokens, auth, raced>>

Tokens == 1..MaxTokens
Families == 1..MaxFamilies
NoToken == 0
Unissued == [family |-> 0, from |-> NoToken, revoked |-> FALSE]
Quiet == [at |-> "idle", token |-> NoToken, targets |-> {}, locked |-> {}, reuse |-> FALSE]

Issued == {t \in Tokens : tokens[t].family # 0}
Live == {t \in Issued : ~tokens[t].revoked}
FamilyOf(f) == {t \in Issued : tokens[t].family = f}

AuthTypeOK ==
    /\ tokens \in [Tokens -> [family : 0..MaxFamilies, from : 0..MaxTokens, revoked : BOOLEAN]]
    /\ \A r \in AuthRequests :
          /\ auth[r].at \in {"idle", "present", "rotate", "leave", "sweep"}
          /\ auth[r].token \in 0..MaxTokens /\ auth[r].locked \cup auth[r].targets \subseteq Issued
          /\ \A q \in AuthRequests \ {r} : auth[q].locked \cap auth[r].locked = {}
    /\ raced \subseteq Families

AuthInit ==
    /\ tokens = [t \in Tokens |-> Unissued]
    /\ auth = [r \in AuthRequests |-> Quiet]
    /\ raced = {}
-----------------------------------------------------------------------------
AuthGoes(r, x) == auth' = [auth EXCEPT ![r] = x]
Unlocked(r, rows) == \A q \in AuthRequests \ {r} : auth[q].locked \cap rows = {}
Revokes(rows) == [t \in Tokens |-> [tokens[t] EXCEPT !.revoked = @ \/ t \in rows]]

(* login inserts a token of a new family.                                  *)
Login(t) ==
    /\ t \notin Issued /\ \A u \in Tokens : u < t => u \in Issued
    /\ \E f \in Families :
          /\ f = Cardinality({tokens[u].family : u \in Issued}) + 1
          /\ tokens' = [tokens EXCEPT ![t] = [Unissued EXCEPT !.family = f]]
    /\ UNCHANGED <<auth, raced>>

(* refresh and logout are called with any token the user was given.        *)
Present(r, t) ==
    /\ auth[r] = Quiet /\ t \in Issued
    /\ \E at \in {"present", "leave"} :
          /\ at = "leave" => t \in Live
          /\ AuthGoes(r, [Quiet EXCEPT !.at = at, !.token = t])
    /\ UNCHANGED <<tokens, raced>>

(* Mutant: the row is read without FOR UPDATE.                             *)
ReadToken(r) ==
    LET t == auth[r].token IN
    /\ auth[r].at = "present"
    /\ IF tokens[t].revoked
       THEN AuthGoes(r, [auth[r] EXCEPT !.at = "sweep", !.reuse = TRUE,
                                        !.targets = FamilyOf(tokens[t].family) \cap Live])
       ELSE AuthGoes(r, [auth[r] EXCEPT !.at = "rotate"])
    /\ UNCHANGED <<tokens, raced>>

(* get_refresh_token_by_hash_for_update waits for the row; then a revoked  *)
(* token condemns its family, an expired one or one whose user is not      *)
(* active is refused, and any other is rotated.                            *)
LockToken(r) ==
    LET t == auth[r].token
        reused == tokens[t].revoked IN
    /\ auth[r].at = "present" /\ Unlocked(r, {t})
    /\ \/ reused  /\ AuthGoes(r, [auth[r] EXCEPT !.at = "sweep", !.locked = {t}, !.reuse = TRUE,
                                                 !.targets = FamilyOf(tokens[t].family) \cap Live])
       \/ ~reused /\ AuthGoes(r, [auth[r] EXCEPT !.at = "rotate", !.locked = {t}])
       \/ ~reused /\ AuthGoes(r, Quiet)
    /\ UNCHANGED <<tokens, raced>>

(* The revocation of the old token and the insertion of the new one become *)
(* visible together, when the request commits.                             *)
Rotate(r, new) ==
    LET t == auth[r].token
        f == tokens[t].family IN
    /\ auth[r].at = "rotate"
    /\ new \notin Issued /\ \A u \in Tokens : u < new => u \in Issued
    /\ tokens' = [Revokes({t}) EXCEPT ![new] = [family |-> f, from |-> t, revoked |-> FALSE]]
    /\ AuthGoes(r, Quiet)
    /\ raced' = raced \cup {g \in {f} : \E q \in AuthRequests : auth[q].at = "sweep" /\ t \in auth[q].targets}

(* logout has read the token without a lock; its UPDATE waits for the row. *)
Leave(r) ==
    /\ auth[r].at = "leave" /\ Unlocked(r, {auth[r].token})
    /\ tokens' = Revokes({auth[r].token})
    /\ AuthGoes(r, Quiet)
    /\ UNCHANGED raced

(* logout_all, change_password and reset_password revoke every token.      *)
SweepUser(r) ==
    /\ auth[r] = Quiet
    /\ AuthGoes(r, [Quiet EXCEPT !.at = "sweep", !.targets = Live])
    /\ UNCHANGED <<tokens, raced>>

(* Mutant: the UPDATE does not wait for rows that others hold.             *)
SweepRowHeld(r, t) ==
    /\ auth[r].at = "sweep" /\ t \in auth[r].targets \ auth[r].locked
    /\ AuthGoes(r, [auth[r] EXCEPT !.locked = @ \cup {t}])
    /\ UNCHANGED <<tokens, raced>>

(* The UPDATE takes its rows one after another, and waits where it must.   *)
SweepRow(r, t) ==
    /\ auth[r].at = "sweep" /\ t \in auth[r].targets \ auth[r].locked /\ Unlocked(r, {t})
    /\ AuthGoes(r, [auth[r] EXCEPT !.locked = @ \cup {t}])
    /\ UNCHANGED <<tokens, raced>>

SweepCommits(r) ==
    /\ auth[r].at = "sweep" /\ auth[r].targets \subseteq auth[r].locked
    /\ tokens' = Revokes(auth[r].targets)
    /\ AuthGoes(r, Quiet)
    /\ UNCHANGED raced

(* The request fails, or the database ends a circle of waiting ones.       *)
AbortAuth(r) ==
    /\ auth[r] # Quiet
    /\ AuthGoes(r, Quiet)
    /\ UNCHANGED <<tokens, raced>>

AuthNext ==
    \/ \E t \in Tokens : Login(t)
    \/ \E r \in AuthRequests :
          \/ LockToken(r) \/ Leave(r) \/ SweepUser(r) \/ SweepCommits(r) \/ AbortAuth(r)
          \/ \E t \in Tokens : Present(r, t) \/ Rotate(r, t) \/ SweepRow(r, t)

AuthSpec == AuthInit /\ [][AuthNext]_authVars
-----------------------------------------------------------------------------
(* A family is one chain, however often and at once its tokens are         *)
(* presented: each token is rotated at most once, after which it is not    *)
(* live, so that at most one token of a family is.                         *)
FamiliesAreChains ==
    /\ \A t, u \in Issued : tokens[t].from = tokens[u].from /\ tokens[t].from # NoToken => t = u
    /\ \A t, u \in Live : tokens[t].family = tokens[u].family => t = u

(* When a family is revoked because one of its old tokens was presented    *)
(* again, or with all sessions of the user, no token of it is live at the  *)
(* commit, unless a rotation was under way while it was being revoked.     *)
RevocationIsComplete ==
    \A r \in AuthRequests : SweepCommits(r) =>
       \A t \in auth[r].targets \cup IF auth[r].reuse THEN {auth[r].token} ELSE {} :
          tokens[t].family \notin raced => ~\E u \in Live' : tokens'[u].family = tokens[t].family

(* So a family that was given up stays given up, and one in use is a       *)
(* chain with a single live end.                                           *)
FamiliesHold == [][FamiliesAreChains' /\ RevocationIsComplete]_authVars
================================================================================
