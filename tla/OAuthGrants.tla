------------------------------- MODULE OAuthGrants -------------------------------
(***************************************************************************)
(* One grant of the authorization server (oauth/provider.go,               *)
(* oauth/storage.go, database/store_oauth.go): its code and the refresh    *)
(* tokens that follow are exchanged once each for a new pair of an access  *)
(* and a refresh token, and one that is presented again ends the grant.    *)
(* Exchangeable credential 0 is the code, k > 0 the refresh token of pair  *)
(* k.                                                                      *)
(*                                                                         *)
(* A token request is one transaction with a snapshot of the database.     *)
(* DuckDB, an external library, refuses to update a row that another       *)
(* transaction has changed since the snapshot; the provider then waits and *)
(* starts over, so that it reads what the other one has committed.  A      *)
(* provider has one token request at a time; two providers on one database *)
(* have only the transactions between them.                                *)
(*                                                                         *)
(* Simplifications.  fosite, an external library, is modelled by the       *)
(* storage calls it makes.  It hands an error of the storage on to the     *)
(* provider, but for one: its handler of codes (provider.go:88) mentions a *)
(* failed revocation of the family only in the debug text of the           *)
(* invalid_grant that answers a code used twice.  Expiry, scopes, PKCE and *)
(* the client's identity are left out, and so are the reasons other than   *)
(* its revocation that make a grant inactive.                              *)
(***************************************************************************)
EXTENDS Naturals, FiniteSets

CONSTANTS
    Provider,       \* instances of the authorization server on one database
    MaxPairs        \* bound: token pairs made

ASSUME OAuthAssumption == MaxPairs \in Nat

VARIABLES
    exchangeable,   \* the code and the refresh tokens: consumed_at
    access,         \* the access tokens: revoked_at
    granted,        \* the grant is not revoked
    op,             \* what each provider does, for which credential, with what it has seen
    userOp,         \* the user's own revocation, which takes no provider's mutex
    made,           \* pairs made, those of transactions rolled back included
    refused         \* the credentials whose client was told invalid_grant

oauthVars == <<exchangeable, access, granted, op, userOp, made, refused>>

Exchangeable == 0 .. MaxPairs
Pair == 1 .. MaxPairs
NoOp == [at |-> "idle", cred |-> 0, pair |-> 0, seen |-> "none", active |-> FALSE]

\* CompleteConsent has created the grant and its code.
OAuthInit ==
    /\ exchangeable = [k \in Exchangeable |-> IF k = 0 THEN "fresh" ELSE "none"]
    /\ access = [k \in Pair |-> "none"]
    /\ granted = TRUE
    /\ op = [p \in Provider |-> NoOp]
    /\ userOp = "idle"
    /\ made = 0
    /\ refused = {}

At(p, at) == op[p].at = at
Ends(p) == op' = [op EXCEPT ![p] = NoOp]
Goes(p, at) == op' = [op EXCEPT ![p].at = at]

\* Another transaction has changed the row of the grant, or is about to.
GrantRowTaken(p) ==
    \/ granted # op[p].active
    \/ userOp = "wrote"
    \/ \E q \in Provider \ {p} : op[q].at \in {"reused", "revoked"}

CredentialRowTaken(p) ==
    \/ exchangeable[op[p].cred] # op[p].seen
    \/ \E q \in Provider \ {p} : At(q, "exchanged") /\ op[q].cred = op[p].cred

-----------------------------------------------------------------------------
(* Provider.Token.                                                         *)

\* BeginOAuth and GetCredential: the snapshot.
Snapshot(p, k) ==
    op' = [op EXCEPT ![p] = [at |-> "loaded", cred |-> k, pair |-> 0,
                             seen |-> exchangeable[k], active |-> granted]]

\* A client presents what it was given: for the first time, or again when an
\* answer was lost.
PresentCredential(p, k) ==
    /\ At(p, "idle") /\ exchangeable[k] # "none"
    /\ Snapshot(p, k)
    /\ UNCHANGED <<exchangeable, access, granted, userOp, made, refused>>

\* load: unused, but the grant is not active.  Rolled back, and answered invalid_grant.
RefuseInactive(p) ==
    /\ At(p, "loaded") /\ op[p].seen = "fresh" /\ ~op[p].active
    /\ refused' = refused \cup {op[p].cred}
    /\ Ends(p)
    /\ UNCHANGED <<exchangeable, access, granted, userOp, made>>

\* Consumed, and the pair that follows created, in the transaction.
ExchangeCredential(p) ==
    /\ At(p, "loaded") /\ op[p].seen = "fresh" /\ op[p].active
    /\ ~CredentialRowTaken(p)
    /\ made < MaxPairs
    /\ made' = made + 1
    /\ op' = [op EXCEPT ![p].at = "exchanged", ![p].pair = made + 1]
    /\ UNCHANGED <<exchangeable, access, granted, userOp, refused>>

\* Used already: revokeFamily.
RevokeFamily(p) ==
    /\ At(p, "loaded") /\ op[p].seen = "used"
    /\ ~GrantRowTaken(p)
    /\ Goes(p, "reused")
    /\ UNCHANGED <<exchangeable, access, granted, userOp, made, refused>>

\* Mutant: the conflict is answered, and not tried again.
ConflictAnswered(p) ==
    /\ At(p, "loaded")
    /\ op[p].seen = "used" /\ GrantRowTaken(p)
    /\ refused' = refused \cup {op[p].cred}
    /\ Ends(p)
    /\ UNCHANGED <<exchangeable, access, granted, userOp, made>>

\* Rolled back, and the provider waits for the other transaction.
ConflictFound(p) ==
    /\ At(p, "loaded")
    /\ \/ op[p].seen = "fresh" /\ op[p].active /\ CredentialRowTaken(p)
       \/ op[p].seen = "used" /\ op[p].cred # 0 /\ GrantRowTaken(p)
    /\ Goes(p, "waiting")
    /\ UNCHANGED <<exchangeable, access, granted, userOp, made, refused>>

\* The code was used already, and its family cannot be revoked: a conflict, or
\* a statement that fails.  The provider sees an invalid_grant and no
\* revocation: it rolls back and answers it.
RevocationErrorHidden(p) ==
    /\ At(p, "loaded") /\ op[p].seen = "used" /\ op[p].cred = 0
    /\ refused' = refused \cup {0}
    /\ Ends(p)
    /\ UNCHANGED <<exchangeable, access, granted, userOp, made>>

TryAgain(p) ==
    /\ At(p, "waiting")
    /\ Snapshot(p, op[p].cred)
    /\ UNCHANGED <<exchangeable, access, granted, userOp, made, refused>>

\* Mutant: the access token of the exchanged refresh token is left alone.
CommitExchangeOnly(p) ==
    /\ At(p, "exchanged")
    /\ exchangeable' = [exchangeable EXCEPT ![op[p].cred] = "used", ![op[p].pair] = "fresh"]
    /\ access' = [access EXCEPT ![op[p].pair] = "live"]
    /\ Ends(p)
    /\ UNCHANGED <<granted, userOp, made, refused>>

\* RotateRefreshToken has also revoked the access token of the same pair.
CommitExchange(p) ==
    /\ At(p, "exchanged")
    /\ exchangeable' = [exchangeable EXCEPT ![op[p].cred] = "used", ![op[p].pair] = "fresh"]
    /\ access' = [k \in Pair |-> IF k = op[p].pair THEN "live"
                                 ELSE IF k = op[p].cred THEN "revoked" ELSE access[k]]
    /\ Ends(p)
    /\ UNCHANGED <<granted, userOp, made, refused>>

\* The family's revocation is committed although the answer is an error.
CommitReuse(p) ==
    /\ At(p, "reused")
    /\ granted' = FALSE
    /\ refused' = refused \cup {op[p].cred}
    /\ Ends(p)
    /\ UNCHANGED <<exchangeable, access, userOp, made>>

\* A statement or the commit fails, the node is not the leader any more, the wait
\* is over, or the process ends: rolled back, and not answered or with a 5xx.
TokenFails(p) ==
    /\ ~At(p, "idle")
    /\ Ends(p)
    /\ UNCHANGED <<exchangeable, access, granted, userOp, made, refused>>

-----------------------------------------------------------------------------
(* Revocation: Provider.Revoke for any token, and Store.RevokeOAuthGrant.  *)

RevokeToken(p) ==
    /\ At(p, "idle")
    /\ op' = [op EXCEPT ![p] = [NoOp EXCEPT !.at = "revoking", !.active = granted]]
    /\ UNCHANGED <<exchangeable, access, granted, userOp, made, refused>>

\* A conflict is answered 503 (TokenFails): the client may try again.
RevokeGrant(p) ==
    /\ At(p, "revoking") /\ ~GrantRowTaken(p)
    /\ Goes(p, "revoked")
    /\ UNCHANGED <<exchangeable, access, granted, userOp, made, refused>>

CommitRevocation(p) ==
    /\ At(p, "revoked")
    /\ granted' = FALSE
    /\ Ends(p)
    /\ UNCHANGED <<exchangeable, access, userOp, made, refused>>

\* The user ends the grant: the update, and then the audit row and the commit.
UserRevokes ==
    /\ userOp = "idle"
    /\ \A p \in Provider : op[p].at \notin {"reused", "revoked"}
    /\ userOp' = "wrote"
    /\ UNCHANGED <<exchangeable, access, granted, op, made, refused>>

UserCommits ==
    /\ userOp = "wrote"
    /\ granted' = FALSE
    /\ userOp' = "idle"
    /\ UNCHANGED <<exchangeable, access, op, made, refused>>

UserFails ==
    /\ userOp = "wrote"
    /\ userOp' = "idle"
    /\ UNCHANGED <<exchangeable, access, granted, op, made, refused>>

OAuthNext ==
    \/ \E p \in Provider, k \in Exchangeable : PresentCredential(p, k)
    \/ \E p \in Provider :
          \/ RefuseInactive(p) \/ ExchangeCredential(p) \/ RevokeFamily(p)
          \/ ConflictFound(p) \/ RevocationErrorHidden(p) \/ TryAgain(p)
          \/ CommitExchange(p) \/ CommitReuse(p)
          \/ TokenFails(p) \/ RevokeToken(p) \/ RevokeGrant(p) \/ CommitRevocation(p)
    \/ UserRevokes \/ UserCommits \/ UserFails

OAuthSpec == OAuthInit /\ [][OAuthNext]_oauthVars

-----------------------------------------------------------------------------
(* Properties.                                                             *)

(* Every variable keeps its type (the columns of oauth_credentials and     *)
(* oauth_grants, store_oauth.go:25-53).                                    *)
OAuthTypeOK ==
    /\ exchangeable \in [Exchangeable -> {"none", "fresh", "used"}]
    /\ access \in [Pair -> {"none", "live", "revoked"}]
    /\ granted \in BOOLEAN
    /\ op \in [Provider -> [at : {"idle", "loaded", "exchanged", "reused", "waiting",
                                  "revoking", "revoked"},
                            cred : Exchangeable, pair : Exchangeable,
                            seen : {"none", "fresh", "used"}, active : BOOLEAN]]
    /\ userOp \in {"idle", "wrote"}
    /\ made \in 0 .. MaxPairs
    /\ refused \subseteq Exchangeable

(* However requests race, a grant has at most one credential that can be   *)
(* exchanged, and the only access token that is not revoked is the one of  *)
(* its pair (provider.go:216, storage.go:241, RotateRefreshToken).          *)
OneTokenPair ==
    /\ \A j, k \in Exchangeable : exchangeable[j] = "fresh" /\ exchangeable[k] = "fresh" => j = k
    /\ \A k \in Pair : access[k] = "live" <=> exchangeable[k] = "fresh"

(* A client that is told invalid_grant for a refresh token gives its tokens*)
(* up: the grant is then revoked for good, whether the token was used      *)
(* before or the grant had ended, and in whatever order the revocation met *)
(* others that failed (provider.go:268, 284).  What may pass is answered   *)
(* otherwise.  Of a code this holds only when it was refused for the first *)
(* time it was presented: if it was used before, fosite hides the error of *)
(* a revocation that failed, and the grant and its tokens may live on; the *)
(* code itself cannot be exchanged again.                                  *)
RefusalIsFinal ==
    \A k \in refused : granted => k = 0 /\ exchangeable[0] = "used"
=============================================================================
