--------------------------------- MODULE OAuth ---------------------------------
(***************************************************************************)
(* The OAuth server (mastodonapi/oauth.go, post_apps.go, store/oauth.go):  *)
(* applications, authorization codes and access tokens, three tables.  The *)
(* exchange of a code is one transaction: it deletes the code, checks who  *)
(* asks, inserts the token and commits; Postgres makes a second exchange   *)
(* of the code wait for the end of the first.                              *)
(*                                                                         *)
(* Passwords, secrets and code verifiers are compared, not computed.  A    *)
(* code or a token is named for the request that made it, which its client *)
(* alone knows.  Nothing checks the scopes of a token.                     *)
(***************************************************************************)
EXTENDS Api

CONSTANTS
  Registered,   \* applications registered before: records client, redirects, scopes
  Issued        \* access tokens issued before: records token, client, user, scopes, grant

\* The requests that may end in a new token.
Minting == {"exchange", "credentials"}

\* A token is 32 random bytes: none is made twice.
ASSUME OAuthAssumption ==
  /\ \A t \in Issued : t.grant \notin Requests
  /\ \A t, w \in Issued : t.token = w.token => t = w
  /\ \A p \in Bounds : \A q, r \in {x \in p.reqs : Req[x].op \in Minting} :
       /\ Req[q].token = Req[r].token => q = r
       /\ \A t \in Issued : t.token # Req[q].token

VARIABLES
  apps,       \* oauth_applications
  codes,      \* oauth_authorization_codes: the authorize requests that made them
  locked,     \* locked[c]: the exchange whose transaction has deleted code c, or Nothing
  expired,    \* codes whose time is over
  tokens,     \* oauth_access_tokens (user Nothing: an application's; grant: the code)
  grants      \* the authorize requests that were granted (history)

oauthVars == <<apps, codes, locked, expired, tokens, grants>>

OfOp(op) == {r \in plan.reqs : Req[r].op = op}
Codes    == OfOp("authorize")

OAuthInit ==
  /\ apps = Registered
  /\ codes = {}
  /\ locked = [c \in Codes |-> Nothing]
  /\ expired = {}
  /\ tokens = Issued
  /\ grants = {}

\* postApps: a client id of its own for each registration.
postApps(r) ==
  /\ At(r, "register", "new")
  /\ IF Req[r].redirects = {} THEN Reply(r, 400) /\ UNCHANGED <<apps, faults>>
     ELSE /\ apps' = apps \cup {[client |-> Req[r].client, redirects |-> Req[r].redirects,
                                 scopes |-> IF Req[r].scopes = {} THEN {"read", "write"} ELSE Req[r].scopes]}
          /\ Done(r, 200, 500)
  /\ UNCHANGED <<codes, locked, expired, tokens, grants>>

Known(client)  == \E a \in apps : a.client = client
Scopes(client) == UNION {a.scopes : a \in {x \in apps : x.client = client}}

\* RedirectURIAllowed: exactly one of those the client was registered with.
RedirectURIAllowed(client, uri) == \E a \in apps : a.client = client /\ uri \in a.redirects

\* getOAuthAuthorize: the form, which changes nothing.
getOAuthAuthorize(r) ==
  /\ At(r, "form", "new")
  /\ Reply(r, IF Known(Req[r].client) /\ RedirectURIAllowed(Req[r].client, Req[r].redirect) THEN 200 ELSE 400)
  /\ UNCHANGED <<faults, oauthVars>>

\* postOAuthAuthorize; the scopes are what is asked for, whatever the application's are.
postOAuthAuthorize(r) ==
  /\ At(r, "authorize", "new")
  /\ \/ /\ ~Known(Req[r].client) \/ ~RedirectURIAllowed(Req[r].client, Req[r].redirect)
        /\ Reply(r, 400)
        /\ UNCHANGED <<codes, grants, faults>>
     \/ /\ Known(Req[r].client) /\ RedirectURIAllowed(Req[r].client, Req[r].redirect)
        /\ IF Req[r].password = "wrong" THEN Reply(r, 401) /\ UNCHANGED <<codes, grants, faults>>
           ELSE codes' = codes \cup {r} /\ grants' = grants \cup {r} /\ Done(r, 302, 500)
  /\ UNCHANGED <<apps, locked, expired, tokens>>

\* Ten minutes pass.
Expire(c) ==
  /\ c \in codes \ expired
  /\ expired' = expired \cup {c}
  /\ UNCHANGED <<apiVars, apps, codes, locked, tokens, grants>>

\* postOAuthTokenAuthorizationCode up to the transaction.
TokenLookup(r) ==
  /\ At(r, "exchange", "new")
  /\ IF Known(Req[r].client) /\ Req[r].secret = "right" THEN Goto(r, "consume", Nothing) ELSE Reply(r, 401)
  /\ UNCHANGED <<faults, oauthVars>>

\* Bug variant: the code is deleted by a statement outside the transaction.
ConsumeAtOnce(r) ==
  /\ At(r, "exchange", "consume")
  /\ IF Req[r].code \in codes \ expired /\ Req[Req[r].code].redirect = Req[r].redirect
     THEN codes' = codes \ {Req[r].code} /\ Goto(r, "check", Req[r].code)
     ELSE Reply(r, 400) /\ UNCHANGED codes
  /\ UNCHANGED <<faults, apps, locked, expired, tokens, grants>>

\* ConsumeAuthorizationCode: DELETE ... RETURNING, waiting for who has deleted it already.
ConsumeAuthorizationCode(r) ==
  /\ At(r, "exchange", "consume")
  /\ Req[r].code \in Codes => locked[Req[r].code] = Nothing
  /\ IF Req[r].code \in codes \ expired /\ Req[Req[r].code].redirect = Req[r].redirect
     THEN locked' = [locked EXCEPT ![Req[r].code] = r] /\ Goto(r, "check", Req[r].code)
     ELSE Reply(r, 400) /\ UNCHANGED locked
  /\ UNCHANGED <<faults, apps, codes, expired, tokens, grants>>

\* The transaction of r ends without effect.
Rollback(r) == locked' = [c \in Codes |-> IF locked[c] = r THEN Nothing ELSE locked[c]]

\* pkceVerify: no challenge, or the verifier it was made of.
pkceVerify(verifier, code) == Req[code].challenge \in {Nothing, verifier}

\* Bug variant: a code is anybody's.
TokenCheckAnyClient(r) ==
  /\ At(r, "exchange", "check")
  /\ IF pkceVerify(Req[r].verifier, held[r])
     THEN Goto(r, "commit", held[r]) /\ UNCHANGED locked
     ELSE Reply(r, 400) /\ Rollback(r)
  /\ UNCHANGED <<faults, apps, codes, expired, tokens, grants>>

\* Bug variant: a refused exchange leaves its transaction open.
TokenCheckKeepsLock(r) ==
  /\ At(r, "exchange", "check")
  /\ IF Req[held[r]].client = Req[r].client /\ pkceVerify(Req[r].verifier, held[r])
     THEN Goto(r, "commit", held[r]) ELSE Reply(r, 400)
  /\ UNCHANGED <<faults, oauthVars>>

\* The application and the verifier are checked, the token is inserted.
TokenCheck(r) ==
  /\ At(r, "exchange", "check")
  /\ IF Req[held[r]].client = Req[r].client /\ pkceVerify(Req[r].verifier, held[r])
     THEN Goto(r, "commit", held[r]) /\ UNCHANGED locked
     ELSE Reply(r, 400) /\ Rollback(r)
  /\ UNCHANGED <<faults, apps, codes, expired, tokens, grants>>

NewToken(r, client, user, scopes, grant) ==
  tokens' = tokens \cup {[token |-> Req[r].token, client |-> client, user |-> user,
                          scopes |-> scopes, grant |-> grant]}

\* The commit, seen or not: the token is there and the code is gone.
TokenCommit(r) ==
  LET row == Req[held[r]] IN
  /\ At(r, "exchange", "commit")
  /\ NewToken(r, row.client, row.user, IF row.scopes = {} THEN Scopes(row.client) ELSE row.scopes, held[r])
  /\ codes' = codes \ {held[r]}
  /\ Rollback(r)
  /\ Done(r, 200, 500)
  /\ UNCHANGED <<apps, expired, grants>>

\* postOAuthTokenClientCredentials: a token of the application, with no user.
ClientCredentials(r) ==
  LET scopes == IF Req[r].scopes = {} THEN {"read"} ELSE Req[r].scopes IN
  /\ At(r, "credentials", "new")
  /\ IF ~Known(Req[r].client) \/ Req[r].secret = "wrong" THEN Reply(r, 401) /\ UNCHANGED <<tokens, faults>>
     ELSE IF RedirectURIAllowed(Req[r].client, Req[r].redirect) /\ scopes \subseteq Scopes(Req[r].client)
     THEN NewToken(r, Req[r].client, Nothing, scopes, Nothing) /\ Done(r, 200, 500)
     ELSE Reply(r, 400) /\ UNCHANGED <<tokens, faults>>
  /\ UNCHANGED <<apps, codes, locked, expired, grants>>

\* postOAuthRevoke does nothing.
postOAuthRevoke(r) ==
  /\ At(r, "revoke", "new")
  /\ Reply(r, 200)
  /\ UNCHANGED <<faults, oauthVars>>

\* A statement fails: Postgres undoes what the transaction had done.
OAuthFail(r) ==
  /\ Req[r].op = "exchange" /\ pc[r] \in {"consume", "check", "commit"}
  /\ Fault
  /\ Reply(r, 500)
  /\ Rollback(r)
  /\ UNCHANGED <<apps, codes, expired, tokens, grants>>

OAuthStep(r) ==
  \/ postApps(r) \/ getOAuthAuthorize(r) \/ postOAuthAuthorize(r)
  \/ ClientCredentials(r) \/ postOAuthRevoke(r)
  \/ TokenLookup(r) \/ ConsumeAuthorizationCode(r) \/ TokenCheck(r) \/ TokenCommit(r)
  \/ OAuthFail(r)

\* ActorIDForAccessToken and actorIDFromBearer: the user of a token, if it has one.
Bearer(token) == {t.user : t \in {x \in tokens : x.token = token}} \ {Nothing}
===============================================================================
