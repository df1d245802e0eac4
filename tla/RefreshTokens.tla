--------------------------- MODULE RefreshTokens ---------------------------
(***************************************************************************)
(* /auth/login, /auth/refresh and /auth/logout (zeeb_api/auth/router.py)   *)
(* over the store of consumed tokens (refresh_store.py) and the accounts.  *)
(*                                                                         *)
(* A token is a number in the order of issue; its family is the first      *)
(* token of its login.  One action is what a handler does between two      *)
(* awaits.  Rows and store entries are read and written by one await each. *)
(***************************************************************************)
EXTENDS Clock, Integers, FiniteSets

CONSTANTS
  Requests,      \* the requests the server answers at once
  Users,         \* the accounts there are
  NoUser,        \* no account
  Lifetime,      \* refresh_token_expire_days, in ticks of the clock
  MaxTokens      \* bound: refresh tokens issued

ASSUME TokensAssumption ==
  /\ Lifetime \in Nat \ {0} /\ MaxTokens \in Nat /\ MaxTime \in Nat
  /\ NoUser \notin Users

VARIABLES
  ntokens, \* tokens issued so far
  token,   \* what each token claims: user, family and expiry
  data,    \* the store: when each key expires, 0 for none
  account, \* the row of each user
  req,     \* what each request is about to do
  revoked, \* history: tokens whose family was revoked when they were there
  late     \* history: tokens issued while the mark of their family lived

world == <<now, account>>
history == <<revoked, late>>
issued == <<ntokens, token>>
vars == <<world, issued, data, req, history>>

Tokens == 1 .. MaxTokens

(* The keys of the store: a jti, and _family_key(family). *)
Jti(t) == <<"jti", t>>
FamilyKey(f) == <<"family", f>>
Keys == {"jti", "family"} \X Tokens

NoToken == [user |-> NoUser, family |-> 0, exp |-> 0]

Steps == {"idle", "authenticated", "lastlogin", "checking", "consuming",
          "reused", "consumed", "issuing", "revoking"}

Idle == [at |-> "idle", user |-> NoUser, token |-> 0, ttl |-> 0]

TypeOK ==
  /\ now \in 0 .. MaxTime
  /\ ntokens \in 0 .. MaxTokens
  /\ token \in [Tokens -> [user : Users \cup {NoUser}, family : 0 .. MaxTokens,
                           exp : Nat]]
  /\ data \in [Keys -> Nat]
  /\ account \in [Users -> {"active", "inactive", "deleted"}]
  /\ req \in [Requests -> [at : Steps, user : Users \cup {NoUser},
                           token : 0 .. MaxTokens, ttl : Int]]
  /\ revoked \subseteq Tokens /\ late \subseteq Tokens

Init ==
  /\ now = 0 /\ ntokens = 0
  /\ token = [t \in Tokens |-> NoToken]
  /\ data = [k \in Keys |-> 0]
  /\ account = [u \in Users |-> "active"]
  /\ req = [r \in Requests |-> Idle]
  /\ revoked = {} /\ late = {}

-----------------------------------------------------------------------------
(* The parts of a handler. *)

Goto(r, at) == req' = [req EXCEPT ![r].at = at]
Answer(r) == req' = [req EXCEPT ![r] = Idle]

Family(r) == token[req[r].token].family

(* decode_token: signature and type are right; only the expiry may not be. *)
Decodes(t) == t <= ntokens /\ token[t].exp > now

(* InMemoryRefreshTokenStore._live, and what any store with a TTL does. *)
Live(k) == data[k] > now

\* Mutated: pruning drops what expires with the next tick.
WriteEarly(k, ttl) ==
  data' = [x \in Keys |->
             CASE x = k -> now + (IF ttl > 0 THEN ttl ELSE 0)
               [] x # k /\ data[x] <= now + 1 -> 0
               [] OTHER -> data[x]]

(* _write.  It drops what expired, in the code at most every _prune_every  *)
(* writes, here with every write: an expired entry is no entry.            *)
Write(k, ttl) ==
  data' = [x \in Keys |->
             CASE x = k -> now + (IF ttl > 0 THEN ttl ELSE 0)
               [] x # k /\ ~Live(x) -> 0
               [] OTHER -> data[x]]

(* create_token_pair: f = 0 starts a family. *)
Mint(u, f) ==
  LET t == ntokens + 1 IN
  /\ ntokens < MaxTokens
  /\ ntokens' = t
  /\ token' = [token EXCEPT ![t] =
       [user |-> u, family |-> IF f = 0 THEN t ELSE f, exp |-> now + Lifetime]]

(* The tokens there are of a family. *)
Of(f) == {t \in 1 .. ntokens : token[t].family = f}

(* revoke_family: the mark of a family. *)
Revoke(f) ==
  /\ Write(FamilyKey(f), Lifetime)
  /\ revoked' = revoked \cup Of(f)
  /\ late' = IF Live(FamilyKey(f)) THEN late ELSE late \ Of(f)

-----------------------------------------------------------------------------
(* POST /auth/login *)

(* authenticate(): the row is read, its password is right, it is active. *)
Authenticate(r, u) ==
  /\ req[r].at = "idle" /\ account[u] = "active" /\ ntokens < MaxTokens
  /\ req' = [req EXCEPT ![r] = [Idle EXCEPT !.at = "authenticated", !.user = u]]
  /\ UNCHANGED <<world, issued, data, history>>

(* update_last_login(): save() writes every column of the row as it was     *)
(* read, and inserts the row again if it is gone.                          *)
UpdateLastLogin(r) ==
  /\ req[r].at = "authenticated"
  /\ account' = [account EXCEPT ![req[r].user] = "active"]
  /\ Goto(r, "lastlogin")
  /\ UNCHANGED <<now, issued, data, history>>

LoginIssues(r) ==
  /\ req[r].at = "lastlogin"
  /\ Mint(req[r].user, 0)
  /\ Answer(r)
  /\ UNCHANGED <<world, data, history>>

-----------------------------------------------------------------------------
(* POST /auth/refresh *)

Present(r, t) ==
  /\ req[r].at = "idle" /\ Decodes(t)
  /\ req' = [req EXCEPT ![r] = [at |-> "checking", user |-> token[t].user,
                                token |-> t, ttl |-> token[t].exp - now]]
  /\ UNCHANGED <<world, issued, data, history>>

\* Mutated: the family is not looked up.
CheckNothing(r) ==
  /\ req[r].at = "checking"
  /\ Goto(r, "consuming")
  /\ UNCHANGED <<world, issued, data, history>>

CheckFamily(r) ==
  /\ req[r].at = "checking"
  /\ IF Live(FamilyKey(Family(r))) THEN Answer(r) ELSE Goto(r, "consuming")
  /\ UNCHANGED <<world, issued, data, history>>

(* consume_once of the in-memory store, and of any that keeps its contract. *)
ConsumeOnce(r) ==
  LET k == Jti(req[r].token) IN
  /\ req[r].at = "consuming"
  /\ IF Live(k)
     THEN Goto(r, "reused") /\ UNCHANGED data
     ELSE Goto(r, "consumed") /\ Write(k, req[r].ttl)
  /\ UNCHANGED <<world, issued, history>>

(* Reuse of a rotated token: the family goes. *)
RevokeReused(r) ==
  /\ req[r].at = "reused"
  /\ Revoke(Family(r))
  /\ Answer(r)
  /\ UNCHANGED <<world, issued>>

(* The account is validated again. *)
LookUpUser(r) ==
  /\ req[r].at = "consumed"
  /\ IF account[req[r].user] = "active" THEN Goto(r, "issuing") ELSE Answer(r)
  /\ UNCHANGED <<world, issued, data, history>>

(* The database does not answer: the token is spent, nothing is issued. *)
LookUpFails(r) ==
  /\ req[r].at = "consumed"
  /\ Answer(r)
  /\ UNCHANGED <<world, issued, data, history>>

RefreshIssues(r) ==
  /\ req[r].at = "issuing"
  /\ Mint(req[r].user, Family(r))
  /\ late' = IF Live(FamilyKey(Family(r))) THEN late \cup {ntokens + 1} ELSE late
  /\ Answer(r)
  /\ UNCHANGED <<world, data, revoked>>

-----------------------------------------------------------------------------
(* POST /auth/logout with a refresh token of the user. *)

LogoutConsumes(r, t) ==
  /\ req[r].at = "idle" /\ Decodes(t)
  /\ account[token[t].user] = "active"
  /\ Write(Jti(t), token[t].exp - now)
  /\ req' = [req EXCEPT ![r] = [Idle EXCEPT !.at = "revoking", !.token = t]]
  /\ UNCHANGED <<world, issued, history>>

LogoutRevokes(r) ==
  /\ req[r].at = "revoking"
  /\ Revoke(Family(r))
  /\ Answer(r)
  /\ UNCHANGED <<world, issued>>

-----------------------------------------------------------------------------
(* The administrator, and time. *)

Bar(u, row) ==
  /\ account[u] = "active"
  /\ account' = [account EXCEPT ![u] = row]
  /\ UNCHANGED <<now, issued, data, req, history>>

(* Where a handler waits for the database.  The in-memory store never makes *)
(* one wait: nobody awaits anything while holding its lock.                *)
AtDatabase == {"authenticated", "lastlogin", "consumed", "issuing"}

Tick ==
  /\ now < MaxTime
  /\ \A r \in Requests : req[r].at \in AtDatabase \cup {"idle"}
  /\ now' = now + 1
  /\ UNCHANGED <<account, issued, data, req, history>>

-----------------------------------------------------------------------------
Login(r) == (\E u \in Users : Authenticate(r, u)) \/ UpdateLastLogin(r)
              \/ LoginIssues(r)

Refresh(r) ==
  \/ \E t \in Tokens : Present(r, t)
  \/ CheckFamily(r) \/ ConsumeOnce(r)
  \/ RevokeReused(r) \/ LookUpUser(r) \/ LookUpFails(r) \/ RefreshIssues(r)

Logout(r) == (\E t \in Tokens : LogoutConsumes(r, t)) \/ LogoutRevokes(r)

Next ==
  \/ \E r \in Requests : Login(r) \/ Refresh(r) \/ Logout(r)
  \/ \E u \in Users : Bar(u, "inactive") \/ Bar(u, "deleted")
  \/ Tick

Spec == Init /\ [][Next]_vars

-----------------------------------------------------------------------------
(* Properties.  A token is usable when the store would let it be redeemed; *)
(* a request owes a token when it has consumed one for it.                 *)

Usable(t) == Decodes(t) /\ ~Live(Jti(t))
Owes(r) == req[r].at \in {"consumed", "issuing"}

(* However a token is replayed, rotated and logged out, its login has at   *)
(* most one heir: one usable token, or one request that is about to issue  *)
(* it (consume_once, "so two concurrent replays cannot both succeed").     *)
OneHeir ==
  /\ \A s, t \in Tokens :
       Usable(s) /\ Usable(t) /\ token[s].family = token[t].family => s = t
  /\ \A r \in Requests : \A t \in Tokens :
       Owes(r) /\ Usable(t) => Family(r) # token[t].family
  /\ \A q, r \in Requests :
       Owes(q) /\ Owes(r) /\ Family(q) = Family(r) => q = r

(* What a revocation, by a logout or a replay, ends: no token that was      *)
(* there is accepted again, for the mark of the family outlives them all;  *)
(* and as long as it lives at most one token more is issued in the family, *)
(* to a refresh that passed the check before.  That one is more than the   *)
(* docstring of logout allows ("cannot mint new access tokens after        *)
(* logout"), and as the refresh may have waited, it can outlive the mark.  *)
RevokedFamiliesEnd ==
  /\ \A t \in revoked : Decodes(t) => Live(FamilyKey(token[t].family))
  /\ \A s, t \in late : token[s].family = token[t].family => s = t
=============================================================================
