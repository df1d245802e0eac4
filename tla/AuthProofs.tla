----------------------------- MODULE AuthProofs -----------------------------
(***************************************************************************)
(* Theorems about the two stateful components of authentication.           *)
(*                                                                         *)
(* RefreshTokens: for any number of requests, users and tokens a login     *)
(* never has two heirs, a revocation ends the tokens that are there, and   *)
(* while its mark lives one more token is issued at most.                  *)
(*                                                                         *)
(* SigningKeys: for any number of logins and keys, any times and any       *)
(* provider, forced fetches are a cooldown apart, withdrawn keys are       *)
(* forgotten and published ones are found.                                 *)
(***************************************************************************)
EXTENDS RefreshTokens, SigningKeys, TLAPS

-----------------------------------------------------------------------------
(* Refresh tokens. *)


(* Tokens continue an earlier family, and expire in time. *)
TokensClaim ==
  \A t \in Tokens :
    /\ t <= ntokens => token[t].family \in 1 .. t /\ token[t].exp <= now + Lifetime
    /\ t > ntokens => token[t] = NoToken

(* A consumed token is in the store for as long as it decodes. *)
EntriesOutlive ==
  \A t \in Tokens :
    data[Jti(t)] # 0 => t <= ntokens /\ data[Jti(t)] >= token[t].exp

(* What a request holds; until its token is consumed no time passes. *)
Presented == {"checking", "consuming"}
Holding == Presented \cup {"reused", "consumed", "issuing", "revoking"}

RequestsHold ==
  \A r \in Requests :
    /\ req[r].at \in Holding => req[r].token \in 1 .. ntokens
    /\ req[r].at \in Presented => /\ req[r].ttl = token[req[r].token].exp - now
                                  /\ req[r].ttl > 0

(* The mark of a revoked family outlives the tokens there were. *)
MarksOutlive ==
  \A t \in revoked :
    /\ t <= ntokens
    /\ token[t].exp <= now \/ token[t].exp <= data[FamilyKey(token[t].family)]

(* When a revoked family has issued a token, nobody is left to issue one    *)
(* before its mark expires.                                                *)
Continues(r) ==
  Owes(r) \/ (req[r].at = "consuming" /\ Usable(req[r].token))

LateAreLast ==
  \A s \in late :
    /\ s <= ntokens
    /\ Live(FamilyKey(token[s].family)) =>
         \A r \in Requests : Continues(r) => Family(r) # token[s].family

LateIsOne == \A s, t \in late : token[s].family = token[t].family => s = t

(* OneHeir needs consumed tokens to stay in the store until they expire;    *)
(* RevokedFamiliesEnd needs it, and the marks to outlive the tokens.       *)
TokensInv ==
  /\ TypeOK
  /\ TokensClaim
  /\ EntriesOutlive
  /\ RequestsHold
  /\ OneHeir
  /\ MarksOutlive
  /\ LateAreLast
  /\ LateIsOne

(* A state's account of one token and one key, without their arithmetic.    *)
LEMMA Shapes ==
  ASSUME TypeOK
  PROVE  /\ now \in Nat /\ ntokens \in Nat /\ Lifetime \in Nat /\ Lifetime > 0
         /\ ntokens <= MaxTokens /\ MaxTokens \in Nat
         /\ \A t \in Tokens : /\ t \in Nat /\ t > 0 /\ t <= MaxTokens
                              /\ Jti(t) \in Keys /\ FamilyKey(t) \in Keys
                              /\ data[Jti(t)] \in Nat /\ data[FamilyKey(t)] \in Nat
                              /\ token[t].exp \in Nat /\ token[t].family \in Nat
         /\ \A s, t \in Tokens : /\ Jti(s) # FamilyKey(t)
                                 /\ Jti(s) = Jti(t) => s = t
                                 /\ FamilyKey(s) = FamilyKey(t) => s = t
         /\ 1 .. ntokens \subseteq Tokens
BY TokensAssumption DEF TypeOK, Tokens, Jti, FamilyKey, Keys

(* The store after a write: the entry of k, and what was live.              *)
LEMMA Writing ==
  ASSUME TypeOK, NEW k \in Keys, NEW ttl \in Int, Write(k, ttl)
  PROVE  /\ data' \in [Keys -> Nat]
         /\ ttl > 0 => data'[k] = now + ttl
         /\ \A x \in Keys : x # k => data'[x] = IF data[x] > now THEN data[x] ELSE 0
<1>1. now \in Nat /\ data \in [Keys -> Nat]
  BY TokensAssumption DEF TypeOK
<1>2. \A x \in Keys : data'[x] = IF x = k THEN now + (IF ttl > 0 THEN ttl ELSE 0)
                                ELSE IF data[x] > now THEN data[x] ELSE 0
  BY <1>1 DEF Write, Live
<1>3. QED
  BY <1>1, <1>2 DEF Write

(* Where a token decodes, it is usable if and only if it has no entry.      *)
LEMMA UsableHasNoEntry ==
  ASSUME TypeOK, EntriesOutlive, NEW t \in Tokens
  PROVE  Usable(t) <=> t <= ntokens /\ token[t].exp > now /\ data[Jti(t)] = 0
BY Shapes DEF EntriesOutlive, Usable, Decodes, Live

LEMMA InitSatisfies == Init => TokensInv
<1> SUFFICES ASSUME Init PROVE TokensInv
  OBVIOUS
<1> USE TokensAssumption
<1>1. TypeOK
  BY DEF Init, TypeOK, Idle, NoToken, Steps, Tokens
<1>2. TokensClaim /\ EntriesOutlive /\ RequestsHold
  BY Shapes, <1>1 DEF Init, TokensClaim, EntriesOutlive, RequestsHold, Idle, NoToken,
                      Holding, Presented
<1>3. OneHeir
  BY <1>1, Shapes DEF Init, OneHeir, Usable, Decodes, Owes, Idle
<1>4. MarksOutlive /\ LateAreLast /\ LateIsOne
  BY DEF Init, MarksOutlive, LateAreLast, LateIsOne
<1>5. QED
  BY <1>1, <1>2, <1>3, <1>4 DEF TokensInv

(* What a step of a request that writes nothing may make of the request:    *)
(* nothing that continues a family, unless it did before or, where the     *)
(* family is not revoked, is past its check now.                           *)
Harmless(q) ==
  \/ req'[q] = req[q]
  \/ req'[q].at \in {"idle", "authenticated", "lastlogin"}
  \/ /\ req'[q].at = "checking" /\ req'[q].token \in 1 .. ntokens
     /\ req'[q].ttl = token[req'[q].token].exp - now /\ req'[q].ttl > 0
  \/ /\ req[q].at = "checking" /\ ~Live(FamilyKey(Family(q)))
     /\ req'[q] = [req[q] EXCEPT !.at = "consuming"]
  \/ /\ req[q].at = "consuming" /\ req'[q] = [req[q] EXCEPT !.at = "reused"]
  \/ /\ req[q].at = "consumed" /\ req'[q] = [req[q] EXCEPT !.at = "issuing"]

(* The family of a token has a key. *)
LEMMA FamiliesHaveKeys ==
  ASSUME TokensInv, NEW t \in 1 .. ntokens
  PROVE  /\ t \in Tokens /\ token[t].family \in Tokens
         /\ FamilyKey(token[t].family) \in Keys
<1>1. t \in Tokens /\ t <= ntokens
  BY Shapes DEF TokensInv
<1>2. token[t].family \in 1 .. t
  BY <1>1 DEF TokensInv, TokensClaim
<1>3. QED
  BY <1>1, <1>2, Shapes DEF Tokens, TokensInv

LEMMA QuietKeeps ==
  ASSUME TokensInv, TypeOK', UNCHANGED <<now, issued, data, history>>,
         \A q \in Requests : Harmless(q)
  PROVE  TokensInv'
<1> USE DEF issued, history
<1>1. TokensClaim' /\ EntriesOutlive' /\ MarksOutlive' /\ LateIsOne'
  BY DEF TokensInv, TokensClaim, EntriesOutlive, MarksOutlive, LateIsOne
<1>2. /\ \A t \in Tokens : Usable(t)' <=> Usable(t)
      /\ \A q \in Requests : Owes(q)' => Owes(q) /\ Family(q)' = Family(q)
  <2>1. \A t \in Tokens : Usable(t)' <=> Usable(t)
    BY DEF Usable, Decodes, Live
  <2>2. ASSUME NEW q \in Requests, Owes(q)'
        PROVE  Owes(q) /\ Family(q)' = Family(q)
    BY <2>2, SMTT(30) DEF Harmless, Owes, Family, TokensInv, TypeOK
  <2>3. QED
    BY <2>1, <2>2
<1>3. RequestsHold'
  BY DEF RequestsHold, Harmless, TokensInv, Holding, Presented, TypeOK
<1>4. OneHeir'
  BY <1>2 DEF OneHeir, TokensInv
<1>5. LateAreLast'
  <2> SUFFICES ASSUME NEW s \in late, Live(FamilyKey(token[s].family)),
                      NEW q \in Requests, Continues(q)'
               PROVE  Family(q)' # token[s].family
    BY DEF LateAreLast, TokensInv, Live, FamilyKey
  <2>1. CASE Owes(q)'
    BY <2>1, <1>2 DEF LateAreLast, TokensInv, Continues
  <2>2. CASE req'[q].at = "consuming" /\ Usable(req[q].token)' /\ req'[q] = req[q]
    <3>1. req[q].token \in Tokens
      BY <2>2, Shapes DEF TokensInv, RequestsHold, Holding, Presented
    <3>2. QED
      BY <2>2, <3>1, <1>2 DEF LateAreLast, TokensInv, Continues, Family
  <2>3. CASE /\ req[q].at = "checking" /\ ~Live(FamilyKey(Family(q)))
             /\ req'[q] = [req[q] EXCEPT !.at = "consuming"]
    BY <2>3 DEF Family, TokensInv, TypeOK
  <2>4. QED
    BY <2>1, <2>2, <2>3 DEF Harmless, Continues, TypeOK, TokensInv
<1>6. QED
  BY <1>1, <1>3, <1>4, <1>5 DEF TokensInv

(* Writing an entry keeps the marks of the families, until they expire.     *)
LEMMA MarksStay ==
  ASSUME TokensInv, NEW k \in Keys, NEW ttl \in Int, Write(k, ttl),
         NEW f \in Tokens, k # FamilyKey(f)
  PROVE  /\ data'[FamilyKey(f)] = data[FamilyKey(f)] \/ data'[FamilyKey(f)] = 0
         /\ data[FamilyKey(f)] > now => data'[FamilyKey(f)] = data[FamilyKey(f)]
BY Writing, Shapes DEF TokensInv

(* A refresh or a logout consumes a token.                                  *)
LEMMA ConsumingKeeps ==
  ASSUME TokensInv, TypeOK', NEW r \in Requests, NEW t \in 1 .. ntokens,
         token[t].exp > now, Write(Jti(t), token[t].exp - now),
         UNCHANGED <<now, issued, history>>,
         \A q \in Requests : q # r => req'[q] = req[q],
         \/ /\ req[r].at = "consuming" /\ req[r].token = t /\ ~Live(Jti(t))
            /\ req'[r] = [req[r] EXCEPT !.at = "consumed"]
         \/ req'[r].at = "revoking" /\ req'[r].token = t
  PROVE  TokensInv'
<1> USE DEF issued, history
<1>0. /\ t \in Tokens /\ t <= ntokens /\ Jti(t) \in Keys /\ now \in Nat
      /\ token[t].exp \in Nat
  BY Shapes DEF TokensInv
<1>1. /\ data'[Jti(t)] = token[t].exp
      /\ \A x \in Keys : x # Jti(t) => data'[x] = IF data[x] > now THEN data[x] ELSE 0
  <2>1. token[t].exp - now \in Int /\ token[t].exp - now > 0
    BY <1>0
  <2>2. data'[Jti(t)] = now + (token[t].exp - now)
    BY <1>0, <2>1, Writing DEF TokensInv
  <2>3. QED
    BY <1>0, <2>1, <2>2, Writing DEF TokensInv
<1>2. \A f \in Tokens :
        /\ data'[FamilyKey(f)] = data[FamilyKey(f)] \/ data'[FamilyKey(f)] = 0
        /\ data[FamilyKey(f)] > now => data'[FamilyKey(f)] = data[FamilyKey(f)]
        /\ data[FamilyKey(f)] \in Nat
  BY <1>0, <1>1, Shapes DEF TokensInv
<1>3. TokensClaim' /\ LateIsOne'
  BY DEF TokensInv, TokensClaim, LateIsOne
<1>4. EntriesOutlive'
  <2> SUFFICES ASSUME NEW s \in Tokens, data'[Jti(s)] # 0
               PROVE  s <= ntokens /\ data'[Jti(s)] >= token[s].exp
    BY DEF EntriesOutlive, Jti
  <2>1. CASE s = t
    BY <2>1, <1>0, <1>1
  <2>2. CASE s # t
    <3>1. Jti(s) # Jti(t) /\ Jti(s) \in Keys
      BY <2>2, <1>0, Shapes DEF TokensInv
    <3>2. data'[Jti(s)] = data[Jti(s)]
      BY <3>1, <1>1
    <3>3. QED
      BY <3>2 DEF TokensInv, EntriesOutlive
  <2>3. QED
    BY <2>1, <2>2
<1>5. \A s \in Tokens : Usable(s)' => Usable(s) /\ s # t
  <2> SUFFICES ASSUME NEW s \in Tokens, Usable(s)' PROVE Usable(s) /\ s # t
    OBVIOUS
  <2>1. s <= ntokens /\ token[s].exp > now /\ ~(data'[Jti(s)] > now)
    BY DEF Usable, Decodes, Live, Jti
  <2>2. s # t
    BY <2>1, <1>0, <1>1
  <2>3. Jti(s) # Jti(t) /\ Jti(s) \in Keys
    BY <2>2, <1>0, Shapes DEF TokensInv
  <2>4. ~(data[Jti(s)] > now)
    BY <2>1, <2>3, <1>1
  <2>5. QED
    BY <2>1, <2>2, <2>4 DEF Usable, Decodes, Live
<1>6. \A q \in Requests : q # r => Owes(q)' = Owes(q) /\ Family(q)' = Family(q)
  BY DEF Owes, Family
<1>7. Owes(r)' => /\ req[r].at = "consuming" /\ Usable(t) /\ req[r].token = t
                  /\ Family(r)' = token[t].family /\ Family(r) = token[t].family
  <2> SUFFICES ASSUME Owes(r)'
               PROVE  /\ req[r].at = "consuming" /\ Usable(t) /\ req[r].token = t
                      /\ Family(r)' = token[t].family /\ Family(r) = token[t].family
    OBVIOUS
  <2>1. /\ req[r].at = "consuming" /\ req[r].token = t /\ ~Live(Jti(t))
        /\ req'[r] = [req[r] EXCEPT !.at = "consumed"]
    BY DEF Owes
  <2>2. req'[r].token = t
    BY <2>1 DEF TokensInv, TypeOK
  <2>3. QED
    BY <2>1, <2>2, <1>0 DEF Usable, Decodes, Family
<1>8. RequestsHold'
  <2>1. req'[r].at \in {"consumed", "revoking"} /\ req'[r].token = t
    BY DEF TokensInv, TypeOK
  <2>2. QED
    BY <2>1 DEF TokensInv, RequestsHold, Holding, Presented
<1>9. OneHeir'
  <2>1. \A x, y \in Tokens :
          Usable(x)' /\ Usable(y)' /\ token[x].family = token[y].family => x = y
    BY <1>5 DEF TokensInv, OneHeir
  <2>2. ASSUME NEW q \in Requests, NEW x \in Tokens, Owes(q)', Usable(x)'
        PROVE  Family(q)' # token[x].family
    <3>1. CASE q = r
      BY <2>2, <3>1, <1>0, <1>5, <1>7 DEF TokensInv, OneHeir
    <3>2. CASE q # r
      BY <2>2, <3>2, <1>5, <1>6 DEF TokensInv, OneHeir
    <3>3. QED
      BY <3>1, <3>2
  <2>3. ASSUME NEW p \in Requests, NEW q \in Requests, Owes(p)', Owes(q)',
               Family(p)' = Family(q)'
        PROVE  p = q
    <3>1. CASE p # r /\ q # r
      BY <2>3, <3>1, <1>6 DEF TokensInv, OneHeir
    <3>2. CASE p = r /\ q # r
      BY <2>3, <3>2, <1>0, <1>6, <1>7 DEF TokensInv, OneHeir
    <3>3. CASE p # r /\ q = r
      BY <2>3, <3>3, <1>0, <1>6, <1>7 DEF TokensInv, OneHeir
    <3>4. QED
      BY <3>1, <3>2, <3>3
  <2>4. QED
    BY <2>1, <2>2, <2>3 DEF OneHeir
<1>10. MarksOutlive'
  <2> SUFFICES ASSUME NEW s \in revoked
               PROVE  /\ s <= ntokens
                      /\ \/ token[s].exp <= now
                         \/ token[s].exp <= data'[FamilyKey(token[s].family)]
    BY DEF MarksOutlive, FamilyKey
  <2>1. /\ s \in Tokens /\ s <= ntokens /\ token[s].exp \in Nat
        /\ token[s].exp <= now \/ token[s].exp <= data[FamilyKey(token[s].family)]
    BY Shapes DEF TokensInv, TypeOK, MarksOutlive
  <2>2. token[s].family \in Tokens
    BY <2>1, FamiliesHaveKeys DEF Tokens
  <2>3. QED
    BY <2>1, <2>2, <1>0, <1>2
<1>11. \A s \in late : Live(FamilyKey(token[s].family))' => Live(FamilyKey(token[s].family))
  <2> SUFFICES ASSUME NEW s \in late, data'[FamilyKey(token[s].family)] > now
               PROVE  data[FamilyKey(token[s].family)] > now
    BY DEF Live, FamilyKey
  <2>1. s \in 1 .. ntokens
    BY DEF TokensInv, LateAreLast, TypeOK, Tokens
  <2>2. token[s].family \in Tokens
    BY <2>1, FamiliesHaveKeys
  <2>3. QED
    BY <2>2, <1>0, <1>2
<1>12. LateAreLast'
  <2> SUFFICES ASSUME NEW s \in late, Live(FamilyKey(token[s].family)),
                      NEW q \in Requests, Continues(q)'
               PROVE  Family(q)' # token[s].family
    BY <1>11 DEF LateAreLast, TokensInv
  <2>1. CASE q = r
    <3>1. Owes(r)'
      BY <2>1 DEF Continues, TokensInv, TypeOK
    <3>2. Continues(r)
      BY <3>1, <1>7 DEF Continues
    <3>3. QED
      BY <2>1, <3>1, <3>2, <1>7 DEF LateAreLast, TokensInv
  <2>2. CASE q # r
    <3>1. req'[q] = req[q] /\ (req[q].at = "consuming" => req[q].token \in Tokens)
      BY <2>2, Shapes DEF TokensInv, RequestsHold, Holding, Presented
    <3>2. Continues(q)
      <4>1. CASE Owes(q)'
        BY <4>1, <2>2, <1>6 DEF Continues
      <4>2. CASE req[q].at = "consuming" /\ Usable(req[q].token)'
        BY <4>2, <3>1, <1>5 DEF Continues
      <4>3. QED
        BY <4>1, <4>2, <3>1 DEF Continues
    <3>3. QED
      BY <2>2, <3>2, <1>6 DEF LateAreLast, TokensInv
  <2>3. QED
    BY <2>1, <2>2
<1>13. QED
  BY <1>3, <1>4, <1>8, <1>9, <1>10, <1>12 DEF TokensInv

(* A family is revoked, on a replay or at logout.                           *)
LEMMA RevokingKeeps ==
  ASSUME TokensInv, TypeOK', NEW r \in Requests, req[r].at \in {"reused", "revoking"},
         Revoke(Family(r)), Answer(r), UNCHANGED <<world, issued>>
  PROVE  TokensInv'
<1> USE DEF world, issued
<1> DEFINE g == Family(r)
<1>0. /\ now \in Nat /\ Lifetime \in Nat /\ Lifetime > 0 /\ Lifetime \in Int
      /\ UNCHANGED <<now, ntokens, token>>
  BY Shapes DEF TokensInv
<1>1. g \in Tokens /\ g <= ntokens /\ FamilyKey(g) \in Keys
  <2>1. req[r].token \in Tokens /\ req[r].token <= ntokens
    BY Shapes DEF TokensInv, RequestsHold, Holding
  <2>2. g \in 1 .. req[r].token
    BY <2>1 DEF TokensInv, TokensClaim, Family
  <2>3. QED
    BY <2>1, <2>2, Shapes DEF Tokens, TokensInv
<1>2. /\ data'[FamilyKey(g)] = now + Lifetime /\ revoked' = revoked \cup Of(g)
      /\ \A x \in Keys : x # FamilyKey(g) => data'[x] = IF data[x] > now THEN data[x] ELSE 0
  BY <1>0, <1>1, Writing DEF Revoke, TokensInv
<1>3. \A f \in Tokens :
        /\ f # g => /\ data'[FamilyKey(f)] = data[FamilyKey(f)] \/ data'[FamilyKey(f)] = 0
                    /\ data[FamilyKey(f)] > now => data'[FamilyKey(f)] = data[FamilyKey(f)]
        /\ data[FamilyKey(f)] \in Nat
  BY <1>1, <1>2, Shapes DEF TokensInv
<1>4. \A t \in Tokens : data'[Jti(t)] = IF data[Jti(t)] > now THEN data[Jti(t)] ELSE 0
  BY <1>1, <1>2, Shapes DEF TokensInv
<1>5. /\ \A q \in Requests : q # r => req'[q] = req[q]
      /\ req'[r].at = "idle"
  BY DEF Answer, Idle, TokensInv, TypeOK
<1>6. TokensClaim' /\ EntriesOutlive' /\ LateIsOne' /\ RequestsHold'
  <2>1. TokensClaim' /\ LateIsOne'
    BY <1>0 DEF TokensInv, TokensClaim, LateIsOne, Revoke
  <2>2. EntriesOutlive'
    BY <1>0, <1>4 DEF TokensInv, EntriesOutlive, Jti
  <2>3. RequestsHold'
    BY <1>0, <1>5 DEF TokensInv, RequestsHold, Holding, Presented
  <2>4. QED
    BY <2>1, <2>2, <2>3
<1>7. \A t \in Tokens : Usable(t)' <=> Usable(t)
  <2>1. \A t \in Tokens : data'[Jti(t)] > now <=> data[Jti(t)] > now
    BY <1>0, <1>4
  <2>2. QED
    BY <2>1, <1>0 DEF Usable, Decodes, Live, Jti
<1>8. \A q \in Requests : /\ Owes(q)' => Owes(q) /\ q # r
                          /\ q # r => Family(q)' = Family(q)
  BY <1>0, <1>5 DEF Owes, Family
<1>9. OneHeir'
  BY <1>0, <1>7, <1>8 DEF OneHeir, TokensInv
<1>10. MarksOutlive'
  <2> SUFFICES ASSUME NEW s \in revoked'
               PROVE  /\ s <= ntokens
                      /\ \/ token[s].exp <= now
                         \/ token[s].exp <= data'[FamilyKey(token[s].family)]
    BY <1>0 DEF MarksOutlive, FamilyKey
  <2>1. /\ s \in 1 .. ntokens /\ s <= ntokens
        /\ s \in revoked \/ token[s].family = g
    BY <1>2 DEF Of, TokensInv, TypeOK, Tokens, MarksOutlive
  <2>2. /\ s \in Tokens /\ token[s].family \in Tokens
        /\ token[s].exp \in Nat /\ token[s].exp <= now + Lifetime
    BY <2>1, FamiliesHaveKeys, Shapes DEF TokensInv, TokensClaim
  <2>3. CASE token[s].family = g
    BY <2>1, <2>2, <2>3, <1>2
  <2>4. CASE token[s].family # g
    <3>1. token[s].exp <= now \/ token[s].exp <= data[FamilyKey(token[s].family)]
      BY <2>1, <2>4 DEF TokensInv, MarksOutlive
    <3>2. /\ \/ data'[FamilyKey(token[s].family)] = data[FamilyKey(token[s].family)]
             \/ data'[FamilyKey(token[s].family)] = 0
          /\ data[FamilyKey(token[s].family)] > now =>
               data'[FamilyKey(token[s].family)] = data[FamilyKey(token[s].family)]
          /\ data[FamilyKey(token[s].family)] \in Nat
      BY <2>2, <2>4, <1>3
    <3>3. QED
      BY <2>1, <2>2, <3>1, <3>2, <1>0
  <2>5. QED
    BY <2>3, <2>4
(* A late token of the family is forgotten, unless its mark still lived.    *)
<1>11. ASSUME NEW s \in late', Live(FamilyKey(token[s].family))'
       PROVE  s \in late /\ Live(FamilyKey(token[s].family))
  <2>1. s \in late /\ (s \in Of(g) => Live(FamilyKey(g)))
    BY <1>11 DEF Revoke
  <2>2. s \in 1 .. ntokens
    BY <2>1 DEF TokensInv, LateAreLast, TypeOK, Tokens
  <2>3. token[s].family \in Tokens /\ data'[FamilyKey(token[s].family)] > now
    BY <2>2, <1>0, <1>11, FamiliesHaveKeys DEF Live, FamilyKey
  <2>4. CASE token[s].family = g
    BY <2>1, <2>2, <2>4 DEF Of
  <2>5. CASE token[s].family # g
    BY <2>1, <2>3, <2>5, <1>0, <1>3 DEF Live
  <2>6. QED
    BY <2>4, <2>5
<1>12. LateAreLast'
  <2>1. ASSUME NEW q \in Requests, Continues(q)'
        PROVE  Continues(q) /\ Family(q)' = Family(q)
    <3>1. q # r /\ req'[q] = req[q]
      BY <2>1, <1>5 DEF Continues, Owes
    <3>2. req[q].at = "consuming" => req[q].token \in Tokens
      BY Shapes DEF TokensInv, RequestsHold, Holding, Presented
    <3>3. CASE Owes(q)'
      BY <3>1, <3>3, <1>8 DEF Continues
    <3>4. CASE req[q].at = "consuming" /\ Usable(req[q].token)'
      BY <3>1, <3>2, <3>4, <1>7, <1>8 DEF Continues
    <3>5. QED
      BY <2>1, <3>1, <3>3, <3>4 DEF Continues
  <2>2. ASSUME NEW s \in late' PROVE s <= ntokens
    BY <2>2 DEF Revoke, TokensInv, LateAreLast
  <2>3. ASSUME NEW s \in late', Live(FamilyKey(token[s].family))',
               NEW q \in Requests, Continues(q)'
        PROVE  Family(q)' # token[s].family
    BY <2>1, <2>3, <1>11 DEF LateAreLast, TokensInv
  <2>4. QED
    BY <2>2, <2>3, <1>0 DEF LateAreLast, Live, FamilyKey
<1>13. QED
  BY <1>6, <1>9, <1>10, <1>12 DEF TokensInv

(* A token is issued, for a new family or for one that a request owes.      *)
LEMMA IssuingKeeps ==
  ASSUME TokensInv, TypeOK', NEW r \in Requests, NEW u, NEW f \in Nat,
         Mint(u, f), Answer(r), UNCHANGED <<world, data, revoked>>,
         \/ f = 0 /\ late' = late
         \/ /\ Owes(r) /\ f = Family(r)
            /\ late' = IF Live(FamilyKey(f)) THEN late \cup {ntokens + 1} ELSE late
  PROVE  TokensInv'
<1> DEFINE t == ntokens + 1
           g == IF f = 0 THEN t ELSE f
<1>0. /\ now \in Nat /\ ntokens \in Nat /\ Lifetime \in Nat /\ Lifetime > 0
      /\ UNCHANGED <<now, data, revoked>>
      /\ t \in Tokens /\ ntokens' = t /\ t > ntokens
  BY Shapes DEF Mint, Tokens, TokensInv, world
<1>1. /\ token'[t].family = g /\ token'[t].exp = now + Lifetime
      /\ \A s \in Tokens : s # t => token'[s] = token[s]
  BY <1>0 DEF Mint, TokensInv, TypeOK
<1>2. \A s \in Tokens : s <= ntokens => /\ token[s].family \in Nat
                                        /\ token[s].family <= ntokens
  BY <1>0, Shapes DEF TokensInv, TokensClaim
<1>3. \A q \in Requests :
        req[q].at \in Holding =>
          /\ req[q].token \in Tokens /\ req[q].token <= ntokens /\ req[q].token # t
          /\ Family(q) \in 1 .. ntokens
  <2> SUFFICES ASSUME NEW q \in Requests, req[q].at \in Holding
               PROVE  /\ req[q].token \in Tokens /\ req[q].token <= ntokens
                      /\ req[q].token # t /\ Family(q) \in 1 .. ntokens
    OBVIOUS
  <2>1. req[q].token \in 1 .. ntokens
    BY DEF TokensInv, RequestsHold
  <2>2. req[q].token \in Tokens /\ req[q].token <= ntokens /\ req[q].token # t
    BY <2>1, <1>0, Shapes DEF TokensInv
  <2>3. Family(q) \in 1 .. req[q].token
    BY <2>2 DEF TokensInv, TokensClaim, Family
  <2>4. QED
    BY <2>1, <2>2, <2>3, <1>0
<1>4. g \in 1 .. t /\ (Owes(r) => Family(r) \in 1 .. ntokens)
  BY <1>0, <1>3 DEF Owes, Holding
<1>5. /\ \A q \in Requests : q # r => req'[q] = req[q]
      /\ req'[r].at = "idle"
  BY DEF Answer, Idle, TokensInv, TypeOK
<1>6. \A s \in Tokens : s # t => (Usable(s)' <=> Usable(s))
  <2>1. \A s \in Tokens : s # t => (s <= ntokens' <=> s <= ntokens)
    BY <1>0, Shapes DEF TokensInv
  <2>2. QED
    BY <2>1, <1>0, <1>1 DEF Usable, Decodes, Live, Jti
<1>7. ASSUME NEW q \in Requests, req'[q].at \in Holding
      PROVE  /\ q # r /\ req'[q] = req[q] /\ Family(q)' = Family(q)
             /\ Family(q) \in 1 .. ntokens /\ req[q].token # t /\ req[q].token \in Tokens
  <2>1. q # r /\ req'[q] = req[q]
    BY <1>5, <1>7 DEF Holding, Presented
  <2>2. QED
    BY <2>1, <1>1, <1>3, <1>7 DEF Family
(* Nobody else continues the family of the new token. *)
<1>8. ASSUME NEW s \in Tokens, s <= ntokens, Usable(s) PROVE token[s].family # g
  BY <1>8, <1>0, <1>2 DEF TokensInv, OneHeir
<1>9. ASSUME NEW q \in Requests, q # r, Owes(q) PROVE Family(q) # g
  BY <1>9, <1>0, <1>3 DEF TokensInv, OneHeir, Owes, Holding
<1>10. TokensClaim'
  <2> SUFFICES ASSUME NEW s \in Tokens
               PROVE  /\ s <= ntokens' => /\ token'[s].family \in 1 .. s
                                          /\ token'[s].exp <= now + Lifetime
                      /\ s > ntokens' => token'[s] = NoToken
    BY <1>0 DEF TokensClaim
  <2>1. CASE s = t
    BY <2>1, <1>0, <1>1, <1>4
  <2>2. CASE s # t
    BY <2>2, <1>0, <1>1, Shapes DEF TokensInv, TokensClaim
  <2>3. QED
    BY <2>1, <2>2
<1>11. EntriesOutlive'
  <2> SUFFICES ASSUME NEW s \in Tokens, data[Jti(s)] # 0
               PROVE  s <= ntokens' /\ data[Jti(s)] >= token'[s].exp
    BY <1>0 DEF EntriesOutlive, Jti
  <2>1. s <= ntokens /\ data[Jti(s)] >= token[s].exp
    BY DEF TokensInv, EntriesOutlive
  <2>2. QED
    BY <2>1, <1>0, <1>1, Shapes DEF TokensInv
<1>12. RequestsHold'
  <2> SUFFICES ASSUME NEW q \in Requests, req'[q].at \in Holding
               PROVE  /\ req'[q].token \in 1 .. ntokens'
                      /\ req'[q].at \in Presented =>
                           /\ req'[q].ttl = token'[req'[q].token].exp - now
                           /\ req'[q].ttl > 0
    BY <1>0 DEF RequestsHold, Holding
  <2>1. req[q].token \in 1 .. ntokens
    BY <1>7 DEF TokensInv, RequestsHold
  <2>2. QED
    BY <2>1, <1>0, <1>1, <1>7 DEF TokensInv, RequestsHold
<1>13. OneHeir'
  <2>1. ASSUME NEW x \in Tokens, NEW y \in Tokens, Usable(x)', Usable(y)',
               token'[x].family = token'[y].family, x # t
        PROVE  x = y
    <3>1. Usable(x) /\ x <= ntokens /\ token'[x].family # g
      BY <2>1, <1>1, <1>6, <1>8 DEF Usable, Decodes
    <3>2. y # t /\ Usable(y)
      BY <2>1, <3>1, <1>1, <1>6
    <3>3. QED
      BY <2>1, <3>1, <3>2, <1>1 DEF TokensInv, OneHeir
  <2>2. ASSUME NEW q \in Requests, NEW x \in Tokens, Owes(q)', Usable(x)'
        PROVE  Family(q)' # token'[x].family
    <3>1. /\ q # r /\ Owes(q) /\ Family(q)' = Family(q)
      BY <2>2, <1>7 DEF Owes, Holding
    <3>2. CASE x = t
      BY <3>1, <3>2, <1>1, <1>9
    <3>3. CASE x # t
      BY <2>2, <3>1, <3>3, <1>1, <1>6 DEF TokensInv, OneHeir
    <3>4. QED
      BY <3>2, <3>3
  <2>3. ASSUME NEW p \in Requests, NEW q \in Requests, Owes(p)', Owes(q)',
               Family(p)' = Family(q)'
        PROVE  p = q
    <3>1. Owes(p) /\ Family(p)' = Family(p)
      BY <2>3, <1>7 DEF Owes, Holding
    <3>2. Owes(q) /\ Family(q)' = Family(q)
      BY <2>3, <1>7 DEF Owes, Holding
    <3>3. QED
      BY <2>3, <3>1, <3>2 DEF TokensInv, OneHeir
  <2>4. QED
    BY <2>1, <2>2, <2>3 DEF OneHeir
<1>14. MarksOutlive'
  <2> SUFFICES ASSUME NEW s \in revoked
               PROVE  /\ s <= ntokens'
                      /\ \/ token'[s].exp <= now
                         \/ token'[s].exp <= data[FamilyKey(token'[s].family)]
    BY <1>0 DEF MarksOutlive, FamilyKey
  <2>1. s \in Tokens /\ s <= ntokens /\ s \in Nat
    BY <1>0 DEF TokensInv, MarksOutlive, TypeOK, Tokens
  <2>2. QED
    BY <2>1, <1>0, <1>1 DEF TokensInv, MarksOutlive
<1>16. ASSUME NEW q \in Requests, Continues(q)'
       PROVE  Continues(q) /\ Family(q)' = Family(q) /\ Family(q) # g
  <2>1. /\ q # r /\ req'[q] = req[q] /\ Family(q)' = Family(q)
        /\ req[q].token # t /\ req[q].token \in Tokens
    BY <1>16, <1>7 DEF Continues, Owes, Holding, Presented
  <2>2. CASE Owes(q)'
    <3>1. Owes(q)
      BY <2>1, <2>2 DEF Owes
    <3>2. QED
      BY <2>1, <3>1, <1>9 DEF Continues
  <2>3. CASE req[q].at = "consuming" /\ Usable(req[q].token)'
    <3>1. Usable(req[q].token)
      BY <2>1, <2>3, <1>6
    <3>2. token[req[q].token].family # g
      BY <2>1, <3>1, <1>8 DEF Usable, Decodes
    <3>3. QED
      BY <2>1, <2>3, <3>1, <3>2 DEF Continues, Family
  <2>4. QED
    BY <1>16, <2>1, <2>2, <2>3 DEF Continues
<1>17. \A s \in late : /\ s \in Tokens /\ s <= ntokens /\ token'[s] = token[s]
                        /\ s <= ntokens'
  BY <1>0, <1>1, Shapes DEF TokensInv, TypeOK, LateAreLast
<1>18. ASSUME NEW s \in late', s \notin late
       PROVE  s = t /\ Live(FamilyKey(g)) /\ Owes(r) /\ Family(r) = g
  BY <1>18, <1>0, <1>3 DEF Owes, Holding
<1>19. LateAreLast'
  <2> SUFFICES ASSUME NEW s \in late'
               PROVE  /\ s <= ntokens'
                      /\ Live(FamilyKey(token'[s].family)) =>
                           \A q \in Requests : Continues(q)' => Family(q)' # token'[s].family
    BY <1>0 DEF LateAreLast, Live, FamilyKey
  <2>1. CASE s \in late
    BY <2>1, <1>16, <1>17 DEF TokensInv, LateAreLast
  <2>2. CASE s \notin late
    BY <2>2, <1>0, <1>1, <1>16, <1>18
  <2>3. QED
    BY <2>1, <2>2
<1>20. LateIsOne'
  <2>1. ASSUME NEW s \in late', NEW x \in late', token'[s].family = token'[x].family, s \in late
        PROVE  s = x
    <3>1. CASE x \in late
      BY <2>1, <3>1, <1>17 DEF TokensInv, LateIsOne
    <3>2. CASE x \notin late
      <4>1. /\ x = t /\ Owes(r) /\ Family(r) = g /\ Live(FamilyKey(g))
            /\ token[s].family = g
        BY <2>1, <3>2, <1>1, <1>17, <1>18
      <4>2. QED
        BY <2>1, <4>1 DEF TokensInv, LateAreLast, Continues
    <3>3. QED
      BY <3>1, <3>2
  <2>2. QED
    BY <2>1, <1>18 DEF LateIsOne
<1>21. QED
  BY <1>10, <1>11, <1>12, <1>13, <1>14, <1>19, <1>20 DEF TokensInv

(* Time passes while every request that is being answered waits for the    *)
(* database.                                                               *)
LEMMA TickKeeps ==
  ASSUME TokensInv, TypeOK', Tick
  PROVE  TokensInv'
<1>0. /\ now' = now + 1 /\ now \in Nat
      /\ UNCHANGED <<ntokens, token, data, req, revoked, late>>
      /\ \A r \in Requests : req[r].at \in AtDatabase \cup {"idle"}
  BY Shapes DEF Tick, issued, history, TokensInv
<1>1. TokensClaim' /\ EntriesOutlive' /\ LateIsOne'
  <2>1. \A t \in Tokens : token[t].exp <= now + Lifetime => token[t].exp <= now' + Lifetime
    BY <1>0, Shapes DEF TokensInv
  <2>2. QED
    BY <2>1, <1>0 DEF TokensInv, TokensClaim, EntriesOutlive, LateIsOne, Jti
<1>2. MarksOutlive'
  <2> SUFFICES ASSUME NEW t \in revoked
               PROVE  /\ t <= ntokens
                      /\ \/ token[t].exp <= now'
                         \/ token[t].exp <= data[FamilyKey(token[t].family)]
    BY <1>0 DEF MarksOutlive, FamilyKey
  <2>1. /\ t <= ntokens
        /\ token[t].exp <= now \/ token[t].exp <= data[FamilyKey(token[t].family)]
    BY DEF TokensInv, MarksOutlive
  <2>2. token[t].exp \in Nat
    BY Shapes DEF TokensInv, TypeOK
  <2>3. QED
    BY <2>1, <2>2, <1>0
<1>3. RequestsHold'
  BY <1>0 DEF TokensInv, RequestsHold, Holding, Presented, AtDatabase
<1>4. LateAreLast'
  <2> SUFFICES ASSUME NEW s \in late, Live(FamilyKey(token[s].family))',
                      NEW q \in Requests, Continues(q)'
               PROVE  Family(q) # token[s].family
    BY <1>0 DEF LateAreLast, TokensInv, Family, Live, FamilyKey
  <2>1. s \in 1 .. ntokens
    BY DEF TokensInv, LateAreLast, TypeOK, Tokens
  <2>2. data[FamilyKey(token[s].family)] \in Nat
    BY <2>1, FamiliesHaveKeys DEF TokensInv, TypeOK
  <2>3. Live(FamilyKey(token[s].family))
    BY <2>2, <1>0 DEF Live, FamilyKey
  <2>4. Continues(q)
    BY <1>0 DEF Continues, Owes, AtDatabase
  <2>5. QED
    BY <2>3, <2>4 DEF LateAreLast, TokensInv
<1>5. OneHeir'
  <2>1. ASSUME NEW t \in Tokens, Usable(t)' PROVE Usable(t)
    <3>1. t <= ntokens /\ token[t].exp > now /\ ~(data[Jti(t)] > now + 1)
      BY <2>1, <1>0, Shapes DEF Usable, Decodes, Live, Jti, TokensInv
    <3>2. token[t].exp > now + 1
      BY <2>1, <1>0 DEF Usable, Decodes
    <3>3. data[Jti(t)] = 0
      BY <3>1, <3>2, <1>0, Shapes DEF TokensInv, EntriesOutlive
    <3>4. QED
      BY <3>1, <3>3, UsableHasNoEntry DEF TokensInv
  <2>2. QED
    BY <2>1, <1>0 DEF OneHeir, TokensInv, Owes, Family
<1>6. QED
  BY <1>1, <1>2, <1>3, <1>4, <1>5 DEF TokensInv

(* Types, action by action. *)
LEMMA TypesKeep ==
  ASSUME TokensInv, NEW r \in Requests, Login(r) \/ Refresh(r) \/ Logout(r)
  PROVE  TypeOK'
<1> USE DEF world, issued, history
<1>0. TypeOK /\ Idle \in [at : Steps, user : Users \cup {NoUser},
                          token : 0 .. MaxTokens, ttl : Int]
  BY TokensAssumption DEF TokensInv, Idle, Steps
<1>1. ASSUME NEW u \in Users, Authenticate(r, u) PROVE TypeOK'
  BY <1>0, <1>1 DEF Authenticate, TypeOK, Idle, Steps
<1>2. CASE UpdateLastLogin(r)
  BY <1>0, <1>2 DEF UpdateLastLogin, Goto, TypeOK, Steps
<1>3. ASSUME NEW u \in Users \cup {NoUser}, NEW f \in 0 .. MaxTokens, Mint(u, f), Answer(r),
             UNCHANGED <<world, data, revoked>>, late' \in SUBSET Tokens
      PROVE  TypeOK'
  <2>1. /\ ntokens + 1 \in Tokens /\ ntokens + 1 \in 0 .. MaxTokens /\ now + Lifetime \in Nat
        /\ ntokens + 1 # 0
    BY <1>0, <1>3, Shapes DEF Mint, Tokens
  <2>2. [user |-> u, family |-> IF f = 0 THEN ntokens + 1 ELSE f, exp |-> now + Lifetime]
          \in [user : Users \cup {NoUser}, family : 0 .. MaxTokens, exp : Nat]
    BY <2>1, <1>3
  <2>3. /\ ntokens' \in 0 .. MaxTokens
        /\ token' \in [Tokens -> [user : Users \cup {NoUser}, family : 0 .. MaxTokens,
                                  exp : Nat]]
    BY <1>0, <1>3, <2>1, <2>2 DEF Mint, TypeOK
  <2>4. QED
    BY <1>0, <1>3, <2>3 DEF TypeOK, Answer
<1>4. CASE LoginIssues(r)
  <2>1. req[r].user \in Users \cup {NoUser} /\ 0 \in 0 .. MaxTokens /\ late' \in SUBSET Tokens
    BY <1>0, <1>4, TokensAssumption DEF LoginIssues, TypeOK
  <2>2. QED
    BY <1>3, <1>4, <2>1 DEF LoginIssues
<1>5. CASE RefreshIssues(r)
  <2>1. req[r].token \in Tokens
    BY <1>0, <1>5, Shapes DEF RefreshIssues, TokensInv, RequestsHold, Holding
  <2>2. req[r].user \in Users \cup {NoUser} /\ Family(r) \in 0 .. MaxTokens
    BY <1>0, <2>1 DEF TypeOK, Family
  <2>3. late' \in SUBSET Tokens
    BY <1>0, <1>5, Shapes, SMTT(30) DEF RefreshIssues, Mint, TypeOK, Tokens
  <2>4. QED
    BY <1>3, <1>5, <2>2, <2>3 DEF RefreshIssues
<1>6. ASSUME NEW t \in Tokens, Present(r, t) PROVE TypeOK'
  <2>1. [at |-> "checking", user |-> token[t].user, token |-> t, ttl |-> token[t].exp - now]
          \in [at : Steps, user : Users \cup {NoUser}, token : 0 .. MaxTokens, ttl : Int]
    BY <1>0, Shapes DEF TypeOK, Steps
  <2>2. QED
    BY <1>0, <1>6, <2>1 DEF Present, TypeOK
<1>7. CASE CheckFamily(r) \/ LookUpUser(r) \/ LookUpFails(r)
  BY <1>0, <1>7, SMTT(30) DEF CheckFamily, LookUpUser, LookUpFails, Goto, Answer, TypeOK, Steps
<1>8. CASE ConsumeOnce(r)
  <2>1. Jti(req[r].token) \in Keys /\ req[r].ttl \in Int
    BY <1>0, <1>8, Shapes
    DEF ConsumeOnce, TokensInv, RequestsHold, Holding, Presented, TypeOK
  <2>2. data' \in [Keys -> Nat]
    BY <1>0, <1>8, <2>1, Writing DEF ConsumeOnce, TypeOK
  <2>3. QED
    BY <1>0, <1>8, <2>2 DEF ConsumeOnce, Goto, TypeOK, Steps
<1>9. CASE RevokeReused(r) \/ LogoutRevokes(r)
  <2>1. req[r].token \in Tokens
    BY <1>0, <1>9, Shapes DEF RevokeReused, LogoutRevokes, TokensInv, RequestsHold, Holding
  <2>2. Family(r) \in Tokens
    BY <2>1, <1>9, <1>0, Shapes
    DEF TokensInv, TokensClaim, Family, Tokens, RequestsHold, Holding, RevokeReused,
        LogoutRevokes
  <2>3. FamilyKey(Family(r)) \in Keys /\ Lifetime \in Int
    BY <2>2, <1>0, Shapes
  <2>4. data' \in [Keys -> Nat]
    BY <1>0, <1>9, <2>3, Writing DEF RevokeReused, LogoutRevokes, Revoke
  <2>5. revoked' \subseteq Tokens /\ late' \subseteq Tokens
    BY <1>0, <1>9, Shapes DEF RevokeReused, LogoutRevokes, Revoke, Of, TypeOK
  <2>6. QED
    BY <1>0, <1>9, <2>4, <2>5 DEF RevokeReused, LogoutRevokes, Revoke, Answer, TypeOK
<1>10. ASSUME NEW t \in Tokens, LogoutConsumes(r, t) PROVE TypeOK'
  <2>1. Jti(t) \in Keys /\ token[t].exp - now \in Int /\ t \in 0 .. MaxTokens
    BY <1>0, Shapes
  <2>2. data' \in [Keys -> Nat]
    BY <1>0, <1>10, <2>1, Writing DEF LogoutConsumes
  <2>3. QED
    BY <1>0, <1>10, <2>1, <2>2 DEF LogoutConsumes, TypeOK, Idle, Steps
<1>11. QED
  BY <1>1, <1>2, <1>4, <1>5, <1>6, <1>7, <1>8, <1>9, <1>10 DEF Login, Refresh, Logout

(* The handlers keep the invariant.                                         *)
LEMMA HandlersKeep ==
  ASSUME TokensInv, NEW r \in Requests, Login(r) \/ Refresh(r) \/ Logout(r)
  PROVE  TokensInv'
<1> USE DEF world, issued, history
<1>0. TypeOK' /\ TypeOK
  BY TypesKeep DEF TokensInv
<1>1. ASSUME NEW t \in Tokens, Present(r, t) PROVE TokensInv'
  <2>1. \A q \in Requests : Harmless(q)
    BY <1>0, <1>1, Shapes DEF Present, Decodes, Harmless, TypeOK
  <2>2. QED
    BY <1>0, <1>1, <2>1, QuietKeeps DEF Present
<1>2. ASSUME \/ \E u \in Users : Authenticate(r, u)
             \/ UpdateLastLogin(r) \/ CheckFamily(r) \/ LookUpUser(r) \/ LookUpFails(r)
      PROVE  TokensInv'
  <2>1. UNCHANGED <<now, issued, data, history>>
    BY <1>2 DEF Authenticate, UpdateLastLogin, CheckFamily, LookUpUser, LookUpFails
  <2>2. ASSUME NEW q \in Requests, q # r PROVE req'[q] = req[q]
    BY <1>0, <1>2, <2>2
    DEF Authenticate, UpdateLastLogin, CheckFamily, LookUpUser, LookUpFails, Goto, Answer, TypeOK
  <2>3. Harmless(r)
    <3>1. CASE (\E u \in Users : Authenticate(r, u)) \/ UpdateLastLogin(r) \/ LookUpFails(r)
      <4>1. req'[r].at \in {"idle", "authenticated", "lastlogin"}
        <5>1. ASSUME NEW u \in Users, Authenticate(r, u)
              PROVE  req'[r].at = "authenticated"
          BY <1>0, <5>1 DEF Authenticate, Idle, TypeOK
        <5>2. CASE UpdateLastLogin(r) \/ LookUpFails(r)
          BY <1>0, <5>2 DEF UpdateLastLogin, LookUpFails, Goto, Answer, Idle, TypeOK
        <5>3. QED
          BY <3>1, <5>1, <5>2
      <4>2. QED
        BY <4>1 DEF Harmless
    <3>2. CASE CheckFamily(r)
      <4>1. req[r].at = "checking"
        BY <3>2 DEF CheckFamily
      <4>2. CASE Answer(r)
        BY <1>0, <4>2 DEF Answer, Harmless, Idle, TypeOK
      <4>3. CASE ~Live(FamilyKey(Family(r))) /\ Goto(r, "consuming")
        BY <1>0, <4>1, <4>3 DEF Goto, Harmless, TypeOK
      <4>4. QED
        BY <3>2, <4>2, <4>3 DEF CheckFamily
    <3>3. CASE LookUpUser(r)
      <4>1. req[r].at = "consumed"
        BY <3>3 DEF LookUpUser
      <4>2. CASE Answer(r)
        BY <1>0, <4>2 DEF Answer, Harmless, Idle, TypeOK
      <4>3. CASE Goto(r, "issuing")
        BY <1>0, <4>1, <4>3 DEF Goto, Harmless, TypeOK
      <4>4. QED
        BY <3>3, <4>2, <4>3 DEF LookUpUser
    <3>4. QED
      BY <1>2, <3>1, <3>2, <3>3
  <2>4. QED
    BY <1>0, <2>1, <2>2, <2>3, QuietKeeps DEF Harmless
<1>3. CASE LoginIssues(r)
  <2>1. 0 \in Nat /\ late' = late /\ revoked' = revoked
    BY <1>3 DEF LoginIssues
  <2>2. QED
    BY <1>0, <1>3, <2>1, IssuingKeeps DEF LoginIssues
<1>4. CASE RefreshIssues(r)
  <2>1. req[r].token \in Tokens
    BY <1>0, <1>4, Shapes DEF RefreshIssues, TokensInv, RequestsHold, Holding
  <2>2. Family(r) \in Nat /\ Owes(r)
    BY <1>0, <1>4, <2>1, Shapes DEF Family, Owes, RefreshIssues
  <2>3. QED
    BY <1>0, <1>4, <2>2, IssuingKeeps DEF RefreshIssues
<1>5. CASE ConsumeOnce(r)
  <2>1. /\ req[r].at = "consuming" /\ req[r].token \in 1 .. ntokens
        /\ req[r].token \in Tokens
        /\ req[r].ttl = token[req[r].token].exp - now /\ req[r].ttl > 0
    BY <1>0, <1>5, Shapes DEF ConsumeOnce, TokensInv, RequestsHold, Holding, Presented
  <2>2. ASSUME NEW q \in Requests, q # r PROVE req'[q] = req[q]
    BY <1>0, <1>5, <2>2 DEF ConsumeOnce, Goto, TypeOK
  <2>3. CASE Goto(r, "reused") /\ UNCHANGED data
    <3>1. Harmless(r)
      BY <1>0, <2>1, <2>3 DEF Goto, Harmless, TypeOK
    <3>2. QED
      BY <1>0, <1>5, <2>2, <2>3, <3>1, QuietKeeps DEF Harmless, ConsumeOnce
  <2>4. CASE ~Live(Jti(req[r].token)) /\ Goto(r, "consumed")
               /\ Write(Jti(req[r].token), req[r].ttl)
    <3>1. token[req[r].token].exp > now
      BY <1>0, <2>1, Shapes
    <3>2. req'[r] = [req[r] EXCEPT !.at = "consumed"]
      BY <1>0, <2>4 DEF Goto, TypeOK
    <3>3. QED
      BY <1>0, <1>5, <2>1, <2>2, <2>4, <3>1, <3>2, ConsumingKeeps DEF ConsumeOnce
  <2>5. QED
    BY <1>5, <2>3, <2>4 DEF ConsumeOnce
<1>6. CASE RevokeReused(r) \/ LogoutRevokes(r)
  BY <1>0, <1>6, RevokingKeeps DEF RevokeReused, LogoutRevokes
<1>7. ASSUME NEW t \in Tokens, LogoutConsumes(r, t) PROVE TokensInv'
  <2>1. t \in 1 .. ntokens /\ token[t].exp > now
    BY <1>0, <1>7, Shapes DEF LogoutConsumes, Decodes
  <2>2. /\ req'[r].at = "revoking" /\ req'[r].token = t
        /\ \A q \in Requests : q # r => req'[q] = req[q]
    BY <1>0, <1>7 DEF LogoutConsumes, Idle, TypeOK
  <2>3. QED
    BY <1>0, <1>7, <2>1, <2>2, ConsumingKeeps DEF LogoutConsumes
<1>8. QED
  BY <1>1, <1>2, <1>3, <1>4, <1>5, <1>6, <1>7 DEF Login, Refresh, Logout

LEMMA StepKeeps == TokensInv /\ [Next]_vars => TokensInv'
<1> SUFFICES ASSUME TokensInv, [Next]_vars PROVE TokensInv'
  OBVIOUS
<1>1. CASE \E r \in Requests : Login(r) \/ Refresh(r) \/ Logout(r)
  BY <1>1, HandlersKeep
<1>2. ASSUME NEW u \in Users, Bar(u, "inactive") \/ Bar(u, "deleted") PROVE TokensInv'
  <2>1. TypeOK' /\ UNCHANGED <<now, issued, data, req, history>>
    BY <1>2 DEF Bar, TokensInv, TypeOK, issued, history
  <2>2. QED
    BY <2>1, QuietKeeps DEF Harmless
<1>3. CASE Tick
  <2>1. TypeOK'
    BY <1>3, TokensAssumption DEF Tick, TokensInv, TypeOK, issued, history
  <2>2. QED
    BY <1>3, <2>1, TickKeeps
<1>4. CASE UNCHANGED vars
  <2>1. TypeOK' /\ UNCHANGED <<now, issued, data, req, history>>
    BY <1>4 DEF vars, world, TokensInv, TypeOK, issued, history
  <2>2. QED
    BY <2>1, QuietKeeps DEF Harmless
<1>5. QED
  BY <1>1, <1>2, <1>3, <1>4 DEF Next

(* The inductive invariant of the handlers: consumed tokens and revoked     *)
(* families are marked for long enough.                                    *)
THEOREM TokensInvariant == Spec => []TokensInv
<1>1. TokensInv /\ [Next]_vars => TokensInv'
  BY StepKeeps
<1>2. QED
  BY <1>1, InitSatisfies, PTL DEF Spec

(* No interleaving of refreshes, replays and logouts gives a login two      *)
(* heirs.                                                                  *)
THEOREM LoginsHaveOneHeir == Spec => []OneHeir
<1>1. TokensInv => OneHeir
  BY DEF TokensInv
<1>2. QED
  BY <1>1, TokensInvariant, PTL

(* What was issued before a revocation is not accepted after it, and while  *)
(* the mark of the family lives at most one token more is issued in it.    *)
THEOREM FamiliesEnd == Spec => []RevokedFamiliesEnd
<1>1. TokensInv => RevokedFamiliesEnd
  <2> SUFFICES ASSUME TokensInv PROVE RevokedFamiliesEnd
    OBVIOUS
  <2>1. ASSUME NEW t \in revoked, Decodes(t)
        PROVE  Live(FamilyKey(token[t].family))
    <3>1. t \in 1 .. ntokens /\ token[t].exp > now
      BY <2>1 DEF Decodes, TokensInv, TypeOK, Tokens
    <3>2. data[FamilyKey(token[t].family)] \in Nat /\ token[t].exp \in Nat /\ now \in Nat
      BY <3>1, FamiliesHaveKeys, Shapes DEF TokensInv, TypeOK
    <3>3. token[t].exp <= now \/ token[t].exp <= data[FamilyKey(token[t].family)]
      BY DEF TokensInv, MarksOutlive
    <3>4. QED
      BY <3>1, <3>2, <3>3 DEF Live
  <2>2. QED
    BY <2>1 DEF RevokedFamiliesEnd, TokensInv, LateIsOne
<1>2. QED
  BY <1>1, TokensInvariant, PTL

-----------------------------------------------------------------------------
(* Signing keys. *)

(* Of the types, what the cooldown needs: times are numbers, and each login *)
(* is somewhere.                                                           *)
ClockInv ==
  /\ now \in Nat /\ forced \in Int
  /\ login \in [Logins -> [at : {"idle", "called", "stale", "refresh", "unknown", "force"},
                           kid : Kids \cup {NoKid}]]

Cooled == forced = -1 \/ now - forced >= Cooldown

(* Where a login may be after a step that does not force a fetch. *)
Elsewhere(l) ==
  \/ login' = [login EXCEPT ![l] = IdleLogin]
  \/ \E at \in {"called", "stale", "refresh", "unknown"} : login' = [login EXCEPT ![l].at = at]
  \/ \E k \in Kids : login' = [login EXCEPT ![l] = [at |-> "called", kid |-> k]]

ForcesAFetch(l) ==
  forced' = now /\ Cooled /\ login' = [login EXCEPT ![l].at = "force"]

(* A step of a login either forces no fetch and leaves the cooldown alone,  *)
(* or it forces one that the cooldown did not refuse.                      *)
StepOf(l) == (Elsewhere(l) /\ forced' = forced) \/ ForcesAFetch(l)

LEMMA NotInCooldown ==
  ASSUME ClockInv, Cooldown \in Nat, ~InCooldown
  PROVE  Cooled
BY DEF ClockInv, InCooldown, Cooled

(* The second half of get_signing_key forces only what it does not refuse.  *)
LEMMA Resolving ==
  ASSUME ClockInv, Cooldown \in Nat, NEW l, NEW keys, NEW waiting,
         Resolve(l, keys, waiting)
  PROVE  StepOf(l)
<1> DEFINE k == login[l].kid
<1>1. CASE k \in keys /\ Reply(l, "key") /\ UNCHANGED forced
  BY <1>1 DEF Reply, StepOf, Elsewhere
<1>2. CASE k \notin keys /\ Reply(l, "refused") /\ UNCHANGED forced
  BY <1>2 DEF Reply, StepOf, Elsewhere
<1>3. CASE k \notin keys /\ ~Refused(k) /\ ForceFetch(l)
  BY <1>3, NotInCooldown DEF Refused, ForceFetch, Send, Await, StepOf, ForcesAFetch
<1>4. CASE k \notin keys /\ Queue(l, "unknown", waiting)
  BY <1>4 DEF Queue, Await, StepOf, Elsewhere
<1>5. QED
  BY <1>1, <1>2, <1>3, <1>4 DEF Resolve

LEMMA Logging ==
  ASSUME ClockInv, Cooldown \in Nat, NEW l \in Logins,
         \/ \E k \in Kids : Arrive(l, k)
         \/ Call(l) \/ TakeForStale(l) \/ TakeForUnknown(l)
         \/ RefreshArrives(l) \/ ForcedArrives(l) \/ FetchFails(l)
  PROVE  StepOf(l) /\ now' = now
<1>1. CASE \E k \in Kids : Arrive(l, k)
  BY <1>1 DEF Arrive, jwksCache, StepOf, Elsewhere
<1>2. CASE Call(l)
  <2>1. CASE Send(l, "refresh") /\ UNCHANGED forced
    BY <2>1, <1>2 DEF Call, Send, Await, StepOf, Elsewhere
  <2>2. CASE Queue(l, "stale", queue)
    BY <2>2, <1>2 DEF Call, Queue, Await, StepOf, Elsewhere
  <2>3. QED
    BY <1>2, <2>1, <2>2, Resolving DEF Call
<1>3. CASE TakeForStale(l)
  <2>1. CASE Send(l, "refresh") /\ UNCHANGED forced
    BY <2>1, <1>3 DEF Send, Await, StepOf, Elsewhere, TakeForStale
  <2>2. QED
    BY <1>3, <2>1, Resolving DEF TakeForStale
<1>4. CASE TakeForUnknown(l)
  <2>1. CASE \E what \in {"key", "refused"} : Reply(l, what) /\ UNCHANGED forced
    BY <2>1, <1>4 DEF Reply, StepOf, Elsewhere, TakeForUnknown
  <2>2. CASE ~RefusedAgain(login[l].kid) /\ ForceFetch(l)
    BY <2>2, <1>4, NotInCooldown
    DEF RefusedAgain, Refused, ForceFetch, Send, Await, StepOf, ForcesAFetch, TakeForUnknown
  <2>3. QED
    BY <1>4, <2>1, <2>2 DEF TakeForUnknown
<1>5. CASE RefreshArrives(l)
  BY <1>5, Resolving DEF RefreshArrives
<1>6. CASE ForcedArrives(l)
  BY <1>6 DEF ForcedArrives, Reply, StepOf, Elsewhere
<1>7. CASE FetchFails(l)
  BY <1>7 DEF FetchFails, Reply, jwksCache, StepOf, Elsewhere
<1>8. QED
  BY <1>1, <1>2, <1>3, <1>4, <1>5, <1>6, <1>7

(* No other step moves a login. *)
LEMMA OtherSteps ==
  ASSUME ClockInv, [JWKSNext]_jwksVars
  PROVE  \/ \E l \in Logins :
              \/ \E k \in Kids : Arrive(l, k)
              \/ Call(l) \/ TakeForStale(l) \/ TakeForUnknown(l)
              \/ RefreshArrives(l) \/ ForcedArrives(l) \/ FetchFails(l)
         \/ UNCHANGED <<forced, login>> /\ now' \in Nat
BY DEF ClockInv, JWKSNext, jwksVars, jwksCache, Respond, Rotate, JWKSTick

LEMMA ClockKeeps == Cooldown \in Nat => (ClockInv /\ [JWKSNext]_jwksVars => ClockInv')
<1> SUFFICES ASSUME Cooldown \in Nat, ClockInv, [JWKSNext]_jwksVars PROVE ClockInv'
  OBVIOUS
<1>1. ASSUME NEW l \in Logins, StepOf(l), now' = now PROVE ClockInv'
  <2>1. CASE Elsewhere(l) /\ forced' = forced
    BY <1>1, <2>1 DEF ClockInv, Elsewhere, IdleLogin
  <2>2. CASE ForcesAFetch(l)
    BY <1>1, <2>2 DEF ClockInv, ForcesAFetch
  <2>3. QED
    BY <1>1, <2>1, <2>2 DEF StepOf
<1>2. CASE UNCHANGED <<forced, login>> /\ now' \in Nat
  BY <1>2 DEF ClockInv
<1>3. QED
  BY <1>1, <1>2, OtherSteps, Logging

(* Whatever fails, is asked for or rotates, two forced fetches are at least *)
(* refetch_cooldown_seconds apart.                                         *)
THEOREM ForcedFetchesAreApart == ASSUME Cooldown \in Nat PROVE JWKSSpec => ForcedFetchesAreRare
<1>1. JWKSInit => ClockInv
  BY DEF JWKSInit, ClockInv, IdleLogin
<1>2. ClockInv /\ [JWKSNext]_jwksVars => ClockInv'
  BY ClockKeeps
<1>3. ClockInv /\ [JWKSNext]_jwksVars =>
        [\A l \in Logins : login'[l].at = "force" /\ login[l].at # "force" /\ forced # -1
           => now - forced >= Cooldown]_jwksVars
  <2> SUFFICES ASSUME ClockInv, [JWKSNext]_jwksVars, NEW l \in Logins,
                      login'[l].at = "force", login[l].at # "force", forced # -1
               PROVE  now - forced >= Cooldown
    OBVIOUS
  <2>1. ASSUME NEW m \in Logins, StepOf(m) PROVE now - forced >= Cooldown
    <3>1. ~Elsewhere(m)
      BY DEF Elsewhere, ClockInv, IdleLogin
    <3>2. QED
      BY <2>1, <3>1 DEF StepOf, ForcesAFetch, Cooled
  <2>2. QED
    BY <2>1, OtherSteps, Logging
<1>4. QED
  BY <1>1, <1>2, <1>3, PTL DEF JWKSSpec, ForcedFetchesAreRare

-----------------------------------------------------------------------------
(* Each login is where its lock and its fetch say.                         *)
PlacesFit ==
  /\ \A l \in Logins : login[l].at # "idle" => login[l].kid \in Kids
  /\ \A l \in Logins : login[l].at \in {"refresh", "force"} <=> holder = l
  /\ holder = Nobody <=> fetch.state = "none"
  /\ \A l \in Logins :
       login[l].at \in {"stale", "unknown"} <=> \E i \in DOMAIN queue : queue[i] = l

(* The queue without l, which does not wait in it or is the one that takes *)
(* the lock.                                                               *)
Rest(l, waiting) ==
  \/ waiting = queue /\ login[l].at \notin {"stale", "unknown"}
  \/ /\ queue # <<>> /\ Head(queue) = l /\ waiting = Tail(queue) /\ holder = Nobody

(* What a login does next: it returns, it waits, or it fetches.            *)
Returns(l, waiting) ==
  login' = [login EXCEPT ![l] = IdleLogin] /\ Leave(l) /\ queue' = waiting

Waits(l, at, waiting) ==
  /\ login' = [login EXCEPT ![l].at = at] /\ Leave(l) /\ queue' = Append(waiting, l)

Fetches(l, at, waiting) ==
  /\ holder \in {Nobody, l}
  /\ login' = [login EXCEPT ![l].at = at]
  /\ holder' = l /\ queue' = waiting
  /\ fetch' = [state |-> "sent", keys |-> {}, at |-> now]

Moves(l, waiting) ==
  /\ login[l].at # "idle" /\ Rest(l, waiting)
  /\ \/ Returns(l, waiting)
     \/ \E at \in {"stale", "unknown"} : Waits(l, at, waiting)
     \/ \E at \in {"refresh", "force"} : Fetches(l, at, waiting)

(* The queue without a login has the others in it, each once.              *)
LEMMA RestIsWithout ==
  ASSUME JWKSTypeOK, PlacesFit, NEW l \in Logins, NEW waiting, Rest(l, waiting)
  PROVE  /\ waiting \in Seq(Logins) /\ IsInjective(waiting)
         /\ \A i \in DOMAIN waiting : waiting[i] # l
         /\ \A m \in Logins \ {l} :
              login[m].at \in {"stale", "unknown"} <=> \E i \in DOMAIN waiting : waiting[i] = m
<1>1. CASE waiting = queue /\ login[l].at \notin {"stale", "unknown"}
  BY <1>1 DEF JWKSTypeOK, PlacesFit
<1>2. CASE queue # <<>> /\ Head(queue) = l /\ waiting = Tail(queue)
  <2>1. /\ waiting \in Seq(Logins) /\ DOMAIN waiting = 1 .. Len(queue) - 1
        /\ DOMAIN queue = 1 .. Len(queue) /\ Len(queue) \in Nat /\ queue[1] = l
        /\ \A i \in DOMAIN waiting : waiting[i] = queue[i + 1]
    BY <1>2 DEF JWKSTypeOK
  <2>2. \A i, j \in DOMAIN queue : queue[i] = queue[j] => i = j
    BY DEF JWKSTypeOK, IsInjective
  <2>3. IsInjective(waiting)
    BY <2>1, <2>2 DEF IsInjective
  <2>4. \A i \in DOMAIN waiting : waiting[i] # l
    BY <2>1, <2>2
  <2>5. ASSUME NEW m \in Logins \ {l}
        PROVE  login[m].at \in {"stale", "unknown"} <=> \E i \in DOMAIN waiting : waiting[i] = m
    <3>1. ASSUME NEW i \in DOMAIN queue, queue[i] = m
          PROVE  i - 1 \in DOMAIN waiting /\ waiting[i - 1] = m
      BY <2>1, <2>5, <3>1
    <3>2. (\E i \in DOMAIN queue : queue[i] = m) <=> \E i \in DOMAIN waiting : waiting[i] = m
      BY <2>1, <3>1
    <3> QED
      BY <3>2 DEF PlacesFit
  <2> QED
    BY <2>1, <2>3, <2>4, <2>5
<1> QED
  BY <1>1, <1>2 DEF Rest

(* And with the login at its end, everybody in it is in it once.           *)
LEMMA AppendIsWith ==
  ASSUME NEW S, NEW s \in Seq(S), IsInjective(s), NEW l \in S,
         \A i \in DOMAIN s : s[i] # l
  PROVE  /\ Append(s, l) \in Seq(S) /\ IsInjective(Append(s, l))
         /\ \A m : (\E i \in DOMAIN Append(s, l) : Append(s, l)[i] = m)
                     <=> m = l \/ \E i \in DOMAIN s : s[i] = m
<1> DEFINE t == Append(s, l)
<1>1. /\ t \in Seq(S) /\ DOMAIN t = 1 .. Len(s) + 1 /\ DOMAIN s = 1 .. Len(s) /\ Len(s) \in Nat
      /\ t[Len(s) + 1] = l /\ \A i \in DOMAIN s : t[i] = s[i]
  OBVIOUS
<1>2. \A i, j \in DOMAIN s : s[i] = s[j] => i = j
  BY DEF IsInjective
<1>3. IsInjective(t)
  BY <1>1, <1>2 DEF IsInjective
<1>4. ASSUME NEW m PROVE (\E i \in DOMAIN t : t[i] = m) <=> m = l \/ \E i \in DOMAIN s : s[i] = m
  <2>1. ASSUME NEW i \in DOMAIN t, t[i] = m PROVE m = l \/ \E j \in DOMAIN s : s[j] = m
    BY <1>1, <2>1
  <2>2. DOMAIN s \subseteq DOMAIN t /\ Len(s) + 1 \in DOMAIN t
    BY <1>1
  <2> QED
    BY <1>1, <2>1, <2>2
<1> QED
  BY <1>1, <1>3, <1>4

(* Its place changes, what it asks for does not.                           *)
LEMMA PlaceChanges ==
  ASSUME JWKSTypeOK, NEW l \in Logins,
         NEW at \in {"stale", "unknown", "refresh", "force"},
         login' = [login EXCEPT ![l].at = at]
  PROVE  /\ login' \in [Logins -> [at : {"idle", "called", "stale", "refresh", "unknown", "force"},
                                   kid : Kids \cup {NoKid}]]
         /\ login'[l].at = at /\ login'[l].kid = login[l].kid
         /\ \A m \in Logins \ {l} : login'[m] = login[m]
<1>1. /\ login \in [Logins -> [at : {"idle", "called", "stale", "refresh", "unknown", "force"},
                               kid : Kids \cup {NoKid}]]
  BY DEF JWKSTypeOK
<1>2. /\ login'[l] = [login[l] EXCEPT !.at = at]
      /\ \A m \in Logins \ {l} : login'[m] = login[m]
      /\ DOMAIN login' = Logins
  BY <1>1
<1>3. login'[l] = [at |-> at, kid |-> login[l].kid]
  BY <1>1, <1>2
<1>4. login'[l] \in [at : {"idle", "called", "stale", "refresh", "unknown", "force"},
                    kid : Kids \cup {NoKid}]
  BY <1>1, <1>3
<1> QED
  BY <1>1, <1>2, <1>3, <1>4

(* Wherever a login moves, lock, queue and fetch fit its new place.        *)
LEMMA MovesFit ==
  ASSUME JWKSTypeOK, PlacesFit, NEW l \in Logins, NEW waiting, Moves(l, waiting)
  PROVE  /\ PlacesFit'
         /\ login' \in [Logins -> [at : {"idle", "called", "stale", "refresh", "unknown", "force"},
                                   kid : Kids \cup {NoKid}]]
         /\ holder' \in Logins \cup {Nobody}
         /\ queue' \in Seq(Logins) /\ IsInjective(queue')
         /\ fetch' \in [state : {"none", "sent", "answered"}, keys : SUBSET Kids, at : 0 .. MaxTime]
<1>0. Rest(l, waiting) /\ login[l].at # "idle" /\ login[l].kid \in Kids /\ Nobody # l
  BY KeysAssumption DEF Moves, PlacesFit
<1>1. /\ waiting \in Seq(Logins) /\ IsInjective(waiting)
      /\ \A i \in DOMAIN waiting : waiting[i] # l
      /\ \A m \in Logins \ {l} :
           login[m].at \in {"stale", "unknown"} <=> \E i \in DOMAIN waiting : waiting[i] = m
  BY <1>0, RestIsWithout
<1>2. CASE Returns(l, waiting)
  <2>1. /\ login' \in [Logins -> [at : {"idle", "called", "stale", "refresh", "unknown", "force"},
                                   kid : Kids \cup {NoKid}]]
        /\ login'[l].at = "idle" /\ \A m \in Logins \ {l} : login'[m] = login[m]
    BY <1>2 DEF JWKSTypeOK, Returns, IdleLogin
  <2>2. /\ holder' = IF holder = l THEN Nobody ELSE holder
        /\ fetch' = IF holder = l THEN NoFetch ELSE fetch
        /\ queue' = waiting
    BY <1>2 DEF Returns, Leave
  <2>3. fetch' \in [state : {"none", "sent", "answered"}, keys : SUBSET Kids, at : 0 .. MaxTime]
    BY <2>2, KeysAssumption DEF JWKSTypeOK, NoFetch
  <2>4. PlacesFit'
    <3>1. \A m \in Logins : login'[m].at # "idle" => login'[m].kid \in Kids
      BY <1>0, <1>1, <2>1, <2>2 DEF PlacesFit
    <3>2. \A m \in Logins : login'[m].at \in {"refresh", "force"} <=> holder' = m
      <4>1. ASSUME NEW m \in Logins PROVE login'[m].at \in {"refresh", "force"} <=> holder' = m
        <5>1. CASE m = l
          BY <1>0, <1>1, <2>1, <2>2, <4>1, <5>1, KeysAssumption DEF PlacesFit
        <5>2. CASE m # l
          BY <1>0, <1>1, <2>1, <2>2, <4>1, <5>2, KeysAssumption DEF PlacesFit
        <5> QED
          BY <5>1, <5>2
      <4> QED
        BY <4>1
    <3>3. holder' = Nobody <=> fetch'.state = "none"
      BY <1>0, <1>1, <2>1, <2>2 DEF PlacesFit, NoFetch
    <3>4. \A m \in Logins :
            login'[m].at \in {"stale", "unknown"} <=> \E i \in DOMAIN queue' : queue'[i] = m
      BY <1>0, <1>1, <2>1, <2>2
    <3> QED
      BY <3>1, <3>2, <3>3, <3>4 DEF PlacesFit
  <2> QED
    BY <1>1, <2>1, <2>2, <2>3, <2>4 DEF JWKSTypeOK
<1>3. ASSUME NEW at \in {"stale", "unknown"}, Waits(l, at, waiting)
      PROVE  /\ PlacesFit'
             /\ login' \in [Logins -> [at : {"idle", "called", "stale", "refresh", "unknown", "force"},
                                   kid : Kids \cup {NoKid}]]
             /\ holder' \in Logins \cup {Nobody}
             /\ queue' \in Seq(Logins) /\ IsInjective(queue')
             /\ fetch' \in [state : {"none", "sent", "answered"}, keys : SUBSET Kids, at : 0 .. MaxTime]
  <2>1. /\ login' \in [Logins -> [at : {"idle", "called", "stale", "refresh", "unknown", "force"},
                                   kid : Kids \cup {NoKid}]]
        /\ login'[l].at = at /\ login'[l].kid = login[l].kid
        /\ \A m \in Logins \ {l} : login'[m] = login[m]
    BY <1>3, PlaceChanges DEF Waits
  <2>2. /\ holder' = IF holder = l THEN Nobody ELSE holder
        /\ fetch' = IF holder = l THEN NoFetch ELSE fetch
    BY <1>3 DEF Waits, Leave
  <2>3. /\ queue' \in Seq(Logins) /\ IsInjective(queue')
        /\ \A m : (\E i \in DOMAIN queue' : queue'[i] = m)
                    <=> m = l \/ \E i \in DOMAIN waiting : waiting[i] = m
    BY <1>1, <1>3, AppendIsWith DEF Waits
  <2>4. fetch' \in [state : {"none", "sent", "answered"}, keys : SUBSET Kids, at : 0 .. MaxTime]
    BY <2>2, KeysAssumption DEF JWKSTypeOK, NoFetch
  <2>5. PlacesFit'
    <3>1. \A m \in Logins : login'[m].at # "idle" => login'[m].kid \in Kids
      BY <1>0, <1>1, <2>1, <2>2, <2>3 DEF PlacesFit
    <3>2. \A m \in Logins : login'[m].at \in {"refresh", "force"} <=> holder' = m
      <4>1. ASSUME NEW m \in Logins PROVE login'[m].at \in {"refresh", "force"} <=> holder' = m
        <5>1. CASE m = l
          BY <1>0, <1>1, <2>1, <2>2, <2>3, <4>1, <5>1, KeysAssumption DEF PlacesFit
        <5>2. CASE m # l
          BY <1>0, <1>1, <2>1, <2>2, <2>3, <4>1, <5>2, KeysAssumption DEF PlacesFit
        <5> QED
          BY <5>1, <5>2
      <4> QED
        BY <4>1
    <3>3. holder' = Nobody <=> fetch'.state = "none"
      BY <1>0, <1>1, <2>1, <2>2, <2>3 DEF PlacesFit, NoFetch
    <3>4. \A m \in Logins :
            login'[m].at \in {"stale", "unknown"} <=> \E i \in DOMAIN queue' : queue'[i] = m
      BY <1>0, <1>1, <2>1, <2>2, <2>3
    <3> QED
      BY <3>1, <3>2, <3>3, <3>4 DEF PlacesFit
  <2> QED
    BY <2>1, <2>2, <2>3, <2>4, <2>5 DEF JWKSTypeOK
<1>4. ASSUME NEW at \in {"refresh", "force"}, Fetches(l, at, waiting)
      PROVE  /\ PlacesFit'
             /\ login' \in [Logins -> [at : {"idle", "called", "stale", "refresh", "unknown", "force"},
                                   kid : Kids \cup {NoKid}]]
             /\ holder' \in Logins \cup {Nobody}
             /\ queue' \in Seq(Logins) /\ IsInjective(queue')
             /\ fetch' \in [state : {"none", "sent", "answered"}, keys : SUBSET Kids, at : 0 .. MaxTime]
  <2>1. /\ login' \in [Logins -> [at : {"idle", "called", "stale", "refresh", "unknown", "force"},
                                   kid : Kids \cup {NoKid}]]
        /\ login'[l].at = at /\ login'[l].kid = login[l].kid
        /\ \A m \in Logins \ {l} : login'[m] = login[m]
    BY <1>4, PlaceChanges DEF Fetches
  <2>2. holder' = l /\ queue' = waiting /\ fetch' = [state |-> "sent", keys |-> {}, at |-> now]
        /\ holder \in {Nobody, l}
    BY <1>4 DEF Fetches
  <2>3. fetch' \in [state : {"none", "sent", "answered"}, keys : SUBSET Kids, at : 0 .. MaxTime]
    BY <2>2 DEF JWKSTypeOK
  <2>4. PlacesFit'
    <3>1. \A m \in Logins : login'[m].at # "idle" => login'[m].kid \in Kids
      BY <1>0, <1>1, <2>1, <2>2 DEF PlacesFit
    <3>2. \A m \in Logins : login'[m].at \in {"refresh", "force"} <=> holder' = m
      <4>1. ASSUME NEW m \in Logins PROVE login'[m].at \in {"refresh", "force"} <=> holder' = m
        <5>1. CASE m = l
          BY <1>0, <1>1, <2>1, <2>2, <4>1, <5>1, KeysAssumption DEF PlacesFit
        <5>2. CASE m # l
          BY <1>0, <1>1, <2>1, <2>2, <4>1, <5>2, KeysAssumption DEF PlacesFit
        <5> QED
          BY <5>1, <5>2
      <4> QED
        BY <4>1
    <3>3. holder' = Nobody <=> fetch'.state = "none"
      BY <1>0, <1>1, <2>1, <2>2 DEF PlacesFit, NoFetch
    <3>4. \A m \in Logins :
            login'[m].at \in {"stale", "unknown"} <=> \E i \in DOMAIN queue' : queue'[i] = m
      BY <1>0, <1>1, <2>1, <2>2
    <3> QED
      BY <3>1, <3>2, <3>3, <3>4 DEF PlacesFit
  <2> QED
    BY <1>1, <2>1, <2>2, <2>3, <2>4
<1> QED
  BY <1>2, <1>3, <1>4 DEF Moves, JWKSTypeOK

-----------------------------------------------------------------------------
(* An answer of the provider arrives with l.                               *)
Arrives(l) ==
  /\ login[l].at \in {"refresh", "force"} /\ fetch.state = "answered"
  /\ keyset' = [none |-> FALSE, keys |-> fetch.keys, at |-> now]
  /\ failed' = failed

(* What a step of a login that was called does to lock, keys and cooldown. *)
LoginStep(l, waiting) ==
  /\ Moves(l, waiting)
  /\ now' = now /\ provider' = provider
  /\ \/ login[l].at \notin {"refresh", "force"} /\ keyset' = keyset /\ failed' = failed
     \/ login'[l].at = "idle" /\ keyset' = keyset /\ failed' = now
     \/ Arrives(l)
  /\ login'[l].at = "refresh" => IsStale /\ keyset' = keyset
  /\ IF login'[l].at = "force" THEN forced' = now /\ ~InCooldown ELSE forced' = forced
  /\ login'[l].at = "unknown" => login[l].kid \notin keyset'.keys

(* The second half of get_signing_key, whoever comes to it.                *)
LEMMA ResolveMoves ==
  ASSUME JWKSTypeOK, PlacesFit, NEW l \in Logins, NEW waiting, NEW keys,
         login[l].at # "idle", Rest(l, waiting), Resolve(l, keys, waiting)
  PROVE  /\ Moves(l, waiting)
         /\ login'[l].at \in {"idle", "force", "unknown"}
         /\ IF login'[l].at = "force" THEN forced' = now /\ ~InCooldown ELSE forced' = forced
         /\ login'[l].at = "unknown" => login[l].kid \notin keys
<1> DEFINE k == login[l].kid
<1>1. CASE Reply(l, "key") /\ Leave(l) /\ queue' = waiting /\ UNCHANGED forced
  <2>1. Returns(l, waiting) /\ login'[l].at = "idle"
    BY <1>1 DEF Reply, Returns, JWKSTypeOK, IdleLogin
  <2> QED
    BY <1>1, <2>1 DEF Moves
<1>2. CASE Reply(l, "refused") /\ Leave(l) /\ queue' = waiting /\ UNCHANGED forced
  <2>1. Returns(l, waiting) /\ login'[l].at = "idle"
    BY <1>2 DEF Reply, Returns, JWKSTypeOK, IdleLogin
  <2> QED
    BY <1>2, <2>1 DEF Moves
<1>3. CASE ~Refused(k) /\ holder \in {Nobody, l} /\ ForceFetch(l) /\ queue' = waiting
  <2>1. Fetches(l, "force", waiting) /\ forced' = now
    BY <1>3 DEF ForceFetch, Send, Await, Fetches
  <2>2. login'[l].at = "force"
    BY <2>1, PlaceChanges DEF Fetches
  <2> QED
    BY <1>3, <2>1, <2>2 DEF Moves, Refused
<1>4. CASE k \notin keys /\ Queue(l, "unknown", waiting) /\ Leave(l)
  <2>1. Waits(l, "unknown", waiting) /\ forced' = forced
    BY <1>4 DEF Queue, Await, Waits
  <2>2. login'[l].at = "unknown"
    BY <2>1, PlaceChanges DEF Waits
  <2> QED
    BY <1>4, <2>1, <2>2 DEF Moves
<1> QED
  BY <1>1, <1>2, <1>3, <1>4 DEF Resolve

(* Taking the lock takes the head from the queue.                          *)
LEMMA TakesRest ==
  ASSUME NEW l, NEW at, Takes(l, at)
  PROVE  Rest(l, Tail(queue)) /\ login[l].at = at /\ holder = Nobody
BY DEF Takes, Rest

(* A login that sends a refresh, and one that waits for one.               *)
LEMMA StaleFetches ==
  ASSUME JWKSTypeOK, PlacesFit, NEW l \in Logins, NEW waiting,
         login[l].at \in {"called", "stale"}, Rest(l, waiting),
         holder = Nobody, Send(l, "refresh"), queue' = waiting
  PROVE  Moves(l, waiting) /\ login'[l].at = "refresh"
<1>1. Fetches(l, "refresh", waiting)
  BY DEF Send, Await, Fetches
<1> QED
  BY <1>1, PlaceChanges DEF Moves, Fetches

LEMMA StaleWaits ==
  ASSUME JWKSTypeOK, PlacesFit, NEW l \in Logins, NEW waiting,
         login[l].at \in {"called", "stale"}, Rest(l, waiting), holder # l,
         Queue(l, "stale", waiting), UNCHANGED <<holder, fetch>>
  PROVE  Moves(l, waiting) /\ login'[l].at = "stale"
<1>1. Waits(l, "stale", waiting)
  BY DEF Queue, Await, Waits, Leave
<1> QED
  BY <1>1, PlaceChanges DEF Moves, Waits

LEMMA CallSteps ==
  ASSUME JWKSTypeOK, PlacesFit, NEW l \in Logins, Call(l)
  PROVE  LoginStep(l, queue)
<1>1. /\ login[l].at = "called" /\ Rest(l, queue) /\ holder # l
      /\ now' = now /\ provider' = provider /\ keyset' = keyset /\ failed' = failed
  BY DEF Call, PlacesFit, Rest
<1>2. CASE IsStale /\ holder = Nobody /\ Send(l, "refresh") /\ UNCHANGED <<forced, queue>>
  <2>1. Moves(l, queue) /\ login'[l].at = "refresh"
    BY <1>1, <1>2, StaleFetches
  <2> QED
    BY <1>1, <1>2, <2>1 DEF LoginStep
<1>3. CASE Queue(l, "stale", queue) /\ UNCHANGED <<holder, fetch>>
  <2>1. forced' = forced
    BY <1>3 DEF Queue
  <2> QED
    BY <1>1, <1>3, <2>1, StaleWaits DEF LoginStep
<1>4. CASE Resolve(l, keyset.keys, queue)
  BY <1>1, <1>4, ResolveMoves DEF LoginStep
<1> QED
  BY <1>2, <1>3, <1>4 DEF Call

LEMMA TakeForStaleSteps ==
  ASSUME JWKSTypeOK, PlacesFit, NEW l \in Logins, TakeForStale(l)
  PROVE  LoginStep(l, Tail(queue))
<1>1. /\ login[l].at = "stale" /\ Rest(l, Tail(queue)) /\ holder = Nobody /\ holder # l
      /\ now' = now /\ provider' = provider /\ keyset' = keyset /\ failed' = failed
  BY TakesRest, KeysAssumption DEF TakeForStale
<1>2. CASE IsStale /\ Send(l, "refresh") /\ queue' = Tail(queue) /\ UNCHANGED forced
  <2>1. PICK waiting : waiting = Tail(queue)
    OBVIOUS
  <2>2. login[l].at \in {"called", "stale"}
    BY <1>1
  <2>3. Rest(l, waiting)
    BY <1>1, <2>1
  <2>4. holder = Nobody
    BY <1>1
  <2>5. Send(l, "refresh")
    BY <1>2
  <2>6. queue' = waiting
    BY <1>2, <2>1
  <2>7. Moves(l, waiting) /\ login'[l].at = "refresh"
    BY <2>2, <2>3, <2>4, <2>5, <2>6, StaleFetches
  <2> QED
    BY <1>1, <1>2, <2>1, <2>7 DEF LoginStep
<1>3. CASE Resolve(l, keyset.keys, Tail(queue))
  BY <1>1, <1>3, ResolveMoves DEF LoginStep
<1> QED
  BY <1>2, <1>3 DEF TakeForStale

LEMMA TakeForUnknownSteps ==
  ASSUME JWKSTypeOK, PlacesFit, NEW l \in Logins, TakeForUnknown(l)
  PROVE  LoginStep(l, Tail(queue))
<1>1. /\ login[l].at = "unknown" /\ Rest(l, Tail(queue)) /\ holder = Nobody /\ holder # l
      /\ now' = now /\ provider' = provider /\ keyset' = keyset /\ failed' = failed
      /\ queue' = Tail(queue)
  BY TakesRest, KeysAssumption DEF TakeForUnknown
<1>2. ASSUME NEW what, Reply(l, what), UNCHANGED <<forced, holder, fetch>>
      PROVE  LoginStep(l, Tail(queue))
  <2>1. Returns(l, Tail(queue)) /\ login'[l].at = "idle"
    BY <1>1, <1>2 DEF Reply, Returns, Leave, JWKSTypeOK, IdleLogin
  <2> QED
    BY <1>1, <1>2, <2>1 DEF LoginStep, Moves
<1>3. CASE ~RefusedAgain(login[l].kid) /\ ForceFetch(l)
  <2>1. Fetches(l, "force", Tail(queue)) /\ forced' = now /\ ~InCooldown
    BY <1>1, <1>3 DEF ForceFetch, Send, Await, Fetches, RefusedAgain, Refused
  <2>2. login'[l].at = "force"
    BY <2>1, PlaceChanges DEF Fetches
  <2> QED
    BY <1>1, <2>1, <2>2 DEF LoginStep, Moves
<1> QED
  BY <1>2, <1>3 DEF TakeForUnknown

LEMMA ArrivalSteps ==
  ASSUME JWKSTypeOK, PlacesFit, NEW l \in Logins,
         RefreshArrives(l) \/ ForcedArrives(l)
  PROVE  LoginStep(l, queue)
<1>1. CASE RefreshArrives(l)
  <2>1. /\ Rest(l, queue) /\ login[l].at = "refresh" /\ Arrives(l) /\ keyset'.keys = fetch.keys
        /\ now' = now /\ provider' = provider
    BY <1>1 DEF RefreshArrives, Rest, Arrives
  <2> QED
    BY <1>1, <2>1, ResolveMoves DEF RefreshArrives, LoginStep
<1>2. CASE ForcedArrives(l)
  <2>1. /\ Rest(l, queue) /\ login[l].at = "force" /\ Arrives(l)
        /\ now' = now /\ provider' = provider /\ forced' = forced
    BY <1>2 DEF ForcedArrives, Rest, Arrives
  <2>2. Returns(l, queue) /\ login'[l].at = "idle"
    BY <1>2 DEF ForcedArrives, Reply, Returns, JWKSTypeOK, IdleLogin
  <2> QED
    BY <2>1, <2>2 DEF LoginStep, Moves
<1> QED
  BY <1>1, <1>2

LEMMA FailureSteps ==
  ASSUME JWKSTypeOK, PlacesFit, NEW l \in Logins, FetchFails(l)
  PROVE  LoginStep(l, queue)
<1>1. /\ Rest(l, queue) /\ login[l].at \in {"refresh", "force"}
      /\ now' = now /\ provider' = provider /\ forced' = forced /\ keyset' = keyset /\ failed' = now
  BY DEF FetchFails, jwksCache, Rest
<1>2. Returns(l, queue) /\ login'[l].at = "idle"
  BY DEF FetchFails, Reply, Returns, JWKSTypeOK, IdleLogin
<1> QED
  BY <1>1, <1>2 DEF LoginStep, Moves

-----------------------------------------------------------------------------
(* A fetch ends within its timeout, and the cooldown began with it at the  *)
(* latest.                                                                 *)
FetchIsDue ==
  /\ keyset.at <= now /\ forced <= now
  /\ holder # Nobody =>
       /\ fetch.at <= now /\ now <= fetch.at + Latency /\ forced <= fetch.at
       /\ login[holder].at = "force" => forced = fetch.at

(* Where an answer differs from what the provider publishes, the provider  *)
(* has changed since the question.                                         *)
AnswersAreTrue ==
  fetch.state = "answered" =>
    \A k \in Kids : (k \in fetch.keys) # (k \in provider.keys) => provider.since[k] >= fetch.at

(* A key that the cache has and the provider has not was withdrawn after   *)
(* the cache asked; so a key that is on the list of unknown ones.          *)
KeysAreTrue ==
  \A k \in keyset.keys \ provider.keys : provider.since[k] + Latency >= keyset.at

AbsencesAreTrue ==
  \A i \in DOMAIN unknown :
    /\ unknown[i].at <= now
    /\ unknown[i].kid \in provider.keys =>
         provider.since[unknown[i].kid] + Latency >= unknown[i].at

(* The forced fetch that began the cooldown has failed, or brought all     *)
(* that was published then.                                                *)
CooldownIsTrue ==
  forced # -1 /\ (holder = Nobody \/ login[holder].at # "force") =>
    \/ failed >= forced
    \/ \A k \in provider.keys \ keyset.keys : provider.since[k] >= forced

(* A login that waits for a key which has come meanwhile waits no longer   *)
(* than for the one forced fetch that the cooldown lets in before it.      *)
WaitersAreQuick ==
  \A l \in Logins : login[l].at = "unknown" /\ login[l].kid \in keyset.keys =>
    /\ ~keyset.none /\ now <= keyset.at + Latency
    /\ now > keyset.at => forced >= keyset.at
    /\ holder # Nobody => fetch.at = keyset.at /\ login[holder].at = "force"

TimesInv ==
  FetchIsDue /\ AnswersAreTrue /\ KeysAreTrue /\ AbsencesAreTrue /\ CooldownIsTrue

(* The inductive invariant.                                                *)
KeysInv == JWKSTypeOK /\ PlacesFit /\ TimesInv

LEMMA ElementIs == ASSUME NEW S, NEW s \in Seq(S), NEW i \in DOMAIN s PROVE s[i] \in S
OBVIOUS

LEMMA Times ==
  ASSUME JWKSTypeOK
  PROVE  /\ now \in Nat /\ keyset.at \in Nat /\ forced \in Int /\ failed \in Int /\ fetch.at \in Nat
         /\ forced >= -1 /\ failed >= -1 /\ now <= MaxTime
         /\ keyset.keys \subseteq Kids /\ fetch.keys \subseteq Kids /\ provider.keys \subseteq Kids
         /\ \A k \in Kids : provider.since[k] \in Nat
         /\ \A i \in DOMAIN unknown : unknown[i].kid \in Kids /\ unknown[i].at \in Nat
<1>1. /\ now \in Nat /\ now <= MaxTime /\ forced \in Int /\ failed \in Int
      /\ forced >= -1 /\ failed >= -1
  BY KeysAssumption DEF JWKSTypeOK
<1>2. keyset.at \in Nat /\ keyset.keys \subseteq Kids /\ fetch.at \in Nat /\ fetch.keys \subseteq Kids
  BY KeysAssumption DEF JWKSTypeOK
<1>3. provider.keys \subseteq Kids /\ \A k \in Kids : provider.since[k] \in Nat
  <2>1. provider.keys \subseteq Kids /\ provider.since \in [Kids -> 0 .. MaxTime]
    BY DEF JWKSTypeOK
  <2> QED
    BY <2>1, KeysAssumption
<1>4. ASSUME NEW i \in DOMAIN unknown PROVE unknown[i].kid \in Kids /\ unknown[i].at \in Nat
  <2>1. unknown[i] \in [kid : Kids, at : 0 .. MaxTime]
    BY <1>4, ElementIs DEF JWKSTypeOK
  <2> QED
    BY <2>1, KeysAssumption
<1> QED
  BY <1>1, <1>2, <1>3, <1>4

(* Who holds the lock, and its fetch, after the step of a login.           *)
LEMMA Holders ==
  ASSUME JWKSTypeOK, PlacesFit, NEW l \in Logins, NEW waiting, Moves(l, waiting)
  PROVE  /\ \A m \in Logins \ {l} : login'[m] = login[m]
         /\ login'[l].kid \in {login[l].kid, NoKid}
         /\ \/ /\ holder' = Nobody /\ holder \in {l, Nobody} /\ fetch'.state = "none"
               /\ login'[l].at \notin {"refresh", "force"}
            \/ /\ holder' = l /\ holder \in {l, Nobody} /\ login'[l].at \in {"refresh", "force"}
               /\ fetch' = [state |-> "sent", keys |-> {}, at |-> now]
            \/ /\ holder' = holder /\ holder \in Logins \ {l} /\ fetch' = fetch
               /\ login'[holder] = login[holder] /\ login'[l].at \notin {"refresh", "force"}
<1>1. ASSUME NEW at \in {"stale", "unknown", "refresh", "force"},
             login' = [login EXCEPT ![l].at = at]
      PROVE  /\ login'[l].at = at /\ login'[l].kid = login[l].kid
             /\ \A m \in Logins \ {l} : login'[m] = login[m]
  BY <1>1, PlaceChanges
<1>2. ASSUME login' = [login EXCEPT ![l] = IdleLogin]
      PROVE  /\ login'[l].at = "idle" /\ login'[l].kid = NoKid
             /\ \A m \in Logins \ {l} : login'[m] = login[m]
  BY <1>2 DEF JWKSTypeOK, IdleLogin
<1>3. /\ holder = Nobody => fetch.state = "none"
      /\ holder \in Logins \cup {Nobody} /\ l # Nobody /\ NoFetch.state = "none"
  BY KeysAssumption DEF PlacesFit, JWKSTypeOK, NoFetch
<1>4. CASE Returns(l, waiting)
  BY <1>2, <1>3, <1>4 DEF Returns, Leave
<1>5. ASSUME NEW at \in {"stale", "unknown"}, Waits(l, at, waiting)
      PROVE  /\ login'[l].at = at /\ login'[l].kid = login[l].kid
             /\ \A m \in Logins \ {l} : login'[m] = login[m]
             /\ Leave(l)
  BY <1>1, <1>5 DEF Waits
<1>6. ASSUME NEW at \in {"refresh", "force"}, Fetches(l, at, waiting)
      PROVE  /\ login'[l].at = at /\ login'[l].kid = login[l].kid
             /\ \A m \in Logins \ {l} : login'[m] = login[m]
             /\ holder' = l /\ holder \in {l, Nobody}
             /\ fetch' = [state |-> "sent", keys |-> {}, at |-> now]
  BY <1>1, <1>6 DEF Fetches
<1>7. CASE \E at \in {"stale", "unknown"} : Waits(l, at, waiting)
  BY <1>3, <1>5, <1>7 DEF Leave
<1>8. CASE \E at \in {"refresh", "force"} : Fetches(l, at, waiting)
  BY <1>6, <1>8
<1> QED
  BY <1>4, <1>7, <1>8 DEF Moves

LEMMA FetchStaysDue ==
  ASSUME KeysInv, NEW l \in Logins, NEW waiting, LoginStep(l, waiting)
  PROVE  FetchIsDue'
<1>1. /\ now' = now /\ now \in Nat /\ keyset.at <= now /\ forced <= now
      /\ forced \in Int /\ fetch.at \in Nat /\ Latency \in Nat /\ l # Nobody
  BY Times, KeysAssumption DEF KeysInv, TimesInv, FetchIsDue, LoginStep
<1>2. keyset'.at <= now'
  BY <1>1 DEF LoginStep, Arrives
<1>3. forced' <= now'
  BY <1>1 DEF LoginStep
<1>4. ASSUME holder' # Nobody
      PROVE  /\ fetch'.at <= now' /\ now' <= fetch'.at + Latency /\ forced' <= fetch'.at
             /\ login'[holder'].at = "force" => forced' = fetch'.at
  <2>1. CASE /\ holder' = l /\ fetch' = [state |-> "sent", keys |-> {}, at |-> now]
    BY <1>1, <2>1 DEF LoginStep
  <2>2. CASE /\ holder' = holder /\ holder \in Logins \ {l} /\ fetch' = fetch
             /\ login'[holder] = login[holder] /\ login'[l].at \notin {"refresh", "force"}
    <3>1. holder # Nobody /\ forced' = forced
      BY <2>2, KeysAssumption DEF LoginStep
    <3> QED
      BY <1>1, <2>2, <3>1 DEF KeysInv, TimesInv, FetchIsDue
  <2> QED
    BY <1>4, <2>1, <2>2, Holders DEF KeysInv, LoginStep
<1> QED
  BY <1>2, <1>3, <1>4 DEF FetchIsDue

LEMMA AnswersStayTrue ==
  ASSUME KeysInv, NEW l \in Logins, NEW waiting, LoginStep(l, waiting)
  PROVE  AnswersAreTrue'
<1>1. provider' = provider /\ (fetch'.state = "answered" => fetch' = fetch)
  BY Holders DEF KeysInv, LoginStep
<1> QED
  BY <1>1 DEF KeysInv, TimesInv, AnswersAreTrue

(* What an answer that arrives says was true a fetch ago.                  *)
LEMMA ArrivalsAreTrue ==
  ASSUME KeysInv, NEW l \in Logins, Arrives(l), NEW k \in Kids,
         (k \in fetch.keys) # (k \in provider.keys)
  PROVE  provider.since[k] >= fetch.at /\ fetch.at + Latency >= now /\ forced <= fetch.at
<1>1. holder = l /\ l # Nobody
  BY KeysAssumption DEF KeysInv, PlacesFit, Arrives
<1> QED
  BY <1>1 DEF KeysInv, TimesInv, AnswersAreTrue, FetchIsDue, Arrives

LEMMA KeysStayTrue ==
  ASSUME KeysInv, NEW l \in Logins, NEW waiting, LoginStep(l, waiting)
  PROVE  KeysAreTrue'
<1>1. CASE keyset' = keyset
  BY <1>1 DEF KeysInv, TimesInv, KeysAreTrue, LoginStep
<1>2. CASE Arrives(l)
  <2> SUFFICES ASSUME NEW k \in fetch.keys \ provider.keys
               PROVE  provider.since[k] + Latency >= now
    BY <1>2 DEF KeysAreTrue, LoginStep, Arrives
  <2>1. k \in Kids
    BY Times DEF KeysInv
  <2> QED
    BY <1>2, <2>1, ArrivalsAreTrue, Times, KeysAssumption DEF KeysInv
<1> QED
  BY <1>1, <1>2 DEF LoginStep

LEMMA CooldownStaysTrue ==
  ASSUME KeysInv, NEW l \in Logins, NEW waiting, LoginStep(l, waiting)
  PROVE  CooldownIsTrue'
<1> SUFFICES ASSUME forced' # -1, holder' = Nobody \/ login'[holder'].at # "force"
             PROVE  \/ failed' >= forced'
                    \/ \A k \in provider'.keys \ keyset'.keys : provider'.since[k] >= forced'
  BY DEF CooldownIsTrue
<1>1. forced' = forced /\ provider' = provider
  BY Holders, KeysAssumption DEF KeysInv, LoginStep
<1>2. CASE Arrives(l)
  <2>1. ASSUME NEW k \in provider.keys \ fetch.keys PROVE provider.since[k] >= forced
    BY <1>2, ArrivalsAreTrue, Times DEF KeysInv
  <2> QED
    BY <1>1, <1>2, <2>1 DEF Arrives
<1>3. CASE failed' = now
  BY <1>1, <1>3 DEF KeysInv, TimesInv, FetchIsDue
<1>4. CASE login[l].at \notin {"refresh", "force"} /\ keyset' = keyset /\ failed' = failed
  <2>1. holder = Nobody \/ login[holder].at # "force"
    BY <1>4, Holders DEF KeysInv, LoginStep, PlacesFit
  <2> QED
    BY <1>1, <1>4, <2>1 DEF KeysInv, TimesInv, CooldownIsTrue
<1> QED
  BY <1>2, <1>3, <1>4 DEF LoginStep

LEMMA WaitersStayQuick ==
  ASSUME Latency < Cooldown, Latency <= Ttl,
         KeysInv, WaitersAreQuick, NEW l \in Logins, NEW waiting, LoginStep(l, waiting)
  PROVE  WaitersAreQuick'
<1>1. /\ now' = now /\ now \in Nat /\ keyset.at \in Nat /\ keyset.at <= now /\ forced <= now
      /\ forced \in Int /\ Latency \in Nat /\ Ttl \in Nat /\ Cooldown \in Nat /\ l # Nobody
  BY Times, KeysAssumption DEF KeysInv, TimesInv, FetchIsDue, LoginStep
<1> SUFFICES ASSUME NEW m \in Logins, login'[m].at = "unknown", login'[m].kid \in keyset'.keys
             PROVE  /\ ~keyset'.none /\ now <= keyset'.at + Latency
                    /\ now > keyset'.at => forced' >= keyset'.at
                    /\ holder' # Nobody => fetch'.at = keyset'.at /\ login'[holder'].at = "force"
  BY <1>1 DEF WaitersAreQuick
<1>2. m # l /\ login'[m] = login[m]
  <2>1. CASE m = l
    <3>1. Moves(l, waiting) /\ login[l].kid \notin keyset'.keys
      BY <2>1 DEF LoginStep
    <3>2. login'[l].kid = login[l].kid
      <4>1. ~Returns(l, waiting)
        BY <2>1 DEF Returns, IdleLogin, KeysInv, JWKSTypeOK
      <4> QED
        BY <3>1, <4>1, PlaceChanges DEF Moves, Waits, Fetches, KeysInv
    <3> QED
      BY <2>1, <3>1, <3>2
  <2> QED
    BY <2>1, Holders DEF KeysInv, LoginStep
<1>3. CASE Arrives(l)
  <2>1. holder = l
    BY <1>3 DEF Arrives, KeysInv, PlacesFit
  <2>2. keyset'.at = now /\ ~keyset'.none
    BY <1>3 DEF Arrives
  <2>3. login'[l].at # "refresh"
    <3>1. keyset' = keyset => ~IsStale
      BY <1>1, <2>2 DEF IsStale
    <3> QED
      BY <3>1 DEF LoginStep
  <2>4. holder' # Nobody => fetch'.at = now /\ login'[holder'].at = "force"
    BY <2>1, <2>3, Holders DEF LoginStep, KeysInv
  <2>5. forced' \in {now, forced}
    BY DEF LoginStep
  <2> QED
    BY <1>1, <2>2, <2>4
<1>4. CASE keyset' = keyset
  <2>1. /\ ~keyset.none /\ now <= keyset.at + Latency
        /\ now > keyset.at => forced >= keyset.at
        /\ holder # Nobody => fetch.at = keyset.at /\ login[holder].at = "force"
    BY <1>2, <1>4 DEF WaitersAreQuick
  <2>2. now > keyset.at => forced' >= keyset.at
    BY <1>1, <2>1 DEF LoginStep
  <2>3. ~IsStale
    BY <1>1, <2>1 DEF IsStale
  <2>4. ~InCooldown => now = keyset.at
    BY <1>1, <2>1 DEF InCooldown
  <2>5. holder' # Nobody => fetch'.at = keyset.at /\ login'[holder'].at = "force"
    BY <1>1, <2>1, <2>3, <2>4, Holders, KeysAssumption DEF LoginStep, KeysInv
  <2> QED
    BY <1>1, <1>4, <2>1, <2>2, <2>5
<1> QED
  BY <1>3, <1>4 DEF LoginStep

-----------------------------------------------------------------------------
(* The list without an id has the other ids, each once.                    *)
LEMMA RemoveAtIs ==
  ASSUME NEW S, NEW s \in Seq(S), NEW i \in DOMAIN s
  PROVE  /\ RemoveAt(s, i) \in Seq(S) /\ Len(RemoveAt(s, i)) = Len(s) - 1
         /\ \A j \in DOMAIN RemoveAt(s, i) :
              RemoveAt(s, i)[j] = s[IF j < i THEN j ELSE j + 1]
<1> DEFINE a == SubSeq(s, 1, i - 1)  b == SubSeq(s, i + 1, Len(s))
<1>1. i \in 1 .. Len(s) /\ Len(s) \in Nat
  OBVIOUS
<1>2. a \in Seq(S) /\ Len(a) = i - 1 /\ \A j \in 1 .. i - 1 : a[j] = s[j]
  BY <1>1
<1>3. b \in Seq(S) /\ Len(b) = Len(s) - i /\ \A j \in 1 .. Len(s) - i : b[j] = s[i + j]
  BY <1>1
<1>4. RemoveAt(s, i) = a \o b
  BY DEF RemoveAt
<1> HIDE DEF a, b
<1>5. /\ a \o b \in Seq(S) /\ Len(a \o b) = Len(a) + Len(b)
      /\ \A j \in 1 .. Len(a) + Len(b) :
           (a \o b)[j] = IF j <= Len(a) THEN a[j] ELSE b[j - Len(a)]
  BY <1>2, <1>3, SMTT(30)
<1>6. Len(a) + Len(b) = Len(s) - 1
  BY <1>1, <1>2, <1>3
<1>7. DOMAIN (a \o b) = 1 .. Len(s) - 1
  BY <1>5, <1>6
<1>8. ASSUME NEW j \in 1 .. Len(s) - 1 PROVE (a \o b)[j] = s[IF j < i THEN j ELSE j + 1]
  <2>1. CASE j < i
    BY <1>1, <1>2, <1>5, <1>6, <1>8, <2>1
  <2>2. CASE ~(j < i)
    <3>1. (a \o b)[j] = b[j - (i - 1)]
      BY <1>1, <1>2, <1>5, <1>6, <1>8, <2>2, SMTT(30)
    <3>2. j - (i - 1) \in 1 .. Len(s) - i /\ i + (j - (i - 1)) = j + 1
      BY <1>1, <1>8, <2>2
    <3>3. b[j - (i - 1)] = s[i + (j - (i - 1))]
      BY <1>3, <3>2
    <3> QED
      BY <2>2, <3>1, <3>2, <3>3
  <2> QED
    BY <2>1, <2>2
<1> QED
  BY <1>4, <1>5, <1>6, <1>7, <1>8

Entry == [kid : Kids, at : 0 .. MaxTime]

LEMMA WithoutKeeps ==
  ASSUME JWKSTypeOK, NEW k
  PROVE  /\ Without(k) \in Seq(Entry) /\ Len(Without(k)) <= MaxUnknown
         /\ \A i, j \in DOMAIN Without(k) : Without(k)[i].kid = Without(k)[j].kid => i = j
         /\ \A i \in DOMAIN Without(k) :
              Without(k)[i].kid # k /\ \E j \in DOMAIN unknown : Without(k)[i] = unknown[j]
<1> DEFINE entries == {i \in DOMAIN unknown : unknown[i].kid = k}
           at == CHOOSE i \in entries : TRUE
           w == Without(k)
<1>1. /\ unknown \in Seq(Entry) /\ Len(unknown) <= MaxUnknown /\ Len(unknown) \in Nat
      /\ DOMAIN unknown = 1 .. Len(unknown)
      /\ \A i, j \in DOMAIN unknown : unknown[i].kid = unknown[j].kid => i = j
  BY DEF JWKSTypeOK, Entry
<1>2. CASE entries = {}
  <2>1. w = unknown
    BY <1>2 DEF Without
  <2> QED
    BY <1>1, <1>2, <2>1
<1>3. CASE entries # {}
  <2>1. at \in entries /\ w = RemoveAt(unknown, at)
    BY <1>3 DEF Without
  <2>2. at \in DOMAIN unknown /\ unknown[at].kid = k
    BY <2>1
  <2> HIDE DEF at
  <2> HIDE DEF w, entries
  <2>3. /\ w \in Seq(Entry) /\ Len(w) = Len(unknown) - 1
        /\ \A j \in DOMAIN w : w[j] = unknown[IF j < at THEN j ELSE j + 1]
    BY <1>1, <2>1, <2>2, RemoveAtIs
  <2>4. DOMAIN w = 1 .. Len(unknown) - 1
    BY <2>3
  <2>5. ASSUME NEW i \in DOMAIN w
        PROVE  /\ (IF i < at THEN i ELSE i + 1) \in DOMAIN unknown \ {at}
               /\ w[i] = unknown[IF i < at THEN i ELSE i + 1]
    BY <1>1, <2>2, <2>3, <2>5, <2>4
  <2>6. ASSUME NEW i \in DOMAIN w
        PROVE  w[i].kid # k /\ \E j \in DOMAIN unknown : w[i] = unknown[j]
    BY <1>1, <2>2, <2>5, <2>6
  <2>7. ASSUME NEW i \in DOMAIN w, NEW j \in DOMAIN w, w[i].kid = w[j].kid PROVE i = j
    <3>1. (IF i < at THEN i ELSE i + 1) = (IF j < at THEN j ELSE j + 1)
      BY <1>1, <2>5, <2>7
    <3> QED
      BY <1>1, <2>2, <2>7, <2>4, <3>1
  <2>8. Len(w) <= MaxUnknown
    BY <1>1, <2>3, KeysAssumption
  <2> QED
    BY <2>3, <2>6, <2>7, <2>8 DEF w
<1> QED
  BY <1>2, <1>3

(* What the step of a login does to the list of unknown ids.               *)
UnknownStep(l) ==
  \/ unknown' = unknown
  \/ unknown' = Without(login[l].kid)
  \/ Remember(login[l].kid) /\ Arrives(l) /\ login[l].kid \notin fetch.keys

UnknownOK ==
  /\ unknown \in Seq(Entry) /\ Len(unknown) <= MaxUnknown
  /\ \A i, j \in DOMAIN unknown : unknown[i].kid = unknown[j].kid => i = j

LEMMA UnknownKeeps ==
  ASSUME KeysInv, NEW l \in Logins, login[l].at # "idle", UnknownStep(l),
         now' = now, provider' = provider
  PROVE  UnknownOK' /\ AbsencesAreTrue'
<1> DEFINE k == login[l].kid
           w == Without(k)
           more == Append(w, [kid |-> k, at |-> now])
<1>1. UnknownOK /\ AbsencesAreTrue /\ JWKSTypeOK /\ k \in Kids
  BY DEF KeysInv, TimesInv, JWKSTypeOK, UnknownOK, Entry, PlacesFit
<1>2. /\ w \in Seq(Entry) /\ Len(w) <= MaxUnknown
      /\ \A i, j \in DOMAIN w : w[i].kid = w[j].kid => i = j
      /\ \A i \in DOMAIN w : w[i].kid # k /\ \E j \in DOMAIN unknown : w[i] = unknown[j]
  BY <1>1, WithoutKeeps
<1> HIDE DEF w
<1>3. CASE unknown' = unknown
  BY <1>1, <1>3 DEF UnknownOK, AbsencesAreTrue
<1>4. CASE unknown' = w
  BY <1>1, <1>2, <1>4 DEF UnknownOK, AbsencesAreTrue
<1>5. CASE Remember(k) /\ Arrives(l) /\ k \notin fetch.keys
  <2>1. unknown' = IF Len(more) > MaxUnknown THEN Tail(more) ELSE more
    BY <1>5 DEF Remember, w
  <2>2. [kid |-> k, at |-> now] \in Entry
    BY <1>1 DEF Entry, JWKSTypeOK
  <2>3. /\ more \in Seq(Entry) /\ DOMAIN more = 1 .. Len(w) + 1 /\ DOMAIN w = 1 .. Len(w)
        /\ Len(w) \in Nat /\ Len(more) = Len(w) + 1
        /\ more[Len(w) + 1] = [kid |-> k, at |-> now]
        /\ \A i \in DOMAIN w : more[i] = w[i]
    BY <1>2, <2>2
  <2> HIDE DEF more
  <2>4. \A i, j \in DOMAIN more : more[i].kid = more[j].kid => i = j
    BY <1>2, <2>3
  <2>5. ASSUME NEW i \in DOMAIN more
        PROVE  /\ more[i].at <= now
               /\ more[i].kid \in provider.keys =>
                    provider.since[more[i].kid] + Latency >= more[i].at
    <3>1. CASE i \in DOMAIN w
      BY <1>1, <1>2, <2>3, <2>5, <3>1 DEF AbsencesAreTrue
    <3>2. CASE i = Len(w) + 1 /\ k \notin provider.keys
      BY <1>1, <2>3, <3>2, Times
    <3>3. CASE i = Len(w) + 1 /\ k \in provider.keys
      <4>1. provider.since[k] >= fetch.at /\ fetch.at + Latency >= now
        BY <1>1, <1>5, <3>3, ArrivalsAreTrue
      <4>2. provider.since[k] \in Nat /\ fetch.at \in Nat /\ now \in Nat /\ Latency \in Nat
        BY <1>1, Times, KeysAssumption
      <4>3. provider.since[k] + Latency >= now /\ now <= now
        BY <4>1, <4>2
      <4>4. more[i].kid = k /\ more[i].at = now
        BY <2>3, <3>3
      <4> QED
        BY <4>3, <4>4
    <3> QED
      BY <2>3, <2>5, <3>1, <3>2, <3>3
  <2>6. CASE unknown' = more /\ Len(more) <= MaxUnknown
    BY <2>3, <2>4, <2>5, <2>6 DEF UnknownOK, AbsencesAreTrue
  <2>7. CASE unknown' = Tail(more)
    <3>1. /\ Tail(more) \in Seq(Entry) /\ Len(Tail(more)) = Len(w)
          /\ DOMAIN Tail(more) = 1 .. Len(w)
          /\ \A i \in 1 .. Len(w) : i + 1 \in DOMAIN more /\ Tail(more)[i] = more[i + 1]
      BY <2>3
    <3>2. ASSUME NEW i \in 1 .. Len(w), NEW j \in 1 .. Len(w),
                 Tail(more)[i].kid = Tail(more)[j].kid
          PROVE  i = j
      <4>1. i + 1 = j + 1
        BY <2>4, <3>1, <3>2
      <4> QED
        BY <2>3, <4>1
    <3> QED
      BY <1>2, <2>5, <2>7, <3>1, <3>2 DEF UnknownOK, AbsencesAreTrue
  <2> QED
    BY <2>1, <2>3, <2>6, <2>7, KeysAssumption
<1> QED
  BY <1>3, <1>4, <1>5 DEF UnknownStep, w

-----------------------------------------------------------------------------
(* What the step of a login tells it, and on what grounds.                 *)
AnswerStep(l) ==
  LET k == login[l].kid IN
  \/ answer' = NoAnswer
  \/ answer' = [kid |-> k, what |-> "error"]
  \/ /\ answer' = [kid |-> k, what |-> "key"] /\ k \in keyset'.keys
     /\ \/ Arrives(l)
        \/ keyset' = keyset /\ (~IsStale \/ login[l].at = "unknown")
  \/ /\ answer' = [kid |-> k, what |-> "refused"] /\ k \notin keyset'.keys
     /\ login'[l].at = "idle"
     /\ Refused(k) \/ Arrives(l)

LEMMA ForgetSteps == ASSUME NEW l, Forget(login[l].kid) PROVE UnknownStep(l)
BY DEF Forget, UnknownStep

LEMMA ResolveAnswers ==
  ASSUME JWKSTypeOK, NEW l \in Logins, NEW waiting, Resolve(l, keyset'.keys, waiting),
         Arrives(l) \/ (keyset' = keyset /\ ~IsStale)
  PROVE  AnswerStep(l) /\ UnknownStep(l)
<1> DEFINE k == login[l].kid
<1>1. CASE k \in keyset'.keys /\ Reply(l, "key") /\ UNCHANGED unknown
  BY <1>1 DEF Reply, AnswerStep, UnknownStep
<1>2. CASE k \notin keyset'.keys /\ Refused(k) /\ Reply(l, "refused") /\ Forget(k)
  <2>1. login'[l].at = "idle"
    BY <1>2 DEF Reply, JWKSTypeOK, IdleLogin
  <2> QED
    BY <1>2, <2>1, ForgetSteps DEF Reply, AnswerStep
<1>3. CASE ForceFetch(l) /\ Forget(k)
  BY <1>3, ForgetSteps DEF ForceFetch, Send, Await, AnswerStep
<1>4. CASE Queue(l, "unknown", waiting) /\ Forget(k)
  BY <1>4, ForgetSteps DEF Queue, Await, AnswerStep
<1> QED
  BY <1>1, <1>2, <1>3, <1>4 DEF Resolve

(* Every step of a login that was called.                                  *)
LEMMA LoginSteps ==
  ASSUME JWKSTypeOK, PlacesFit, NEW l \in Logins,
         \/ Call(l) \/ TakeForStale(l) \/ TakeForUnknown(l)
         \/ RefreshArrives(l) \/ ForcedArrives(l) \/ FetchFails(l)
  PROVE  (\E waiting : LoginStep(l, waiting)) /\ AnswerStep(l) /\ UnknownStep(l)
<1> DEFINE k == login[l].kid
<1>1. CASE Call(l)
  <2> SUFFICES AnswerStep(l) /\ UnknownStep(l)
    BY <1>1, CallSteps
  <2>1. CASE Send(l, "refresh") /\ UNCHANGED unknown
    BY <2>1 DEF Send, Await, AnswerStep, UnknownStep
  <2>2. CASE Queue(l, "stale", queue) /\ UNCHANGED unknown
    BY <2>2 DEF Queue, Await, AnswerStep, UnknownStep
  <2>3. CASE ~IsStale /\ Resolve(l, keyset.keys, queue)
    <3>1. keyset' = keyset
      BY <1>1 DEF Call
    <3>2. Resolve(l, keyset'.keys, queue)
      BY <2>3, <3>1
    <3> QED
      BY <2>3, <3>1, <3>2, ResolveAnswers
  <2> QED
    BY <1>1, <2>1, <2>2, <2>3 DEF Call
<1>2. CASE TakeForStale(l)
  <2> SUFFICES AnswerStep(l) /\ UnknownStep(l)
    BY <1>2, TakeForStaleSteps
  <2>1. CASE Send(l, "refresh") /\ UNCHANGED unknown
    BY <2>1 DEF Send, Await, AnswerStep, UnknownStep
  <2>2. CASE ~IsStale /\ Resolve(l, keyset.keys, Tail(queue))
    <3>1. keyset' = keyset
      BY <1>2 DEF TakeForStale
    <3>2. Resolve(l, keyset'.keys, Tail(queue))
      BY <2>2, <3>1
    <3> QED
      BY <2>2, <3>1, <3>2, ResolveAnswers
  <2> QED
    BY <1>2, <2>1, <2>2 DEF TakeForStale
<1>3. CASE TakeForUnknown(l)
  <2> SUFFICES AnswerStep(l) /\ UnknownStep(l)
    BY <1>3, TakeForUnknownSteps
  <2>0. keyset' = keyset /\ login[l].at = "unknown"
    BY <1>3 DEF TakeForUnknown, Takes
  <2>1. CASE k \in keyset.keys /\ Reply(l, "key") /\ UNCHANGED unknown
    BY <2>0, <2>1 DEF Reply, AnswerStep, UnknownStep
  <2>2. CASE k \notin keyset.keys /\ RefusedAgain(k) /\ Reply(l, "refused") /\ Forget(k)
    <3>1. login'[l].at = "idle"
      BY <2>2 DEF Reply, JWKSTypeOK, IdleLogin
    <3> QED
      BY <2>0, <2>2, <3>1, ForgetSteps DEF Reply, AnswerStep, RefusedAgain
  <2>3. CASE ForceFetch(l) /\ Forget(k)
    BY <2>3, ForgetSteps DEF ForceFetch, Send, Await, AnswerStep
  <2> QED
    BY <1>3, <2>1, <2>2, <2>3 DEF TakeForUnknown
<1>4. CASE RefreshArrives(l)
  <2> SUFFICES AnswerStep(l) /\ UnknownStep(l)
    BY <1>4, ArrivalSteps
  <2>1. Arrives(l) /\ keyset'.keys = fetch.keys
    BY <1>4 DEF RefreshArrives, Arrives
  <2>2. Resolve(l, keyset'.keys, queue)
    BY <1>4, <2>1 DEF RefreshArrives
  <2> QED
    BY <2>1, <2>2, ResolveAnswers
<1>5. CASE ForcedArrives(l)
  <2> SUFFICES AnswerStep(l) /\ UnknownStep(l)
    BY <1>5, ArrivalSteps
  <2>1. Arrives(l) /\ keyset'.keys = fetch.keys
    BY <1>5 DEF ForcedArrives, Arrives
  <2>2. CASE k \in fetch.keys /\ Reply(l, "key") /\ UNCHANGED unknown
    BY <2>1, <2>2 DEF Reply, AnswerStep, UnknownStep
  <2>3. CASE k \notin fetch.keys /\ Reply(l, "refused") /\ Remember(k)
    <3>1. login'[l].at = "idle"
      BY <2>3 DEF Reply, JWKSTypeOK, IdleLogin
    <3> QED
      BY <2>1, <2>3, <3>1 DEF Reply, AnswerStep, UnknownStep
  <2> QED
    BY <1>5, <2>2, <2>3 DEF ForcedArrives
<1>6. CASE FetchFails(l)
  BY <1>6, FailureSteps DEF FetchFails, Reply, jwksCache, AnswerStep, UnknownStep
<1> QED
  BY <1>1, <1>2, <1>3, <1>4, <1>5, <1>6

LEMMA LoginsKeep ==
  ASSUME KeysInv, NEW l \in Logins, NEW waiting,
         LoginStep(l, waiting), AnswerStep(l), UnknownStep(l)
  PROVE  KeysInv'
<1>1. /\ PlacesFit'
      /\ login' \in [Logins -> [at : {"idle", "called", "stale", "refresh", "unknown", "force"},
                                kid : Kids \cup {NoKid}]]
      /\ holder' \in Logins \cup {Nobody}
      /\ queue' \in Seq(Logins) /\ IsInjective(queue')
      /\ fetch' \in [state : {"none", "sent", "answered"}, keys : SUBSET Kids, at : 0 .. MaxTime]
  BY MovesFit DEF KeysInv, LoginStep
<1>2. UnknownOK' /\ AbsencesAreTrue'
  BY UnknownKeeps DEF LoginStep, Moves
<1>3. now' \in 0 .. MaxTime /\ provider' \in [keys : SUBSET Kids, since : [Kids -> 0 .. MaxTime]]
  BY DEF LoginStep, KeysInv, JWKSTypeOK
<1>4. keyset' \in [none : BOOLEAN, keys : SUBSET Kids, at : 0 .. MaxTime]
  <2>1. fetch.keys \subseteq Kids /\ now \in 0 .. MaxTime
    BY DEF KeysInv, JWKSTypeOK
  <2>2. keyset \in [none : BOOLEAN, keys : SUBSET Kids, at : 0 .. MaxTime]
    BY DEF KeysInv, JWKSTypeOK
  <2>3. CASE keyset' = [none |-> FALSE, keys |-> fetch.keys, at |-> now]
    BY <2>1, <2>3
  <2> QED
    BY <2>2, <2>3 DEF LoginStep, Arrives
<1>5. forced' \in -1 .. MaxTime /\ failed' \in -1 .. MaxTime
  <2>1. now \in -1 .. MaxTime /\ forced \in -1 .. MaxTime /\ failed \in -1 .. MaxTime
    BY KeysAssumption DEF KeysInv, JWKSTypeOK
  <2> QED
    BY <2>1 DEF LoginStep, Arrives
<1>6. answer' \in [kid : Kids \cup {NoKid}, what : {"none", "key", "refused", "error"}]
  <2>1. login[l].kid \in Kids \cup {NoKid}
    BY DEF KeysInv, JWKSTypeOK
  <2> QED
    BY <2>1 DEF AnswerStep, NoAnswer
<1>7. JWKSTypeOK'
  BY <1>1, <1>2, <1>3, <1>4, <1>5, <1>6 DEF JWKSTypeOK, UnknownOK, Entry
<1> QED
  BY <1>1, <1>2, <1>7, FetchStaysDue, AnswersStayTrue, KeysStayTrue, CooldownStaysTrue
  DEF KeysInv, TimesInv

(* The steps in which no login that was called moves.                      *)
LEMMA ArriveKeeps ==
  ASSUME KeysInv, NEW l \in Logins, NEW k \in Kids, Arrive(l, k)
  PROVE  KeysInv' /\ (WaitersAreQuick => WaitersAreQuick')
<1>1. /\ UNCHANGED <<now, keyset, forced, unknown, holder, queue, fetch, provider, failed>>
      /\ login' = [login EXCEPT ![l] = [at |-> "called", kid |-> k]]
      /\ login[l].at = "idle" /\ answer' = NoAnswer
  BY DEF Arrive, jwksCache
<1>2. login'[l] = [at |-> "called", kid |-> k] /\ \A m \in Logins \ {l} : login'[m] = login[m]
  BY <1>1 DEF KeysInv, JWKSTypeOK
<1>3. login' \in [Logins -> [at : {"idle", "called", "stale", "refresh", "unknown", "force"},
                             kid : Kids \cup {NoKid}]]
  BY <1>1 DEF KeysInv, JWKSTypeOK
<1>4. JWKSTypeOK'
  BY <1>1, <1>3 DEF KeysInv, JWKSTypeOK, NoAnswer
<1>5. PlacesFit'
  BY <1>1, <1>2 DEF KeysInv, PlacesFit
<1>6. holder \in Logins => holder # l /\ login'[holder] = login[holder]
  BY <1>1, <1>2 DEF KeysInv, PlacesFit
<1>7. TimesInv'
  BY <1>1, <1>6 DEF KeysInv, JWKSTypeOK, TimesInv, FetchIsDue, AnswersAreTrue, KeysAreTrue,
                    AbsencesAreTrue, CooldownIsTrue
<1>8. ASSUME WaitersAreQuick PROVE WaitersAreQuick'
  BY <1>1, <1>2, <1>6, <1>8 DEF KeysInv, JWKSTypeOK, WaitersAreQuick
<1> QED
  BY <1>4, <1>5, <1>7, <1>8 DEF KeysInv

LEMMA RespondKeeps ==
  ASSUME KeysInv, Respond
  PROVE  KeysInv' /\ (WaitersAreQuick => WaitersAreQuick')
<1>1. /\ UNCHANGED <<now, keyset, forced, unknown, login, holder, queue, provider, failed>>
      /\ fetch.state = "sent" /\ answer' = NoAnswer
      /\ fetch' = [fetch EXCEPT !.state = "answered", !.keys = provider.keys]
  BY DEF Respond, jwksCache
<1>2. fetch' = [state |-> "answered", keys |-> provider.keys, at |-> fetch.at]
  BY <1>1 DEF KeysInv, JWKSTypeOK
<1>3. provider.keys \in SUBSET Kids /\ fetch.at \in 0 .. MaxTime
  BY DEF KeysInv, JWKSTypeOK
<1>4. JWKSTypeOK'
  BY <1>1, <1>2, <1>3 DEF KeysInv, JWKSTypeOK, NoAnswer
<1>5. PlacesFit'
  BY <1>1, <1>2 DEF KeysInv, PlacesFit
<1>6. AnswersAreTrue'
  BY <1>1, <1>2 DEF AnswersAreTrue
<1>7. TimesInv'
  BY <1>1, <1>2, <1>6 DEF KeysInv, TimesInv, FetchIsDue, KeysAreTrue, AbsencesAreTrue, CooldownIsTrue
<1>8. ASSUME WaitersAreQuick PROVE WaitersAreQuick'
  BY <1>1, <1>2, <1>8 DEF WaitersAreQuick
<1> QED
  BY <1>4, <1>5, <1>7, <1>8 DEF KeysInv

LEMMA RotateKeeps ==
  ASSUME KeysInv, NEW keys \in SUBSET Kids, Rotate(keys)
  PROVE  KeysInv' /\ (WaitersAreQuick => WaitersAreQuick')
<1>1. /\ UNCHANGED <<now, keyset, forced, unknown, login, holder, queue, fetch, failed>>
      /\ answer' = NoAnswer /\ provider'.keys = keys
      /\ provider' = [keys |-> keys,
           since |-> [k \in Kids |-> IF (k \in keys) = (k \in provider.keys)
                                     THEN provider.since[k] ELSE now]]
  BY DEF Rotate, jwksCache
<1>2. \A k \in Kids : \/ (k \in keys) = (k \in provider.keys) /\ provider'.since[k] = provider.since[k]
                      \/ (k \in keys) # (k \in provider.keys) /\ provider'.since[k] = now
  BY <1>1
<1>3. provider'.since \in [Kids -> 0 .. MaxTime]
  BY <1>1 DEF KeysInv, JWKSTypeOK
<1>4. JWKSTypeOK'
  <2>1. provider' \in [keys : SUBSET Kids, since : [Kids -> 0 .. MaxTime]]
    BY <1>1, <1>3
  <2> QED
    BY <1>1, <2>1 DEF KeysInv, JWKSTypeOK, NoAnswer
<1>5. PlacesFit'
  BY <1>1 DEF KeysInv, PlacesFit
<1>6. /\ now \in Nat /\ keyset.at \in Nat /\ keyset.at <= now /\ forced <= now /\ Latency \in Nat
      /\ keyset.keys \subseteq Kids /\ fetch.keys \subseteq Kids /\ fetch.at \in Nat /\ forced \in Int
      /\ \A i \in DOMAIN unknown : unknown[i].kid \in Kids /\ unknown[i].at \in Nat
  BY Times, KeysAssumption DEF KeysInv, TimesInv, FetchIsDue
<1>7. FetchIsDue'
  BY <1>1 DEF KeysInv, TimesInv, FetchIsDue
<1>8. AnswersAreTrue'
  <2>1. fetch.state = "answered" => fetch.at <= now
    BY DEF KeysInv, TimesInv, FetchIsDue, PlacesFit
  <2> QED
    BY <1>1, <1>2, <1>6, <2>1 DEF KeysInv, TimesInv, AnswersAreTrue
<1>9. KeysAreTrue'
  BY <1>1, <1>2, <1>6 DEF KeysInv, TimesInv, KeysAreTrue
<1>10. CooldownIsTrue'
  BY <1>1, <1>2, <1>6 DEF KeysInv, TimesInv, CooldownIsTrue
<1>11. AbsencesAreTrue'
  <2> SUFFICES ASSUME NEW i \in DOMAIN unknown
               PROVE  /\ unknown[i].at <= now
                      /\ unknown[i].kid \in keys =>
                           provider'.since[unknown[i].kid] + Latency >= unknown[i].at
    BY <1>1 DEF AbsencesAreTrue
  <2>1. /\ unknown[i].at <= now
        /\ unknown[i].kid \in provider.keys =>
             provider.since[unknown[i].kid] + Latency >= unknown[i].at
    BY DEF KeysInv, TimesInv, AbsencesAreTrue
  <2> QED
    BY <1>2, <1>6, <2>1
<1>12. ASSUME WaitersAreQuick PROVE WaitersAreQuick'
  BY <1>1, <1>12 DEF WaitersAreQuick
<1> QED
  BY <1>4, <1>5, <1>7, <1>8, <1>9, <1>10, <1>11, <1>12 DEF KeysInv, TimesInv

LEMMA KeysTickKeeps ==
  ASSUME KeysInv, JWKSTick
  PROVE  KeysInv' /\ (WaitersAreQuick => WaitersAreQuick')
<1>1. /\ UNCHANGED <<keyset, forced, unknown, login, holder, queue, fetch, provider, failed>>
      /\ now < MaxTime /\ now' = now + 1 /\ answer' = NoAnswer
      /\ IF holder = Nobody THEN queue = <<>> ELSE now < fetch.at + Latency
  BY DEF JWKSTick, jwksCache
<1>2. /\ now \in Nat /\ keyset.at \in Nat /\ keyset.at <= now /\ forced <= now /\ Latency \in Nat
      /\ MaxTime \in Nat /\ fetch.at \in Nat /\ forced \in Int /\ failed \in Int
      /\ \A i \in DOMAIN unknown : unknown[i].at \in Nat
  BY Times, KeysAssumption DEF KeysInv, TimesInv, FetchIsDue
<1>3. JWKSTypeOK'
  <2>1. now' \in 0 .. MaxTime
    BY <1>1, <1>2
  <2> QED
    BY <1>1, <2>1 DEF KeysInv, JWKSTypeOK, NoAnswer
<1>4. PlacesFit'
  BY <1>1 DEF KeysInv, PlacesFit
<1>5. FetchIsDue'
  BY <1>1, <1>2 DEF KeysInv, TimesInv, FetchIsDue
<1>6. AbsencesAreTrue'
  BY <1>1, <1>2 DEF KeysInv, TimesInv, AbsencesAreTrue
<1>7. TimesInv'
  BY <1>1, <1>5, <1>6 DEF KeysInv, TimesInv, AnswersAreTrue, KeysAreTrue, CooldownIsTrue
<1>8. ASSUME WaitersAreQuick PROVE WaitersAreQuick'
  <2> SUFFICES ASSUME NEW l \in Logins, login[l].at = "unknown", login[l].kid \in keyset.keys
               PROVE  /\ ~keyset.none /\ now + 1 <= keyset.at + Latency
                      /\ now + 1 > keyset.at => forced >= keyset.at
                      /\ holder # Nobody => fetch.at = keyset.at /\ login[holder].at = "force"
    BY <1>1 DEF WaitersAreQuick
  <2>1. holder # Nobody
    <3>1. PICK i \in DOMAIN queue : queue[i] = l
      BY DEF KeysInv, PlacesFit
    <3> QED
      BY <1>1, <3>1
  <2>2. ~keyset.none /\ fetch.at = keyset.at /\ login[holder].at = "force"
    BY <1>8, <2>1 DEF WaitersAreQuick
  <2> QED
    BY <1>1, <1>2, <2>1, <2>2 DEF KeysInv, TimesInv, FetchIsDue
<1> QED
  BY <1>3, <1>4, <1>8, <1>7 DEF KeysInv

LEMMA KeysInit == ASSUME JWKSInit PROVE KeysInv /\ WaitersAreQuick
<1>1. /\ now \in 0 .. MaxTime /\ 0 \in 0 .. MaxTime
      /\ login \in [Logins -> [at : {"idle", "called", "stale", "refresh", "unknown", "force"},
                               kid : Kids \cup {NoKid}]]
      /\ fetch \in [state : {"none", "sent", "answered"}, keys : SUBSET Kids, at : 0 .. MaxTime]
  BY KeysAssumption DEF JWKSInit, IdleLogin, NoFetch
<1>2. /\ queue \in Seq(Logins) /\ IsInjective(queue)
      /\ unknown \in Seq(Entry) /\ Len(unknown) <= MaxUnknown
  BY KeysAssumption DEF JWKSInit, IsInjective
<1>3. JWKSTypeOK
  BY <1>1, <1>2, KeysAssumption DEF JWKSInit, JWKSTypeOK, NoAnswer, Entry
<1>4. PlacesFit /\ WaitersAreQuick
  BY KeysAssumption DEF JWKSInit, PlacesFit, WaitersAreQuick, IdleLogin, NoFetch
<1>5. TimesInv
  BY KeysAssumption DEF JWKSInit, TimesInv, FetchIsDue, AnswersAreTrue,
         KeysAreTrue, AbsencesAreTrue, CooldownIsTrue, NoFetch
<1> QED
  BY <1>3, <1>4, <1>5 DEF KeysInv

LEMMA KeysStep ==
  ASSUME KeysInv, [JWKSNext]_jwksVars
  PROVE  /\ KeysInv'
         /\ Latency < Cooldown /\ Latency <= Ttl /\ WaitersAreQuick => WaitersAreQuick'
<1>1. ASSUME NEW l \in Logins,
             \/ Call(l) \/ TakeForStale(l) \/ TakeForUnknown(l)
             \/ RefreshArrives(l) \/ ForcedArrives(l) \/ FetchFails(l)
      PROVE  /\ KeysInv'
             /\ Latency < Cooldown /\ Latency <= Ttl /\ WaitersAreQuick => WaitersAreQuick'
  <2>1. /\ \E waiting : LoginStep(l, waiting)
        /\ AnswerStep(l) /\ UnknownStep(l)
    BY <1>1, LoginSteps DEF KeysInv
  <2>2. PICK waiting : LoginStep(l, waiting)
    BY <2>1
  <2> QED
    BY <2>1, <2>2, LoginsKeep, WaitersStayQuick
<1>2. CASE UNCHANGED jwksVars
  BY <1>2 DEF jwksVars, jwksCache, KeysInv, JWKSTypeOK, PlacesFit, TimesInv, FetchIsDue, AnswersAreTrue,
     KeysAreTrue, AbsencesAreTrue, CooldownIsTrue, WaitersAreQuick
<1> QED
  BY <1>1, <1>2, ArriveKeeps, RespondKeeps, RotateKeeps, KeysTickKeeps DEF JWKSNext

(* The inductive invariant of the cache of signing keys.                   *)
THEOREM KeysInvariant == JWKSSpec => []KeysInv
<1>1. JWKSInit => KeysInv
  BY KeysInit
<1>2. KeysInv /\ [JWKSNext]_jwksVars => KeysInv'
  BY KeysStep
<1> QED
  BY <1>1, <1>2, PTL DEF JWKSSpec

(* Every variable of the cache keeps its type: nobody waits for the lock   *)
(* twice, the list of unknown ids has each id once and stays in bounds.    *)
THEOREM KeysTypeCorrect == JWKSSpec => []JWKSTypeOK
<1>1. KeysInv => JWKSTypeOK
  BY DEF KeysInv
<1> QED
  BY <1>1, KeysInvariant, PTL

(* A login is told something by its own step only.                         *)
LEMMA OnlyLoginsAnswer ==
  ASSUME KeysInv, [JWKSNext]_jwksVars, answer' # NoAnswer, ~UNCHANGED jwksVars
  PROVE  \E l \in Logins : \E waiting : LoginStep(l, waiting) /\ AnswerStep(l)
<1>1. \E l \in Logins :
        \/ Call(l) \/ TakeForStale(l) \/ TakeForUnknown(l)
        \/ RefreshArrives(l) \/ ForcedArrives(l) \/ FetchFails(l)
  BY DEF JWKSNext, jwksVars, Arrive, Respond, Rotate, JWKSTick
<1> QED
  BY <1>1, LoginSteps DEF KeysInv

LEMMA KeysExpire ==
  ASSUME Latency < Cooldown, Latency <= Ttl, KeysInv, WaitersAreQuick,
         NEW l \in Logins, NEW waiting, LoginStep(l, waiting), AnswerStep(l),
         answer'.what = "key", answer'.kid \notin provider'.keys
  PROVE  now' <= provider'.since[answer'.kid] + Ttl + Latency
<1> DEFINE k == login[l].kid
<1>1. /\ answer'.kid = k /\ k \in keyset'.keys
      /\ \/ Arrives(l)
         \/ keyset' = keyset /\ (~IsStale \/ login[l].at = "unknown")
  BY DEF AnswerStep, NoAnswer
<1>2. k \in Kids /\ now' = now /\ provider' = provider /\ k \notin provider.keys
  BY <1>1 DEF KeysInv, PlacesFit, LoginStep, Moves
<1>3. /\ now \in Nat /\ keyset.at \in Nat /\ fetch.at \in Nat /\ provider.since[k] \in Nat
      /\ Ttl \in Nat /\ Latency \in Nat
  BY <1>2, Times, KeysAssumption DEF KeysInv
<1>4. CASE Arrives(l)
  <2>1. k \in fetch.keys
    BY <1>1, <1>4 DEF Arrives
  <2>2. provider.since[k] >= fetch.at /\ fetch.at + Latency >= now
    BY <1>2, <1>4, <2>1, ArrivalsAreTrue
  <2> QED
    BY <1>1, <1>2, <1>3, <2>2
<1>5. CASE keyset' = keyset /\ (~IsStale \/ login[l].at = "unknown")
  <2>1. provider.since[k] + Latency >= keyset.at
    BY <1>1, <1>2, <1>5 DEF KeysInv, TimesInv, KeysAreTrue
  <2>2. now <= keyset.at + Ttl
    <3>1. CASE ~IsStale
      BY <1>3, <3>1 DEF IsStale
    <3>2. CASE login[l].at = "unknown"
      BY <1>1, <1>3, <1>5, <3>2 DEF WaitersAreQuick
    <3> QED
      BY <1>5, <3>1, <3>2
  <2> QED
    BY <1>1, <1>2, <1>3, <2>1, <2>2
<1> QED
  BY <1>1, <1>4, <1>5

LEMMA KeysAreFound ==
  ASSUME 0 < Cooldown, KeysInv, KeysInv',
         NEW l \in Logins, NEW waiting, LoginStep(l, waiting), AnswerStep(l),
         answer'.what = "refused", answer'.kid \in provider'.keys, holder' = Nobody
  PROVE  LET patience == Latency + IF UnknownTtl > Cooldown THEN UnknownTtl ELSE Cooldown
         IN  \/ now' < provider'.since[answer'.kid] + patience
             \/ failed' # -1 /\ now' < failed' + Latency + Cooldown
<1> DEFINE k == login[l].kid
           patience == Latency + IF UnknownTtl > Cooldown THEN UnknownTtl ELSE Cooldown
<1>1. /\ answer'.kid = k /\ k \notin keyset'.keys
      /\ Refused(k) \/ Arrives(l)
  BY DEF AnswerStep, NoAnswer
<1>2. k \in Kids /\ now' = now /\ provider' = provider /\ k \in provider.keys
  BY <1>1 DEF KeysInv, PlacesFit, LoginStep, Moves
<1>3. /\ now \in Nat /\ forced \in Int /\ fetch.at \in Nat /\ provider.since[k] \in Nat
      /\ UnknownTtl \in Nat /\ Cooldown \in Nat /\ Latency \in Nat /\ forced >= -1
      /\ \A i \in DOMAIN unknown : unknown[i].at \in Nat
  BY <1>2, Times, KeysAssumption DEF KeysInv
<1>4. failed' \in Int
  <2>1. failed' \in -1 .. MaxTime /\ -1 \in Int /\ MaxTime \in Int
    BY KeysAssumption DEF KeysInv, JWKSTypeOK
  <2> QED
    BY <2>1
<1>5. patience \in Nat /\ patience >= Latency + UnknownTtl /\ patience >= Latency + Cooldown
  BY <1>3
<1> HIDE DEF patience
<1>6. CASE KnownUnknown(k)
  <2>1. PICK i \in DOMAIN unknown : unknown[i].kid = k /\ now - unknown[i].at < UnknownTtl
    BY <1>6 DEF KnownUnknown
  <2>2. provider.since[k] + Latency >= unknown[i].at
    BY <1>2, <2>1 DEF KeysInv, TimesInv, AbsencesAreTrue
  <2>3. now < provider.since[k] + patience
    BY <1>3, <1>5, <2>1, <2>2
  <2> QED
    BY <1>1, <1>2, <2>3 DEF patience
<1>7. CASE InCooldown
  <2>1. forced # -1 /\ now - forced < Cooldown
    BY <1>7 DEF InCooldown
  <2>2. forced' = forced
    BY <2>1, Holders, KeysAssumption DEF LoginStep, KeysInv
  <2>3. CASE failed' >= forced
    <3>1. /\ now \in Nat /\ Latency \in Nat /\ Cooldown \in Nat /\ forced \in Int
          /\ forced >= 0
      BY <1>3, <2>1
    <3>2. PICK f \in Int : f = failed'
      BY <1>4
    <3>3. f >= forced
      BY <2>3, <3>2
    <3>4. f # -1 /\ now < f + Latency + Cooldown
      BY <2>1, <3>1, <3>3
    <3> QED
      BY <1>2, <3>2, <3>4
  <2>4. CASE provider.since[k] >= forced
    <3>1. now < provider.since[k] + patience
      BY <1>3, <1>5, <2>1, <2>4
    <3> QED
      BY <1>1, <1>2, <3>1 DEF patience
  <2>5. failed' >= forced \/ provider.since[k] >= forced
    BY <1>1, <1>2, <2>1, <2>2 DEF KeysInv, TimesInv, CooldownIsTrue
  <2> QED
    BY <2>3, <2>4, <2>5
<1>8. CASE Arrives(l)
  <2>1. k \notin fetch.keys
    BY <1>1, <1>8 DEF Arrives
  <2>2. provider.since[k] >= fetch.at /\ fetch.at + Latency >= now
    BY <1>2, <1>8, <2>1, ArrivalsAreTrue
  <2>3. now < provider.since[k] + patience
    BY <1>3, <1>5, <2>2
  <2> QED
    BY <1>1, <1>2, <2>3 DEF patience
<1> QED
  BY <1>1, <1>6, <1>7, <1>8 DEF Refused

(* A key that the provider withdrew is trusted for no longer than the      *)
(* cache lives and the fetch that brought it took, where the timeout of a  *)
(* fetch is below the cooldown and within the life of the cache, as the    *)
(* defaults have it (10, 60 and 3600 seconds).  With a shorter cooldown    *)
(* one login after another would force a fetch, fail, and leave the next   *)
(* in the queue with an older set of keys, which is not checked again.     *)
THEOREM WithdrawnKeysAreForgotten ==
  ASSUME Latency < Cooldown, Latency <= Ttl
  PROVE  JWKSSpec => []WithdrawnKeysExpire
<1> DEFINE Inv == KeysInv /\ WaitersAreQuick /\ WithdrawnKeysExpire
<1>1. JWKSInit => Inv
  BY KeysInit DEF JWKSInit, WithdrawnKeysExpire, NoAnswer
<1>2. Inv /\ [JWKSNext]_jwksVars => Inv'
  <2> SUFFICES ASSUME Inv, [JWKSNext]_jwksVars PROVE Inv'
    OBVIOUS
  <2>1. KeysInv' /\ WaitersAreQuick'
    BY KeysStep
  <2>2. CASE answer' = NoAnswer
    BY <2>1, <2>2 DEF WithdrawnKeysExpire, NoAnswer
  <2>3. CASE UNCHANGED jwksVars
    BY <2>1, <2>3 DEF jwksVars, WithdrawnKeysExpire
  <2>4. ASSUME NEW l \in Logins, NEW waiting, LoginStep(l, waiting), AnswerStep(l)
        PROVE  WithdrawnKeysExpire'
    BY <2>4, KeysExpire DEF WithdrawnKeysExpire
  <2> QED
    BY <2>1, <2>2, <2>3, <2>4, OnlyLoginsAnswer
<1> QED
  BY <1>1, <1>2, PTL DEF JWKSSpec

(* A key that the provider has published for longer than a cooldown, the   *)
(* life of an entry in the list of unknown ids, and a fetch, is refused    *)
(* only while a fetch is under way or after one that failed; whatever else *)
(* is asked for and rotates meanwhile, and if only there is a cooldown.    *)
THEOREM PublishedKeysAreFound ==
  ASSUME 0 < Cooldown
  PROVE  JWKSSpec => []NewKeysAreFound
<1> DEFINE Inv == KeysInv /\ NewKeysAreFound
<1>1. JWKSInit => Inv
  BY KeysInit DEF JWKSInit, NewKeysAreFound, NoAnswer
<1>2. Inv /\ [JWKSNext]_jwksVars => Inv'
  <2> SUFFICES ASSUME Inv, [JWKSNext]_jwksVars PROVE Inv'
    OBVIOUS
  <2>1. KeysInv'
    BY KeysStep
  <2>2. CASE answer' = NoAnswer
    BY <2>1, <2>2 DEF NewKeysAreFound, NoAnswer
  <2>3. CASE UNCHANGED jwksVars
    BY <2>1, <2>3 DEF jwksVars, NewKeysAreFound
  <2>4. ASSUME NEW l \in Logins, NEW waiting, LoginStep(l, waiting), AnswerStep(l)
        PROVE  NewKeysAreFound'
    BY <2>1, <2>4, KeysAreFound DEF NewKeysAreFound
  <2> QED
    BY <2>1, <2>2, <2>3, <2>4, OnlyLoginsAnswer
<1> QED
  BY <1>1, <1>2, PTL DEF JWKSSpec
=============================================================================
