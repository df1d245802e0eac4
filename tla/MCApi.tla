------------------------------- MODULE MCApi -------------------------------
(* The components of zeeb_api that keep state between requests.  They share *)
(* the clock and nothing else, so each behaviour exercises one of them.     *)
EXTENDS RefreshTokens, Throttle, SigningKeys, TLC

CONSTANTS
  Part,               \* the components to exercise
  burst, daily,       \* throttle keys
  one, both, other    \* clients

Rates == (burst :> 2) @@ (daily :> 1)
Durations == (burst :> 2) @@ (daily :> 3)
Views == (one :> <<burst>>) @@ (both :> <<burst, daily>>) @@ (other :> <<daily>>)

VARIABLE part         \* the component exercised

tokenVars == <<account, issued, data, req, history>>
throttling == <<cache, passed, retry>>
keyVars == <<jwksCache, login, holder, queue, fetch, provider, failed, answer>>
allVars == <<part, now, tokenVars, throttling, keyVars>>

ApiInit == part \in Part /\ Init /\ ThrottleInit /\ JWKSInit

ApiNext ==
  /\ UNCHANGED part
  /\ \/ part = "tokens" /\ Next /\ UNCHANGED <<throttling, keyVars>>
     \/ part = "throttles" /\ ThrottleNext /\ UNCHANGED <<tokenVars, keyVars>>
     \/ part = "keys" /\ JWKSNext /\ UNCHANGED <<tokenVars, throttling>>

ApiSpec == ApiInit /\ [][ApiNext]_allVars

Symmetry == Permutations(Requests) \cup Permutations(Logins) \cup Permutations(Kids)

-----------------------------------------------------------------------------
(* Each variable of the three components keeps its type: the windows are    *)
(* sorted and no longer than the rate, the cache of unknown ids is bounded, *)
(* nobody waits for the lock twice.                                         *)
TypesOK == TypeOK /\ ThrottleTypeOK /\ JWKSTypeOK
=============================================================================
