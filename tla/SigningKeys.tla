---------------------------- MODULE SigningKeys ----------------------------
(***************************************************************************)
(* JWKSCache (zeeb_api/auth/oauth/jwks.py): the signing keys of an OpenID  *)
(* provider, cached for Ttl and fetched again when they are stale or when  *)
(* a login names a key id the cache does not have.  Logins run on one      *)
(* event loop and fetch under one asyncio.Lock, which is fair; a login     *)
(* gives way only while it waits for the lock or for the provider.         *)
(***************************************************************************)
EXTENDS Clock, Integers, Sequences, SequencesExt

CONSTANTS
  Logins,     \* logins that ask for a key at once
  Nobody,     \* no login
  Kids,       \* key ids
  NoKid,      \* no key id
  Ttl,        \* ttl_seconds, in ticks of the clock
  Cooldown,   \* refetch_cooldown_seconds
  UnknownTtl, \* unknown_kid_ttl_seconds
  MaxUnknown, \* max_unknown_kids
  Latency     \* bound: ticks a fetch takes (the client's timeout)

ASSUME KeysAssumption ==
  /\ Nobody \notin Logins
  /\ Ttl \in Nat /\ Cooldown \in Nat /\ UnknownTtl \in Nat
  /\ MaxUnknown \in Nat /\ Latency \in Nat /\ MaxTime \in Nat

VARIABLES
  keyset,   \* _key_set and _fetched_at; its keys are {} before the first
  forced,   \* _last_forced_at, -1 for None
  unknown,  \* _unknown_kids, oldest first
  login,    \* what each login waits for, and the key id it asks for
  holder,   \* who holds _lock
  queue,    \* who waits for it
  fetch,    \* the fetch under way: when it was sent, what was answered
  provider, \* the keys it publishes, and since when each is in or out
  failed,   \* history: when a fetch last failed, -1 if none has
  answer    \* history: what this step told a login

jwksCache == <<keyset, forced, unknown>>
jwksVars == <<now, jwksCache, login, holder, queue, fetch, provider, failed, answer>>

IdleLogin == [at |-> "idle", kid |-> NoKid]
NoFetch == [state |-> "none", keys |-> {}, at |-> 0]
NoAnswer == [kid |-> NoKid, what |-> "none"]

JWKSTypeOK ==
  /\ now \in 0 .. MaxTime
  /\ keyset \in [none : BOOLEAN, keys : SUBSET Kids, at : 0 .. MaxTime]
  /\ forced \in -1 .. MaxTime /\ failed \in -1 .. MaxTime
  /\ unknown \in Seq([kid : Kids, at : 0 .. MaxTime])
  /\ Len(unknown) <= MaxUnknown
  /\ \A i, j \in DOMAIN unknown : unknown[i].kid = unknown[j].kid => i = j
  /\ login \in [Logins -> [at : {"idle", "called", "stale", "refresh", "unknown", "force"},
                           kid : Kids \cup {NoKid}]]
  /\ holder \in Logins \cup {Nobody}
  /\ queue \in Seq(Logins) /\ IsInjective(queue)
  /\ fetch \in [state : {"none", "sent", "answered"}, keys : SUBSET Kids,
                at : 0 .. MaxTime]
  /\ provider \in [keys : SUBSET Kids, since : [Kids -> 0 .. MaxTime]]
  /\ answer \in [kid : Kids \cup {NoKid},
              what : {"none", "key", "refused", "error"}]

JWKSInit ==
  /\ now = 0
  /\ keyset = [none |-> TRUE, keys |-> {}, at |-> 0]
  /\ forced = -1 /\ unknown = <<>>
  /\ login = [l \in Logins |-> IdleLogin]
  /\ holder = Nobody /\ queue = <<>> /\ fetch = NoFetch
  /\ provider = [keys |-> {}, since |-> [k \in Kids |-> 0]]
  /\ failed = -1 /\ answer = NoAnswer

-----------------------------------------------------------------------------
IsStale == keyset.none \/ now - keyset.at > Ttl

InCooldown == forced # -1 /\ now - forced < Cooldown

\* Mutated: what was absent once stays absent.
KnownForGood(k) == \E i \in DOMAIN unknown : unknown[i].kid = k

(* _known_unknown; an entry that expired is dropped when it is asked for. *)
KnownUnknown(k) ==
  \E i \in DOMAIN unknown : unknown[i].kid = k /\ now - unknown[i].at < UnknownTtl

(* An id has one entry, which is popped. *)
Without(k) ==
  LET entries == {i \in DOMAIN unknown : unknown[i].kid = k} IN
  IF entries = {} THEN unknown ELSE RemoveAt(unknown, CHOOSE i \in entries : TRUE)

(* _remember_unknown: the oldest make room. *)
Remember(k) ==
  LET more == Append(Without(k), [kid |-> k, at |-> now]) IN
  unknown' = IF Len(more) > MaxUnknown THEN Tail(more) ELSE more

Forget(k) == unknown' = IF KnownUnknown(k) THEN unknown ELSE Without(k)

Refused(k) == KnownUnknown(k) \/ InCooldown

\* Mutated: the cooldown is not looked at again.
RefusedIfKnown(k) == KnownUnknown(k)

(* The same, asked again under the lock. *)
RefusedAgain(k) == Refused(k)

Await(l, at) ==
  /\ login' = [login EXCEPT ![l].at = at]
  /\ answer' = NoAnswer

Reply(l, what) ==
  /\ login' = [login EXCEPT ![l] = IdleLogin]
  /\ answer' = [kid |-> login[l].kid, what |-> what]

(* fetch_jwks is sent, with the lock held. *)
Send(l, at) ==
  /\ Await(l, at)
  /\ holder' = l
  /\ fetch' = [state |-> "sent", keys |-> {}, at |-> now]

(* A forced fetch starts the cooldown before it is sent. *)
ForceFetch(l) == Send(l, "force") /\ forced' = now

(* A login that does not get the lock at once queues for it. *)
Queue(l, at, waiting) ==
  /\ Await(l, at)
  /\ queue' = Append(waiting, l)
  /\ UNCHANGED forced

(* The lock, and the fetch made under it, if l holds it and leaves it now. *)
Leave(l) ==
  /\ holder' = IF holder = l THEN Nobody ELSE holder
  /\ fetch' = IF holder = l THEN NoFetch ELSE fetch

(* The second half of get_signing_key, without an await before its lock:   *)
(* keys is what the first half left, waiting the queue without l.          *)
Resolve(l, keys, waiting) ==
  LET k == login[l].kid
      free == holder \in {Nobody, l} /\ waiting = <<>>
  IN
  \/ /\ k \in keys
     /\ Reply(l, "key") /\ Leave(l) /\ queue' = waiting
     /\ UNCHANGED <<forced, unknown>>
  \/ /\ k \notin keys /\ Refused(k)
     /\ Reply(l, "refused") /\ Leave(l) /\ queue' = waiting
     /\ Forget(k)
     /\ UNCHANGED forced
  \/ /\ k \notin keys /\ ~Refused(k) /\ free
     /\ ForceFetch(l) /\ queue' = waiting
     /\ Forget(k)
  \/ /\ k \notin keys /\ ~Refused(k) /\ ~free
     /\ Queue(l, "unknown", waiting) /\ Leave(l)
     /\ Forget(k)

-----------------------------------------------------------------------------
(* A request comes in that needs the key k. *)
Arrive(l, k) ==
  /\ login[l].at = "idle"
  /\ login' = [login EXCEPT ![l] = [at |-> "called", kid |-> k]]
  /\ answer' = NoAnswer
  /\ UNCHANGED <<now, jwksCache, holder, queue, fetch, provider, failed>>

(* get_signing_key *)
Call(l) ==
  /\ login[l].at = "called"
  /\ \/ /\ IsStale /\ holder = Nobody /\ queue = <<>>
        /\ Send(l, "refresh")
        /\ UNCHANGED <<forced, unknown, queue>>
     \/ /\ IsStale /\ ~(holder = Nobody /\ queue = <<>>)
        /\ Queue(l, "stale", queue)
        /\ UNCHANGED <<unknown, holder, fetch>>
     \/ /\ ~IsStale
        /\ Resolve(l, keyset.keys, queue)
  /\ UNCHANGED <<now, keyset, provider, failed>>

Takes(l, at) ==
  holder = Nobody /\ queue # <<>> /\ Head(queue) = l /\ login[l].at = at

(* The lock of the first half: another login may have refreshed the keys.  *)
TakeForStale(l) ==
  /\ Takes(l, "stale")
  /\ \/ /\ IsStale
        /\ Send(l, "refresh") /\ queue' = Tail(queue)
        /\ UNCHANGED <<forced, unknown>>
     \/ /\ ~IsStale
        /\ Resolve(l, keyset.keys, Tail(queue))
  /\ UNCHANGED <<now, keyset, provider, failed>>

(* The lock of the second half: another fetch may have brought the key, or *)
(* started the cooldown.                                                   *)
TakeForUnknown(l) ==
  LET k == login[l].kid IN
  /\ Takes(l, "unknown")
  /\ queue' = Tail(queue)
  /\ \/ /\ k \in keyset.keys
        /\ Reply(l, "key")
        /\ UNCHANGED <<forced, unknown, holder, fetch>>
     \/ /\ k \notin keyset.keys /\ RefusedAgain(k)
        /\ Reply(l, "refused")
        /\ Forget(k)
        /\ UNCHANGED <<forced, holder, fetch>>
     \/ /\ k \notin keyset.keys /\ ~RefusedAgain(k)
        /\ Forget(k)
        /\ ForceFetch(l)
  /\ UNCHANGED <<now, keyset, provider, failed>>

(* The provider answers with the keys it publishes. *)
Respond ==
  /\ fetch.state = "sent"
  /\ fetch' = [fetch EXCEPT !.state = "answered", !.keys = provider.keys]
  /\ answer' = NoAnswer
  /\ UNCHANGED <<now, jwksCache, login, holder, queue, provider, failed>>

(* The answer arrives, and the login goes on. *)
RefreshArrives(l) ==
  /\ login[l].at = "refresh" /\ fetch.state = "answered"
  /\ keyset' = [none |-> FALSE, keys |-> fetch.keys, at |-> now]
  /\ Resolve(l, fetch.keys, queue)
  /\ UNCHANGED <<now, provider, failed>>

ForcedArrives(l) ==
  LET k == login[l].kid IN
  /\ login[l].at = "force" /\ fetch.state = "answered"
  /\ keyset' = [none |-> FALSE, keys |-> fetch.keys, at |-> now]
  /\ IF k \in fetch.keys
     THEN Reply(l, "key") /\ UNCHANGED unknown
     ELSE Reply(l, "refused") /\ Remember(k)
  /\ Leave(l)
  /\ UNCHANGED <<now, forced, queue, provider, failed>>

\* Mutated: _fetched_at is set however the fetch ends.
FetchFailsFresh(l) ==
  /\ login[l].at \in {"refresh", "force"}
  /\ Reply(l, "error")
  /\ Leave(l)
  /\ failed' = now
  /\ keyset' = [keyset EXCEPT !.at = now]
  /\ UNCHANGED <<now, forced, unknown, queue, provider>>

(* The fetch fails, times out or brings no key set, or the login that      *)
(* waits for it is cancelled.                                              *)
FetchFails(l) ==
  /\ login[l].at \in {"refresh", "force"}
  /\ Reply(l, "error")
  /\ Leave(l)
  /\ failed' = now
  /\ UNCHANGED <<now, jwksCache, queue, provider>>

(* The provider publishes and withdraws keys. *)
Rotate(keys) ==
  /\ keys # provider.keys
  /\ provider' = [keys |-> keys,
       since |-> [k \in Kids |-> IF (k \in keys) = (k \in provider.keys)
                                 THEN provider.since[k] ELSE now]]
  /\ answer' = NoAnswer
  /\ UNCHANGED <<now, jwksCache, login, holder, queue, fetch, failed>>

(* Code that waits for nothing takes no time. *)
JWKSTick ==
  /\ now < MaxTime
  /\ \A l \in Logins : login[l].at # "called"
  /\ IF holder = Nobody THEN queue = <<>> ELSE now < fetch.at + Latency
  /\ now' = now + 1
  /\ answer' = NoAnswer
  /\ UNCHANGED <<jwksCache, login, holder, queue, fetch, provider, failed>>

JWKSNext ==
  \/ \E l \in Logins :
       \/ \E k \in Kids : Arrive(l, k)
       \/ Call(l) \/ TakeForStale(l) \/ TakeForUnknown(l)
       \/ RefreshArrives(l) \/ ForcedArrives(l) \/ FetchFails(l)
  \/ Respond
  \/ \E keys \in SUBSET Kids : Rotate(keys)
  \/ JWKSTick

JWKSSpec == JWKSInit /\ [][JWKSNext]_jwksVars

-----------------------------------------------------------------------------
(* However many logins name unknown keys at once, forced fetches are a     *)
(* cooldown apart, the failed ones too ("At most one forced refetch per    *)
(* refetch_cooldown_seconds").                                             *)
ForcedFetchesAreRare ==
  [][\A l \in Logins :
       login'[l].at = "force" /\ login[l].at # "force" /\ forced # -1
         => now - forced >= Cooldown]_jwksVars

(* "real key rotation is still picked up": a key is refused only if it is  *)
(* new, a fetch under way may bring it, or a fetch failed.                 *)
NewKeysAreFound ==
  LET k == answer.kid
      patience == Latency + IF UnknownTtl > Cooldown THEN UnknownTtl ELSE Cooldown
  IN  answer.what = "refused" /\ k \in provider.keys =>
        \/ now < provider.since[k] + patience
        \/ holder # Nobody
        \/ failed # -1 /\ now < failed + Latency + Cooldown

(* A withdrawn key is trusted for no longer than the cache lives and the   *)
(* answer that last listed it took to arrive.                              *)
WithdrawnKeysExpire ==
  LET k == answer.kid IN
  answer.what = "key" /\ k \notin provider.keys
    => now <= provider.since[k] + Ttl + Latency
=============================================================================
