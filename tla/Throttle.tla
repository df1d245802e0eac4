----------------------------- MODULE Throttle -----------------------------
(***************************************************************************)
(* Rate limits (zeeb_api/throttling): a history of request times under a   *)
(* key, slid by check_and_record of the in-memory cache, whose sections    *)
(* under its lock hold no await; a route with one throttle                 *)
(* (dependency.py) or a view with several (check_throttles of the viewset),*)
(* all of which are asked and count, whichever of them refuses.            *)
(***************************************************************************)
EXTENDS Clock, Integers, Sequences, SequencesExt

CONSTANTS
  CacheKeys,     \* cache keys, one for each throttle scope and client
  rate,     \* num_requests of the throttle behind each key
  duration, \* and its window, in ticks
  Clients,  \* who makes requests
  throttles \* the keys of each client's requests, in the order of the view

(* What parse_rate makes of a rate: a number of requests, and one of four  *)
(* durations of at least a second.  A view asks the throttles it lists.    *)
ASSUME ThrottleAssumption ==
  /\ IsFiniteSet(CacheKeys)
  /\ rate \in [CacheKeys -> Nat]
  /\ duration \in [CacheKeys -> Nat \ {0}]
  /\ throttles \in [Clients -> Seq(CacheKeys)]
  /\ MaxTime \in Nat

VARIABLES
  cache,  \* the entry of each key: history, newest first, and expires_at
  passed, \* history: when requests under each key were let through
  retry   \* history: when a refused client was told to come back, 0 if not

throttleVars == <<now, cache, passed, retry>>

None == [history |-> <<>>, expires |-> 0]

ThrottleTypeOK ==
  /\ now \in 0 .. MaxTime
  /\ \A k \in CacheKeys :
       /\ cache[k].history \in Seq(0 .. MaxTime) /\ cache[k].expires \in Nat
       /\ Len(cache[k].history) <= rate[k]
       /\ \A i \in 1 .. Len(cache[k].history) - 1 :
            cache[k].history[i] >= cache[k].history[i + 1]
  /\ retry \in [Clients -> Nat]

ThrottleInit ==
  /\ now = 0
  /\ cache = [k \in CacheKeys |-> None]
  /\ passed = [k \in CacheKeys |-> <<>>]
  /\ retry = [c \in Clients |-> 0]

(* The timestamps of a history after the start of a window, in its order. *)
After(history, start) ==
  LET kept[i \in 0 .. Len(history)] ==
        IF i = 0 THEN <<>>
        ELSE IF history[i] > start THEN Append(kept[i - 1], history[i])
        ELSE kept[i - 1]
  IN kept[Len(history)]

\* Mutated: the stamp at the edge of the window still counts.
SlideLate(history, d) == After(history, now - d - 1)

(* _slide: without the timestamps outside the window. *)
Slide(history, d) == After(history, now - d)

(* What check_and_record finds in the window. *)
Window(k) ==
  Slide(IF cache[k].expires > now THEN cache[k].history ELSE <<>>, duration[k])

\* Mutated: one too many.
AllowsOneMore(k) == Len(Window(k)) <= rate[k]

Allows(k) == Len(Window(k)) < rate[k]

\* Mutated: the window of an entry ends with that of its first request.
RecordedOnce(k) ==
  IF Allows(k)
  THEN [history |-> <<now>> \o Window(k),
        expires |-> IF Window(k) = <<>> THEN now + duration[k]
                    ELSE cache[k].expires]
  ELSE cache[k]

(* The entry check_and_record leaves: a refusal records nothing. *)
Recorded(k) ==
  IF Allows(k)
  THEN [history |-> <<now>> \o Window(k), expires |-> now + duration[k]]
  ELSE cache[k]

(* wait(), of a throttle that refused: until its oldest stamp slides out. *)
Wait(k) == LET w == Window(k)
               slots == rate[k] - Len(w) + 1
               left == IF w = <<>> THEN duration[k]
                       ELSE duration[k] - (now - Last(w))
           IN (left + slots - 1) \div slots

Asked(c) == ToSet(throttles[c])

(* Pruning drops an expired entry, which nobody reads again. *)
Prune(entries) == [k \in CacheKeys |-> IF entries[k].expires <= now THEN None
                                  ELSE entries[k]]

(* A request: allow_request of every throttle, 429 if one of them refuses. *)
Request(c) ==
  LET refusing == {k \in Asked(c) : ~Allows(k)} IN
  /\ cache' = Prune([k \in CacheKeys |-> IF k \in Asked(c) THEN Recorded(k)
                                    ELSE cache[k]])
  /\ passed' = [k \in CacheKeys |-> IF refusing = {} /\ k \in Asked(c)
                               THEN Append(passed[k], now) ELSE passed[k]]
  /\ retry' = [d \in Clients |->
       CASE d = c /\ refusing # {} ->
              now + Max({Wait(k) : k \in refusing})
         [] d # c /\ (Asked(d) \cap Asked(c)) \ refusing = {} -> retry[d]
         [] OTHER -> 0]
  /\ UNCHANGED now

ThrottleTick == now < MaxTime /\ now' = now + 1 /\ UNCHANGED <<cache, passed, retry>>

ThrottleNext == (\E c \in Clients : Request(c)) \/ ThrottleTick

ThrottleSpec == ThrottleInit /\ [][ThrottleNext]_throttleVars

-----------------------------------------------------------------------------
(* In no window of the throttle do more requests pass than its rate, on    *)
(* whatever expiry and pruning made of the history in between.             *)
RateHolds ==
  \A k \in CacheKeys : \A i \in 1 .. Len(passed[k]) :
    LET j == i + rate[k] IN
    j <= Len(passed[k]) => passed[k][j] >= passed[k][i] + duration[k]

(* A client of a route with one throttle that comes back after Retry-After *)
(* passes, unless somebody used the slot under the same key meanwhile.     *)
RetryAfterIsEnough ==
  \A c \in Clients :
    /\ retry[c] # 0 /\ now >= retry[c] /\ Len(throttles[c]) = 1
    => Allows(throttles[c][1])
=============================================================================
