--------------------------- MODULE ThrottleProofs ---------------------------
(***************************************************************************)
(* For any keys, rates, windows and clients: no window lets more requests  *)
(* pass than its rate, and whoever comes back after Retry-After is let in. *)
(***************************************************************************)
EXTENDS Throttle, FiniteSetTheorems, WellFoundedInduction, TLAPS

Sorted(history) ==
  \A i, j \in 1 .. Len(history) : i <= j => history[i] >= history[j]

(* The shape of the state; the histories are sorted, newest first.          *)
Typed ==
  /\ now \in 0 .. MaxTime
  /\ cache \in [CacheKeys -> [history : Seq(0 .. MaxTime), expires : Nat]]
  /\ \A k \in CacheKeys :
       /\ Len(cache[k].history) <= rate[k]
       /\ Sorted(cache[k].history)
  /\ passed \in [CacheKeys -> Seq(0 .. MaxTime)]
  /\ retry \in [Clients -> Nat]

(* No stamp is later than the clock, and none outlives its entry: the cache *)
(* forgets nothing that a window still counts.                              *)
EntriesOutlast ==
  \A k \in CacheKeys : \A i \in 1 .. Len(cache[k].history) :
    /\ cache[k].history[i] <= now
    /\ cache[k].history[i] + duration[k] <= cache[k].expires

(* The m-th request from the last that passed has left the window, or the   *)
(* history still holds m stamps, the m-th of them no older.                 *)
Remembered(k, m) ==
  LET stamp == passed[k][Len(passed[k]) + 1 - m] IN
  \/ stamp + duration[k] <= now
  \/ /\ cache[k].expires > now
     /\ m <= Len(cache[k].history)
     /\ cache[k].history[m] >= stamp

PassesAreRemembered ==
  \A k \in CacheKeys : \A m \in 1 .. Len(passed[k]) : Remembered(k, m)

(* When a refused client is to come back, the oldest stamp of a full        *)
(* history has left the window.                                             *)
SlotIsDue ==
  \A c \in Clients :
    retry[c] # 0 /\ Len(throttles[c]) = 1 =>
      LET k == throttles[c][1] IN
      cache[k].expires > now /\ Len(cache[k].history) = rate[k] /\ rate[k] > 0
        => cache[k].history[rate[k]] + duration[k] <= retry[c]

(* A window never passes more than its rate because the cache remembers     *)
(* every request it let through for as long as a window can contain it.     *)
ThrottleInv ==
  /\ Typed
  /\ EntriesOutlast
  /\ PassesAreRemembered
  /\ RateHolds
  /\ SlotIsDue

-----------------------------------------------------------------------------
(* The function by which After keeps the stamps of a history, defined up to *)
(* its n-th.                                                                *)
IsKept(g, history, start, n) ==
  g = [i \in 0 .. n |->
        IF i = 0 THEN <<>>
        ELSE IF history[i] > start THEN Append(g[i - 1], history[i])
        ELSE g[i - 1]]

(* There is one: the shortest history without would be one longer than a    *)
(* history with.                                                            *)
LEMMA KeptExists ==
  ASSUME NEW history, NEW start, NEW n \in Nat
  PROVE  \E g : IsKept(g, history, start, n)
<1> DEFINE R == OpToRel(<, Nat)
           T == {m \in Nat : ~\E g : IsKept(g, history, start, m)}
<1>1. IsWellFoundedOn(R, Nat)
  BY NatLessThanWellFounded
<1>2. SUFFICES ASSUME T # {} PROVE FALSE
  OBVIOUS
<1>3. PICK m \in T : \A y \in T : ~(<<y, m>> \in R)
  <2>1. T \subseteq Nat
    OBVIOUS
  <2> HIDE DEF T, R
  <2> QED BY <1>1, <1>2, <2>1, WFMin
<1>4. \A y \in Nat : y < m => \E g : IsKept(g, history, start, y)
  BY <1>3 DEF OpToRel
<1>5. m # 0
  <2>1. IsKept([i \in 0 .. 0 |-> <<>>], history, start, 0)
    BY DEF IsKept
  <2> QED BY <2>1
<1>6. PICK g : IsKept(g, history, start, m - 1)
  BY <1>4, <1>5
<1> DEFINE f == [i \in 0 .. m |->
                  IF i < m THEN g[i]
                  ELSE IF history[m] > start THEN Append(g[m - 1], history[m])
                  ELSE g[m - 1]]
<1>7. \A i \in 0 .. m :
        f[i] = IF i = 0 THEN <<>>
               ELSE IF history[i] > start THEN Append(f[i - 1], history[i])
               ELSE f[i - 1]
  <2> SUFFICES ASSUME NEW i \in 0 .. m
               PROVE  f[i] = IF i = 0 THEN <<>>
                             ELSE IF history[i] > start
                                  THEN Append(f[i - 1], history[i])
                                  ELSE f[i - 1]
    OBVIOUS
  <2>1. CASE i = m
    <3>1. f[m - 1] = g[m - 1]
      BY <1>5
    <3> QED BY <1>5, <2>1, <3>1
  <2>2. CASE i < m
    <3>1. f[i] = g[i] /\ (i # 0 => f[i - 1] = g[i - 1])
      BY <2>2
    <3>2. i \in 0 .. m - 1
      BY <2>2
    <3>3. g[i] = IF i = 0 THEN <<>>
                 ELSE IF history[i] > start
                      THEN Append(g[i - 1], history[i]) ELSE g[i - 1]
      BY <1>6, <3>2 DEF IsKept
    <3> QED BY <3>1, <3>3
  <2> QED BY <2>1, <2>2
<1>8. IsKept(f, history, start, m)
  <2> DEFINE h == [i \in 0 .. m |->
                    IF i = 0 THEN <<>>
                    ELSE IF history[i] > start
                         THEN Append(f[i - 1], history[i])
                    ELSE f[i - 1]]
  <2>1. \A i \in 0 .. m : f[i] = h[i]
    <3> HIDE DEF f
    <3> QED BY <1>7
  <2>2. f = h
    <3>1. f = [i \in 0 .. m |-> f[i]]
      OBVIOUS
    <3>2. h = [i \in 0 .. m |-> h[i]]
      OBVIOUS
    <3> HIDE DEF f, h
    <3>3. [i \in 0 .. m |-> f[i]] = [i \in 0 .. m |-> h[i]]
      BY <2>1
    <3> QED BY <3>1, <3>2, <3>3
  <2> HIDE DEF f
  <2> QED BY <2>2 DEF IsKept
<1> QED BY <1>3, <1>8

(* After is defined by such a function.                                     *)
LEMMA AfterIsKept ==
  ASSUME NEW history, NEW start, Len(history) \in Nat
  PROVE  \E g : /\ IsKept(g, history, start, Len(history))
                /\ After(history, start) = g[Len(history)]
<1>1. \E g : IsKept(g, history, start, Len(history))
  BY KeptExists
<1> DEFINE kept == CHOOSE g : IsKept(g, history, start, Len(history))
<1>2. IsKept(kept, history, start, Len(history))
  BY <1>1
<1>3. After(history, start) = kept[Len(history)]
  BY DEF After, IsKept
<1> QED BY <1>2, <1>3

(* Of a history sorted newest first, what _slide keeps is its beginning.    *)
LEMMA AfterIsPrefix ==
  ASSUME NEW history \in Seq(Int), NEW start \in Int, Sorted(history)
  PROVE  \E n \in 0 .. Len(history) :
           /\ After(history, start) = SubSeq(history, 1, n)
           /\ \A i \in 1 .. n : history[i] > start
           /\ \A i \in n + 1 .. Len(history) : history[i] <= start
<1> DEFINE R == OpToRel(<, Nat)
           len == Len(history)
<1>0. len \in Nat /\ \A i \in 1 .. len : history[i] \in Int
  OBVIOUS
<1>1. PICK g : /\ IsKept(g, history, start, len)
               /\ After(history, start) = g[len]
  BY <1>0, AfterIsKept
<1> DEFINE Cut(i, n) ==
             /\ g[i] = SubSeq(history, 1, n)
             /\ \A j \in 1 .. n : history[j] > start
             /\ \A j \in n + 1 .. i : history[j] <= start
           T == {i \in Nat : i <= len /\ ~\E n \in 0 .. i : Cut(i, n)}
<1>2. T = {}
  <2>1. SUFFICES ASSUME T # {} PROVE FALSE
    OBVIOUS
  <2>2. PICK i \in T : \A y \in T : ~(<<y, i>> \in R)
    <3>1. T \subseteq Nat
      OBVIOUS
    <3>2. IsWellFoundedOn(R, Nat)
      BY NatLessThanWellFounded
    <3> HIDE DEF T, R
    <3> QED BY <2>1, <3>1, <3>2, WFMin
  <2>3. i \in Nat /\ i <= len /\ ~\E n \in 0 .. i : Cut(i, n)
    OBVIOUS
  <2>4. g[i] = IF i = 0 THEN <<>>
               ELSE IF history[i] > start THEN Append(g[i - 1], history[i])
               ELSE g[i - 1]
    <3>1. i \in 0 .. len
      BY <1>0, <2>3
    <3>2. g = [j \in 0 .. len |->
                IF j = 0 THEN <<>>
                ELSE IF history[j] > start THEN Append(g[j - 1], history[j])
                ELSE g[j - 1]]
      BY <1>1 DEF IsKept
    <3> HIDE DEF T, R, len
    <3> QED BY <3>1, <3>2
  <2>5. i # 0
    <3>1. ASSUME i = 0 PROVE Cut(0, 0)
      <4>1. SubSeq(history, 1, 0) = <<>>
        OBVIOUS
      <4>2. g[0] = <<>>
        BY <2>4, <3>1
      <4>3. 1 .. 0 = {} /\ 0 + 1 .. 0 = {}
        OBVIOUS
      <4> QED BY <4>1, <4>2, <4>3
    <3>2. 0 \in 0 .. 0
      OBVIOUS
    <3> QED BY <2>3, <3>1, <3>2
  <2>6. PICK n \in 0 .. i - 1 : Cut(i - 1, n)
    <3>1. i - 1 \in Nat /\ i - 1 <= len /\ <<i - 1, i>> \in R
      BY <1>0, <2>3, <2>5 DEF OpToRel
    <3>2. i - 1 \notin T
      BY <2>2, <3>1
    <3> QED BY <3>1, <3>2
  <2>7. CASE history[i] > start
    <3>1. n = i - 1
      <4> SUFFICES ASSUME n < i - 1 PROVE FALSE
        OBVIOUS
      <4>1. n + 1 \in 1 .. len /\ i \in 1 .. len /\ n + 1 <= i
        BY <1>0, <2>3, <2>5
      <4>2. history[n + 1] >= history[i]
        BY <4>1 DEF Sorted
      <4>3. history[n + 1] <= start
        BY <2>6
      <4> QED BY <1>0, <2>7, <4>1, <4>2, <4>3
    <3>2. Append(SubSeq(history, 1, i - 1), history[i])
            = SubSeq(history, 1, i)
      BY <1>0, <2>3, <2>5
    <3>3. Cut(i, i)
      BY <2>4, <2>5, <2>6, <2>7, <3>1, <3>2
    <3> QED BY <2>3, <3>3
  <2>8. CASE ~(history[i] > start)
    <3>1. history[i] <= start
      BY <1>0, <2>3, <2>5, <2>8
    <3>2. Cut(i, n)
      BY <2>3, <2>4, <2>5, <2>6, <2>8, <3>1
    <3> QED BY <2>3, <3>2, SMTT(30)
  <2> QED BY <2>7, <2>8
<1>3. PICK n \in 0 .. len : Cut(len, n)
  BY <1>0, <1>2, SMTT(30)
<1> QED BY <1>1, <1>3

(* What check_and_record finds in the window is the beginning of a live     *)
(* entry's history, down to the last stamp inside the window.               *)
LEMMA WindowFacts ==
  ASSUME Typed, NEW k \in CacheKeys
  PROVE  /\ Window(k) \in Seq(0 .. MaxTime)
         /\ Len(Window(k)) <= Len(cache[k].history)
         /\ \A i \in 1 .. Len(Window(k)) :
              /\ Window(k)[i] = cache[k].history[i]
              /\ Window(k)[i] > now - duration[k]
              /\ cache[k].expires > now
         /\ \A i \in 1 .. Len(cache[k].history) :
              cache[k].expires > now /\ cache[k].history[i] > now - duration[k]
                => i <= Len(Window(k))
<1> DEFINE h == cache[k].history
           start == now - duration[k]
<1>1. /\ h \in Seq(0 .. MaxTime) /\ Sorted(h) /\ cache[k].expires \in Nat
      /\ start \in Int /\ MaxTime \in Nat /\ now \in Nat
  BY ThrottleAssumption DEF Typed
<1>2. h \in Seq(Int) /\ Len(h) \in Nat
  BY <1>1
<1>3. CASE cache[k].expires > now
  <2>1. Window(k) = After(h, start)
    BY <1>3 DEF Window, Slide
  <2>2. PICK n \in 0 .. Len(h) :
               /\ After(h, start) = SubSeq(h, 1, n)
               /\ \A i \in 1 .. n : h[i] > start
               /\ \A i \in n + 1 .. Len(h) : h[i] <= start
    <3> HIDE DEF h, start
    <3> QED BY <1>1, <1>2, AfterIsPrefix
  <2> HIDE DEF h, start
  <2>3. /\ SubSeq(h, 1, n) \in Seq(0 .. MaxTime)
        /\ Len(SubSeq(h, 1, n)) = n
        /\ \A i \in 1 .. n : SubSeq(h, 1, n)[i] = h[i]
    BY <1>1, <1>2
  <2>4. \A i \in 1 .. Len(h) : h[i] > start => i <= n
    <3> SUFFICES ASSUME NEW i \in 1 .. Len(h), h[i] > start, i > n
                 PROVE  FALSE
      BY <1>2
    <3>1. i \in n + 1 .. Len(h) /\ h[i] \in Int
      BY <1>2
    <3> QED BY <1>1, <2>2, <3>1
  <2>5. Window(k) = SubSeq(h, 1, n)
    BY <2>1, <2>2
  <2>6. Window(k) \in Seq(0 .. MaxTime) /\ Len(Window(k)) = n /\ n <= Len(h)
    BY <1>2, <2>3, <2>5
  <2>7. \A i \in 1 .. Len(Window(k)) : Window(k)[i] = h[i] /\ h[i] > start
    BY <2>2, <2>3, <2>5, <2>6
  <2> QED BY <1>3, <2>4, <2>6, <2>7 DEF h, start
<1>4. CASE ~(cache[k].expires > now)
  <2> DEFINE none == <<>>
  <2>1. Window(k) = After(none, start)
    BY <1>4 DEF Window, Slide
  <2>2. none \in Seq(Int) /\ Len(none) = 0
    OBVIOUS
  <2>3. Sorted(none)
    BY <2>2 DEF Sorted
  <2>4. After(none, start) = none
    <3>1. PICK n \in 0 .. Len(none) : After(none, start) = SubSeq(none, 1, n)
      <4> HIDE DEF none, start
      <4> QED BY <1>1, <2>2, <2>3, AfterIsPrefix
    <3>2. n = 0
      BY <2>2
    <3> QED BY <3>1, <3>2
  <2>5. Window(k) = <<>>
    BY <2>1, <2>4
  <2> QED BY <1>2, <1>4, <2>5
<1> QED BY <1>3, <1>4

(* What a request does to the entry of a key: it records itself, or leaves  *)
(* the entry alone, or finds it expired and drops it.                       *)
Recording(k) ==
  /\ Allows(k)
  /\ cache'[k] = [history |-> <<now>> \o Window(k),
                  expires |-> now + duration[k]]
  /\ passed'[k] \in {passed[k], Append(passed[k], now)}

Leaving(k) == cache'[k] = cache[k] /\ passed'[k] = passed[k]

Dropping(k) ==
  cache[k].expires <= now /\ cache'[k] = None /\ passed'[k] = passed[k]

LEMMA RequestOnKey ==
  ASSUME Typed, NEW c \in Clients, Request(c), NEW k \in CacheKeys
  PROVE  /\ Recording(k) \/ Leaving(k) \/ Dropping(k)
         /\ k \notin Asked(c) \/ ~Allows(k) => Leaving(k) \/ Dropping(k)
<1> DEFINE refusing == {x \in Asked(c) : ~Allows(x)}
           entry == IF k \in Asked(c) THEN Recorded(k) ELSE cache[k]
<1>1. cache'[k] = IF entry.expires <= now THEN None ELSE entry
  BY DEF Request, Prune
<1>2. passed'[k] = IF refusing = {} /\ k \in Asked(c)
                   THEN Append(passed[k], now) ELSE passed[k]
  BY DEF Request
<1>3. now \in Nat /\ duration[k] \in Nat \ {0}
  BY ThrottleAssumption DEF Typed
<1>4. CASE k \in Asked(c) /\ Allows(k)
  <2>1. entry = [history |-> <<now>> \o Window(k), expires |-> now + duration[k]]
    BY <1>4 DEF Recorded
  <2>2. ~(entry.expires <= now)
    BY <1>3, <2>1
  <2>3. cache'[k] = entry
    BY <1>1, <2>2
  <2>4. passed'[k] \in {passed[k], Append(passed[k], now)}
    BY <1>2
  <2> QED BY <1>4, <2>1, <2>3, <2>4 DEF Recording
<1>5. CASE ~(k \in Asked(c) /\ Allows(k))
  <2>1. entry = cache[k]
    BY <1>5 DEF Recorded
  <2>2. passed'[k] = passed[k]
    BY <1>2, <1>5
  <2> QED BY <1>1, <2>1, <2>2 DEF Leaving, Dropping
<1> QED BY <1>4, <1>5

(* The history a request records: its own stamp before those of the window. *)
LEMMA RecordedFacts ==
  ASSUME Typed, NEW k \in CacheKeys, Recording(k)
  PROVE  /\ cache'[k].history \in Seq(0 .. MaxTime)
         /\ cache'[k].expires = now + duration[k]
         /\ Len(cache'[k].history) = Len(Window(k)) + 1
         /\ Len(cache'[k].history) <= rate[k]
         /\ cache'[k].history[1] = now
         /\ \A i \in 1 .. Len(Window(k)) :
              cache'[k].history[i + 1] = cache[k].history[i]
<1> DEFINE w == Window(k)
           h == <<now>> \o w
<1>1. /\ w \in Seq(0 .. MaxTime) /\ now \in 0 .. MaxTime /\ Len(w) \in Nat
      /\ \A i \in 1 .. Len(w) : w[i] = cache[k].history[i]
  BY WindowFacts DEF Typed
<1>2. cache'[k].history = h /\ cache'[k].expires = now + duration[k]
  BY DEF Recording
<1>3. Len(w) < rate[k] /\ rate[k] \in Nat
  BY ThrottleAssumption DEF Recording, Allows
<1> HIDE DEF w
<1>4. /\ h \in Seq(0 .. MaxTime) /\ Len(h) = Len(w) + 1 /\ h[1] = now
      /\ \A i \in 1 .. Len(w) : h[i + 1] = w[i]
  BY <1>1
<1> QED BY <1>1, <1>2, <1>3, <1>4 DEF w

-----------------------------------------------------------------------------
(* In the first state nothing is recorded.                                  *)
LEMMA InitHolds == ThrottleInit => ThrottleInv
<1> SUFFICES ASSUME ThrottleInit PROVE ThrottleInv
  OBVIOUS
<1>1. \A k \in CacheKeys : cache[k] = None /\ passed[k] = <<>>
  BY DEF ThrottleInit
<1>2. \A k \in CacheKeys : /\ cache[k].history = <<>> /\ cache[k].expires = 0
                      /\ Len(cache[k].history) = 0 /\ Len(passed[k]) = 0
  BY <1>1 DEF None
<1>3. Typed
  <2>1. None \in [history : Seq(0 .. MaxTime), expires : Nat]
    BY DEF None
  <2>2. \A k \in CacheKeys : Len(cache[k].history) <= rate[k] /\ Sorted(cache[k].history)
    BY <1>2, ThrottleAssumption DEF Sorted
  <2> QED BY <2>1, <2>2, ThrottleAssumption DEF ThrottleInit, Typed
<1>4. EntriesOutlast /\ PassesAreRemembered /\ RateHolds
  BY <1>2 DEF EntriesOutlast, PassesAreRemembered, RateHolds
<1>5. SlotIsDue
  BY DEF ThrottleInit, SlotIsDue
<1> QED BY <1>3, <1>4, <1>5 DEF ThrottleInv

(* The stamps of the requests that passed are times.                        *)
LEMMA PassedStamps ==
  ASSUME ThrottleInv, NEW k \in CacheKeys
  PROVE  /\ Len(passed[k]) \in Nat
         /\ \A i \in 1 .. Len(passed[k]) : passed[k][i] \in Nat
         /\ \A m \in 1 .. Len(passed[k]) :
              passed[k][Len(passed[k]) + 1 - m] \in Nat
<1>1. passed[k] \in Seq(0 .. MaxTime) /\ MaxTime \in Nat
  BY ThrottleAssumption DEF ThrottleInv, Typed
<1>2. /\ Len(passed[k]) \in Nat
      /\ \A i \in 1 .. Len(passed[k]) : passed[k][i] \in Nat
  BY <1>1
<1>3. \A m \in 1 .. Len(passed[k]) : Len(passed[k]) + 1 - m \in 1 .. Len(passed[k])
  BY <1>2
<1> QED BY <1>2, <1>3

(* The clock moves: what a window forgets, and when an entry expires.       *)
LEMMA TickKeeps ==
  ASSUME ThrottleInv, ThrottleTick
  PROVE  ThrottleInv'
<1>1. /\ now \in Nat /\ now' = now + 1 /\ now' \in 0 .. MaxTime
      /\ cache' = cache /\ passed' = passed /\ retry' = retry
  BY ThrottleAssumption DEF ThrottleTick, ThrottleInv, Typed
<1>2. Typed'
  BY <1>1 DEF ThrottleInv, Typed, Sorted
<1>3. EntriesOutlast'
  <2> SUFFICES ASSUME NEW k \in CacheKeys, NEW i \in 1 .. Len(cache[k].history)
               PROVE  /\ cache[k].history[i] <= now + 1
                      /\ cache[k].history[i] + duration[k] <= cache[k].expires
    BY <1>1 DEF EntriesOutlast
  <2>1. cache[k].history[i] \in Nat
    BY ThrottleAssumption DEF ThrottleInv, Typed
  <2> QED BY <1>1, <2>1 DEF ThrottleInv, EntriesOutlast
<1>4. PassesAreRemembered'
  <2> SUFFICES ASSUME NEW k \in CacheKeys, NEW m \in 1 .. Len(passed[k])
               PROVE  Remembered(k, m)'
    BY <1>1 DEF PassesAreRemembered
  <2> DEFINE stamp == passed[k][Len(passed[k]) + 1 - m]
             h == cache[k].history
  <2>1. /\ stamp \in Nat /\ h \in Seq(0 .. MaxTime) /\ Len(h) \in Nat
        /\ cache[k].expires \in Nat /\ duration[k] \in Nat
    <3>1. stamp \in Nat
      BY PassedStamps
    <3> QED BY <3>1, ThrottleAssumption DEF ThrottleInv, Typed
  <2>2. \/ stamp + duration[k] <= now
        \/ cache[k].expires > now /\ m <= Len(h) /\ h[m] >= stamp
    BY DEF ThrottleInv, PassesAreRemembered, Remembered
  <2>3. \/ stamp + duration[k] <= now + 1
        \/ cache[k].expires > now + 1 /\ m <= Len(h) /\ h[m] >= stamp
    <3>1. CASE stamp + duration[k] <= now
      BY <1>1, <2>1, <3>1
    <3>2. CASE cache[k].expires > now /\ m <= Len(h) /\ h[m] >= stamp
      <4>1. m \in 1 .. Len(h) /\ h[m] \in Nat
        BY <2>1, <3>2, ThrottleAssumption
      <4>2. h[m] + duration[k] <= cache[k].expires
        BY <4>1 DEF ThrottleInv, EntriesOutlast
      <4> HIDE DEF stamp, h
      <4> QED BY <1>1, <2>1, <3>2, <4>1, <4>2
    <3> QED BY <2>2, <3>1, <3>2
  <2> QED BY <1>1, <2>3 DEF Remembered
<1>5. RateHolds'
  BY <1>1 DEF ThrottleInv, RateHolds
<1>6. SlotIsDue'
  <2> SUFFICES ASSUME NEW c \in Clients, retry[c] # 0, Len(throttles[c]) = 1,
                      NEW k, k = throttles[c][1],
                      cache[k].expires > now + 1,
                      Len(cache[k].history) = rate[k], rate[k] > 0
               PROVE  cache[k].history[rate[k]] + duration[k] <= retry[c]
    BY <1>1 DEF SlotIsDue
  <2>1. k \in CacheKeys /\ cache[k].expires \in Nat
    <3>1. throttles[c] \in Seq(CacheKeys) /\ 1 \in 1 .. Len(throttles[c])
      BY ThrottleAssumption
    <3>2. k \in CacheKeys
      BY <3>1
    <3> QED BY <3>2 DEF ThrottleInv, Typed
  <2>2. cache[k].expires > now
    BY <1>1, <2>1
  <2> QED BY <2>2 DEF ThrottleInv, SlotIsDue
<1> QED BY <1>2, <1>3, <1>4, <1>5, <1>6 DEF ThrottleInv

(* When the throttle of a full window asks for a retry.                     *)
LEMMA WaitFacts ==
  ASSUME ThrottleInv, NEW k \in CacheKeys, ~Allows(k)
  PROVE  /\ Wait(k) \in 1 .. duration[k]
         /\ rate[k] > 0 =>
              /\ Len(cache[k].history) = rate[k]
              /\ now + Wait(k) = cache[k].history[rate[k]] + duration[k]
<1> DEFINE w == Window(k)
           h == cache[k].history
<1>1. /\ w \in Seq(0 .. MaxTime) /\ Len(w) <= Len(h) /\ Len(w) \in Nat
      /\ \A i \in 1 .. Len(w) : w[i] = h[i] /\ w[i] > now - duration[k]
      /\ Len(h) \in Nat /\ Len(h) <= rate[k] /\ MaxTime \in Nat
  BY WindowFacts, ThrottleAssumption DEF ThrottleInv, Typed
<1>2. /\ rate[k] \in Nat /\ duration[k] \in Nat /\ duration[k] > 0 /\ now \in Nat
  BY ThrottleAssumption DEF ThrottleInv, Typed
<1>3. Len(w) >= rate[k]
  BY <1>1, <1>2 DEF Allows
<1>4. Len(w) = rate[k] /\ Len(h) = rate[k]
  BY <1>1, <1>2, <1>3
<1> DEFINE left == IF w = <<>> THEN duration[k]
                   ELSE duration[k] - (now - Last(w))
<1>5. \A n \in Int : (n + 1 - 1) \div 1 = n
  OBVIOUS
<1>6. left \in 1 .. duration[k]
      /\ (rate[k] > 0 => now + left = h[rate[k]] + duration[k])
  <2>1. CASE w = <<>>
    <3>1. rate[k] = 0
      BY <1>4, <2>1
    <3> QED BY <1>2, <2>1, <3>1
  <2>2. CASE w # <<>>
    <3>1. Len(w) \in 1 .. Len(w) /\ Len(w) # 0
      BY <1>1, <2>2
    <3>2. Last(w) = h[rate[k]] /\ Last(w) \in Nat /\ Last(w) > now - duration[k]
      BY <1>1, <1>4, <3>1 DEF Last
    <3>3. Last(w) <= now
      BY <1>4, <3>1, <3>2 DEF ThrottleInv, EntriesOutlast
    <3>4. left = duration[k] - (now - Last(w))
      BY <2>2
    <3> HIDE DEF w, h, left
    <3> QED BY <1>2, <3>2, <3>3, <3>4
  <2> QED BY <2>1, <2>2
<1>7. Wait(k) = left
  <2> DEFINE slots == rate[k] - Len(w) + 1
  <2>1. slots = 1
    BY <1>2, <1>4
  <2>2. Wait(k) = (left + slots - 1) \div slots
    BY DEF Wait
  <2>3. left \in Int
    BY <1>2, <1>6
  <2> HIDE DEF left, slots
  <2> QED BY <1>5, <2>1, <2>2, <2>3
<1> QED BY <1>4, <1>6, <1>7

(* A bounded set of numbers has a largest.                                  *)
LEMMA MaxExists ==
  ASSUME NEW S, S \subseteq Nat, S # {}, NEW n \in Nat, \A x \in S : x <= n
  PROVE  Max(S) \in S /\ \A x \in S : x <= Max(S)
<1> DEFINE R == OpToRel(<, Nat)
           T == {j \in Nat : n - j \in S}
<1>1. T \subseteq Nat /\ T # {}
  <2>1. PICK x \in S : TRUE
    OBVIOUS
  <2>2. n - x \in Nat /\ n - (n - x) = x
    BY <2>1
  <2> QED BY <2>1, <2>2
<1>2. PICK j \in T : \A y \in T : ~(<<y, j>> \in R)
  <2> HIDE DEF T, R
  <2> QED BY <1>1, NatLessThanWellFounded, WFMin DEF R
<1>3. n - j \in S /\ j \in Nat
  OBVIOUS
<1>4. ASSUME NEW x \in S PROVE n - j >= x
  <2>1. n - x \in T
    <3>1. n - x \in Nat /\ n - (n - x) = x
      OBVIOUS
    <3> QED BY <3>1
  <2>2. ~(n - x < j)
    BY <1>2, <1>3, <2>1 DEF OpToRel
  <2> QED BY <1>3, <2>1, <2>2
<1>5. \E x \in S : \A y \in S : x >= y
  BY <1>3, <1>4
<1> QED BY <1>5 DEF Max

(* No window is longer than the longest of them: of finitely many keys.     *)
LEMMA LongestExists == \E longest \in Nat : \A k \in CacheKeys : duration[k] <= longest
<1> DEFINE Bounded(Q) == \E b \in Nat : \A k \in Q : duration[k] <= b
           T == {n \in Nat : \E Q \in SUBSET CacheKeys :
                   IsFiniteSet(Q) /\ Cardinality(Q) = n /\ ~Bounded(Q)}
<1> SUFFICES ASSUME ~Bounded(CacheKeys) PROVE FALSE
  OBVIOUS
<1>1. Cardinality(CacheKeys) \in T
  BY FS_CardinalityType, ThrottleAssumption
<1>2. PICK n \in T : \A m \in T : ~(<<m, n>> \in OpToRel(<, Nat))
  <2>1. IsWellFoundedOn(OpToRel(<, Nat), Nat)
    BY NatLessThanWellFounded
  <2>2. T \subseteq Nat
    OBVIOUS
  <2> HIDE DEF T
  <2> QED BY <1>1, <2>1, <2>2, WFMin
<1>3. PICK Q \in SUBSET CacheKeys : IsFiniteSet(Q) /\ Cardinality(Q) = n /\ ~Bounded(Q)
  OBVIOUS
<1>4. PICK k \in Q : TRUE
  <2>1. Q # {}
    BY <1>3
  <2> QED BY <2>1
<1>5. n \in Nat /\ n # 0 /\ IsFiniteSet(Q \ {k}) /\ Cardinality(Q \ {k}) = n - 1
  <2>1. Cardinality(Q) \in Nat /\ Cardinality(Q) # 0
    BY <1>3, <1>4, FS_CardinalityType, FS_EmptySet
  <2> QED BY <1>3, <1>4, <2>1, FS_RemoveElement
<1>6. Bounded(Q \ {k})
  <2>1. n - 1 \in Nat /\ n - 1 < n
    BY <1>5
  <2>2. n - 1 \notin T
    BY <1>2, <1>5, <2>1 DEF OpToRel
  <2> HIDE DEF Bounded
  <2> QED BY <1>5, <2>1, <2>2
<1>7. PICK b \in Nat : \A i \in Q \ {k} : duration[i] <= b
  BY <1>6
<1> DEFINE c == IF duration[k] <= b THEN b ELSE duration[k]
<1>8. c \in Nat /\ \A i \in Q : duration[i] <= c
  <2>1. \A i \in Q : duration[i] \in Nat
    BY ThrottleAssumption
  <2> QED BY <1>4, <1>7, <2>1
<1> QED BY <1>3, <1>8

(* A refused client is told the time of the slowest throttle that refused.  *)
LEMMA RetryTyped ==
  ASSUME ThrottleInv, NEW c \in Clients, Request(c)
  PROVE  retry' \in [Clients -> Nat]
<1> DEFINE refusing == {k \in Asked(c) : ~Allows(k)}
           waits == {Wait(k) : k \in refusing}
<1>1. retry \in [Clients -> Nat] /\ now \in Nat /\ refusing \subseteq CacheKeys
  <2>1. throttles[c] \in Seq(CacheKeys)
    BY ThrottleAssumption
  <2>2. Asked(c) \subseteq CacheKeys
    BY <2>1 DEF Asked, ToSet
  <2> QED BY <2>2, ThrottleAssumption DEF ThrottleInv, Typed
<1>2. ASSUME refusing # {} PROVE now + Max(waits) \in Nat
  <2>1. PICK longest \in Nat : \A k \in CacheKeys : duration[k] <= longest
    BY LongestExists
  <2>2. \A k \in refusing : Wait(k) \in Nat /\ Wait(k) <= longest
    <3> SUFFICES ASSUME NEW k \in refusing
                 PROVE  Wait(k) \in Nat /\ Wait(k) <= longest
      OBVIOUS
    <3>1. k \in CacheKeys /\ ~Allows(k)
      BY <1>1
    <3>2. Wait(k) \in 1 .. duration[k] /\ duration[k] \in Nat
      BY <3>1, WaitFacts, ThrottleAssumption
    <3> QED BY <2>1, <3>1, <3>2
  <2>3. waits \subseteq Nat /\ waits # {} /\ \A x \in waits : x <= longest
    BY <1>2, <2>2
  <2>4. Max(waits) \in waits
    <3> HIDE DEF waits
    <3> QED BY <2>1, <2>3, MaxExists
  <2>5. \A x \in waits : now + x \in Nat
    BY <1>1, <2>3
  <2> HIDE DEF waits
  <2> QED BY <2>4, <2>5
<1>3. retry' = [d \in Clients |->
        CASE d = c /\ refusing # {} -> now + Max(waits)
          [] d # c /\ (Asked(d) \cap Asked(c)) \ refusing = {} -> retry[d]
          [] OTHER -> 0]
  BY DEF Request
<1>4. \A d \in Clients : retry'[d] \in Nat
  <2> SUFFICES ASSUME NEW d \in Clients PROVE retry'[d] \in Nat
    OBVIOUS
  <2>1. retry'[d] =
        CASE d = c /\ refusing # {} -> now + Max(waits)
          [] d # c /\ (Asked(d) \cap Asked(c)) \ refusing = {} -> retry[d]
          [] OTHER -> 0
    BY <1>3
  <2> HIDE DEF waits, refusing
  <2>2. CASE d = c /\ refusing # {}
    BY <1>2, <2>1, <2>2
  <2>3. CASE d # c
    BY <1>1, <2>1, <2>3
  <2>4. CASE d = c /\ ~(refusing # {})
    BY <2>1, <2>4
  <2> QED BY <2>2, <2>3, <2>4
<1> HIDE DEF waits, refusing
<1>5. retry' = [d \in Clients |-> retry'[d]]
  BY <1>3
<1> QED BY <1>4, <1>5

(* A request leaves sorted histories of bounded length.                     *)
LEMMA RequestTyped ==
  ASSUME ThrottleInv, NEW c \in Clients, Request(c)
  PROVE  Typed'
<1>1. Typed /\ EntriesOutlast /\ MaxTime \in Nat /\ now' = now
  BY ThrottleAssumption DEF ThrottleInv, Request
<1>2. \A k \in CacheKeys : Recording(k) \/ Leaving(k) \/ Dropping(k)
  BY <1>1, RequestOnKey
<1>3. /\ cache' = [k \in CacheKeys |-> cache'[k]]
      /\ passed' = [k \in CacheKeys |-> passed'[k]]
  BY DEF Request, Prune
<1>4. ASSUME NEW k \in CacheKeys
      PROVE  /\ cache'[k] \in [history : Seq(0 .. MaxTime), expires : Nat]
             /\ Len(cache'[k].history) <= rate[k]
             /\ Sorted(cache'[k].history)
             /\ passed'[k] \in Seq(0 .. MaxTime)
  <2>1. CASE Recording(k)
    <3> DEFINE h == cache'[k].history
               old == cache[k].history
    <3>1. /\ h \in Seq(0 .. MaxTime) /\ Len(h) = Len(Window(k)) + 1
          /\ Len(h) <= rate[k] /\ h[1] = now
          /\ cache'[k].expires = now + duration[k]
          /\ \A i \in 1 .. Len(Window(k)) : h[i + 1] = old[i]
      BY <1>1, <2>1, RecordedFacts
    <3>2. /\ Len(Window(k)) \in Nat /\ Len(Window(k)) <= Len(old)
          /\ Len(old) \in Nat
      BY <1>1, WindowFacts DEF Typed
    <3>3. cache'[k] \in [history : Seq(0 .. MaxTime), expires : Nat]
      BY <1>1, <2>1, <3>1, ThrottleAssumption DEF Recording, Typed
    <3>4. /\ \A i \in 1 .. Len(old) : old[i] <= now /\ old[i] \in Int
          /\ \A i, j \in 1 .. Len(old) : i <= j => old[i] >= old[j]
      BY <1>1 DEF EntriesOutlast, Typed, Sorted
    <3>5. Sorted(h)
      <4> SUFFICES ASSUME NEW i \in 1 .. Len(h), NEW j \in 1 .. Len(h), i <= j
                   PROVE  h[i] >= h[j]
        BY DEF Sorted
      <4>1. now \in Int
        BY <1>1 DEF Typed
      <4> HIDE DEF h, old
      <4>2. CASE j = 1
        <5>1. i = 1
          BY <4>2, <3>1, <3>2
        <5> QED BY <5>1, <4>2, <3>1, <4>1
      <4>3. CASE j # 1
        <5>1. j - 1 \in 1 .. Len(Window(k)) /\ j - 1 \in 1 .. Len(old)
              /\ (j - 1) + 1 = j
          BY <3>1, <3>2, <4>3
        <5>2. h[j] = old[j - 1]
          BY <3>1, <5>1
        <5>3. CASE i = 1
          BY <3>1, <3>4, <5>1, <5>2, <5>3, <4>1
        <5>4. CASE i # 1
          <6>1. i - 1 \in 1 .. Len(Window(k)) /\ i - 1 \in 1 .. Len(old)
                /\ (i - 1) + 1 = i /\ i - 1 <= j - 1
            BY <3>1, <3>2, <5>4
          <6>2. h[i] = old[i - 1]
            BY <3>1, <6>1
          <6> QED BY <3>4, <5>1, <5>2, <6>1, <6>2
        <5> QED BY <5>3, <5>4
      <4> QED BY <4>2, <4>3
    <3>6. passed'[k] \in Seq(0 .. MaxTime)
      <4>1. passed[k] \in Seq(0 .. MaxTime) /\ now \in 0 .. MaxTime
        BY <1>1 DEF Typed
      <4>2. Append(passed[k], now) \in Seq(0 .. MaxTime)
        BY <4>1
      <4>3. passed'[k] \in {passed[k], Append(passed[k], now)}
        BY <2>1 DEF Recording
      <4> QED BY <4>1, <4>2, <4>3
    <3> QED BY <3>1, <3>3, <3>5, <3>6
  <2>2. CASE Leaving(k)
    BY <1>1, <2>2 DEF Leaving, Typed
  <2>3. CASE Dropping(k)
    <3>1. /\ cache'[k].history = <<>> /\ cache'[k].expires = 0
          /\ cache'[k] = [history |-> <<>>, expires |-> 0]
      BY <2>3 DEF Dropping, None
    <3>2. <<>> \in Seq(0 .. MaxTime) /\ Len(<<>>) = 0 /\ rate[k] \in Nat
      BY ThrottleAssumption
    <3>3. Sorted(cache'[k].history)
      BY <3>1, <3>2 DEF Sorted
    <3>4. passed'[k] \in Seq(0 .. MaxTime)
      BY <1>1, <2>3 DEF Dropping, Typed
    <3> QED BY <3>1, <3>2, <3>3, <3>4
  <2> QED BY <1>2, <2>1, <2>2, <2>3
<1>5. cache' \in [CacheKeys -> [history : Seq(0 .. MaxTime), expires : Nat]]
  BY <1>3, <1>4
<1>6. passed' \in [CacheKeys -> Seq(0 .. MaxTime)]
  BY <1>3, <1>4
<1>7. retry' \in [Clients -> Nat]
  BY <1>1, RetryTyped
<1> QED BY <1>1, <1>4, <1>5, <1>6, <1>7 DEF Typed

LEMMA RequestKeepsEntries ==
  ASSUME ThrottleInv, NEW c \in Clients, Request(c)
  PROVE  EntriesOutlast'
<1> SUFFICES ASSUME NEW k \in CacheKeys, NEW i \in 1 .. Len(cache'[k].history)
             PROVE  /\ cache'[k].history[i] <= now
                    /\ cache'[k].history[i] + duration[k] <= cache'[k].expires
  BY DEF EntriesOutlast, Request
<1>1. Typed /\ EntriesOutlast /\ now \in Nat /\ duration[k] \in Nat
  BY ThrottleAssumption DEF ThrottleInv, Typed
<1>2. CASE Recording(k)
  <2>1. /\ cache'[k].expires = now + duration[k] /\ cache'[k].history[1] = now
        /\ Len(cache'[k].history) = Len(Window(k)) + 1
        /\ \A j \in 1 .. Len(Window(k)) :
             cache'[k].history[j + 1] = cache[k].history[j]
    BY <1>1, <1>2, RecordedFacts
  <2>2. /\ Len(Window(k)) \in Nat /\ Len(Window(k)) <= Len(cache[k].history)
        /\ Len(cache[k].history) \in Nat
    BY <1>1, WindowFacts DEF Typed
  <2>3. CASE i = 1
    BY <1>1, <2>1, <2>3
  <2>4. CASE i # 1
    <3>1. i - 1 \in 1 .. Len(Window(k)) /\ i - 1 \in 1 .. Len(cache[k].history)
          /\ (i - 1) + 1 = i
      BY <2>1, <2>2, <2>4
    <3>2. cache'[k].history[i] = cache[k].history[i - 1]
      BY <2>1, <3>1
    <3>3. cache[k].history[i - 1] <= now /\ cache[k].history[i - 1] \in Nat
      BY <1>1, <3>1, ThrottleAssumption, SMTT(30) DEF EntriesOutlast, Typed
    <3> QED BY <1>1, <2>1, <3>2, <3>3
  <2> QED BY <2>3, <2>4
<1>3. CASE Leaving(k)
  BY <1>1, <1>3 DEF Leaving, EntriesOutlast
<1>4. CASE Dropping(k)
  BY <1>4 DEF Dropping, None
<1> QED BY <1>1, <1>2, <1>3, <1>4, RequestOnKey

(* What passed before a request is remembered after it.                     *)
LEMMA StaysRemembered ==
  ASSUME ThrottleInv, NEW k \in CacheKeys, Recording(k),
         NEW m \in 1 .. Len(passed[k])
  PROVE  LET stamp == passed[k][Len(passed[k]) + 1 - m] IN
         \/ stamp + duration[k] <= now
         \/ /\ m <= Len(Window(k))
            /\ cache'[k].history[m] >= stamp
            /\ cache'[k].history[m + 1] >= stamp
<1> DEFINE stamp == passed[k][Len(passed[k]) + 1 - m]
           h == cache[k].history
           w == Window(k)
<1>1. Typed /\ EntriesOutlast /\ now \in Nat /\ duration[k] \in Nat
  BY ThrottleAssumption DEF ThrottleInv, Typed
<1>2. stamp \in Nat
  BY PassedStamps
<1>3. \/ stamp + duration[k] <= now
      \/ cache[k].expires > now /\ m <= Len(h) /\ h[m] >= stamp
  BY DEF ThrottleInv, PassesAreRemembered, Remembered
<1>4. /\ cache'[k].history[1] = now
      /\ \A j \in 1 .. Len(w) : cache'[k].history[j + 1] = h[j]
  BY <1>1, RecordedFacts
<1>5. /\ Len(w) \in Nat /\ Len(w) <= Len(h) /\ Len(h) \in Nat
      /\ \A j \in 1 .. Len(h) :
           cache[k].expires > now /\ h[j] > now - duration[k] => j <= Len(w)
  <2>1. w \in Seq(0 .. MaxTime) /\ h \in Seq(0 .. MaxTime)
    BY <1>1, WindowFacts DEF Typed
  <2>2. /\ Len(w) <= Len(h)
        /\ \A j \in 1 .. Len(h) :
             cache[k].expires > now /\ h[j] > now - duration[k] => j <= Len(w)
    BY <1>1, WindowFacts
  <2> HIDE DEF w, h
  <2> QED BY <2>1, <2>2
<1>6. \A j \in 1 .. Len(h) : h[j] \in Nat /\ h[j] <= now
  BY <1>1, ThrottleAssumption, SMTT(30) DEF Typed, EntriesOutlast
<1>7. \A i, j \in 1 .. Len(h) : i <= j => h[i] >= h[j]
  BY <1>1 DEF Typed, Sorted
<1> HIDE DEF stamp, h, w
<1>8. CASE cache[k].expires > now /\ m <= Len(h) /\ h[m] >= stamp
  <2>1. m \in 1 .. Len(h) /\ m \in Nat /\ h[m] \in Nat
    BY <1>5, <1>6, <1>8
  <2>2. CASE h[m] > now - duration[k]
    <3>1. m \in 1 .. Len(w)
      BY <1>5, <1>8, <2>1, <2>2
    <3>2. cache'[k].history[m + 1] = h[m]
      BY <1>4, <3>1
    <3>3. cache'[k].history[m] >= stamp
      <4>1. CASE m = 1
        <5>1. h[m] <= now
          BY <1>6, <2>1
        <5> QED BY <1>1, <1>2, <1>4, <1>8, <2>1, <4>1, <5>1
      <4>2. CASE m # 1
        <5>1. m - 1 \in 1 .. Len(w) /\ m - 1 \in 1 .. Len(h) /\ (m - 1) + 1 = m
              /\ m - 1 <= m
          BY <1>5, <2>1, <3>1, <4>2
        <5>2. cache'[k].history[m] = h[m - 1]
          BY <1>4, <5>1
        <5>3. h[m - 1] >= h[m] /\ h[m - 1] \in Nat
          BY <1>6, <1>7, <2>1, <5>1
        <5> QED BY <1>2, <1>8, <2>1, <5>2, <5>3
      <4> QED BY <4>1, <4>2
    <3> QED BY <1>5, <1>8, <3>1, <3>2, <3>3 DEF stamp, w
  <2>3. CASE ~(h[m] > now - duration[k])
    <3>1. stamp + duration[k] <= now
      BY <1>1, <1>2, <1>8, <2>1, <2>3
    <3> QED BY <3>1 DEF stamp
  <2> QED BY <2>2, <2>3
<1>9. CASE stamp + duration[k] <= now
  BY <1>9 DEF stamp
<1> QED BY <1>3, <1>8, <1>9

(* A request records whatever it lets pass.                                 *)
LEMMA RequestRemembers ==
  ASSUME ThrottleInv, NEW c \in Clients, Request(c)
  PROVE  PassesAreRemembered'
<1>1. Typed /\ now \in Nat /\ now' = now
  BY ThrottleAssumption DEF ThrottleInv, Typed, Request
<1> SUFFICES ASSUME NEW k \in CacheKeys, NEW m \in 1 .. Len(passed'[k])
             PROVE  LET stamp == passed'[k][Len(passed'[k]) + 1 - m] IN
                    \/ stamp + duration[k] <= now
                    \/ /\ cache'[k].expires > now
                       /\ m <= Len(cache'[k].history)
                       /\ cache'[k].history[m] >= stamp
  BY <1>1 DEF PassesAreRemembered, Remembered
<1>2. duration[k] \in Nat /\ duration[k] > 0
  BY ThrottleAssumption
<1> DEFINE n == Len(passed[k])
<1>3. n \in Nat /\ passed[k] \in Seq(Nat)
  BY PassedStamps, ThrottleAssumption DEF ThrottleInv, Typed
<1>4. CASE Recording(k)
  <2>1. /\ cache'[k].expires = now + duration[k] /\ cache'[k].history[1] = now
        /\ Len(cache'[k].history) = Len(Window(k)) + 1
    BY <1>1, <1>4, RecordedFacts
  <2>2. Len(Window(k)) \in Nat
    BY <1>1, WindowFacts
  <2>3. cache'[k].expires > now
    BY <1>1, <1>2, <2>1
  <2>4. CASE passed'[k] = passed[k]
    <3>1. \/ passed[k][n + 1 - m] + duration[k] <= now
          \/ m <= Len(Window(k)) /\ cache'[k].history[m] >= passed[k][n + 1 - m]
      BY <1>4, <2>4, StaysRemembered
    <3>2. m \in Nat
      BY <1>3, <2>4
    <3> QED BY <2>1, <2>2, <2>3, <2>4, <3>1, <3>2
  <2>5. CASE passed'[k] = Append(passed[k], now)
    <3>1. /\ Len(passed'[k]) = n + 1 /\ passed'[k][n + 1] = now
          /\ \A j \in 1 .. n : passed'[k][j] = passed[k][j]
      BY <1>1, <1>3, <2>5
    <3>2. CASE m = 1
      <4>1. passed'[k][Len(passed'[k]) + 1 - m] = now
        BY <1>3, <3>1, <3>2
      <4> QED BY <1>1, <2>1, <2>2, <2>3, <3>2, <4>1
    <3>3. CASE m # 1
      <4>1. m - 1 \in 1 .. n /\ m - 1 \in Nat /\ (m - 1) + 1 = m
            /\ (n + 1) + 1 - m = n + 1 - (m - 1) /\ n + 1 - (m - 1) \in 1 .. n
        BY <1>3, <3>1, <3>3
      <4>2. passed'[k][Len(passed'[k]) + 1 - m] = passed[k][n + 1 - (m - 1)]
        BY <3>1, <4>1
      <4>3. \/ passed[k][n + 1 - (m - 1)] + duration[k] <= now
            \/ /\ m - 1 <= Len(Window(k))
               /\ cache'[k].history[m] >= passed[k][n + 1 - (m - 1)]
        <5> PICK p \in 1 .. n : p = m - 1 /\ p + 1 = m
          BY <4>1
        <5> QED BY <1>4, StaysRemembered
      <4>4. m - 1 <= Len(Window(k)) => m <= Len(cache'[k].history)
        BY <2>1, <2>2, <4>1
      <4> QED BY <2>3, <4>2, <4>3, <4>4
    <3> QED BY <3>2, <3>3
  <2> QED BY <1>4, <2>4, <2>5 DEF Recording
<1>5. CASE Leaving(k)
  BY <1>5 DEF Leaving, ThrottleInv, PassesAreRemembered, Remembered
<1>6. CASE Dropping(k)
  <2>1. passed'[k] = passed[k] /\ cache[k].expires <= now /\ cache[k].expires \in Nat
    BY <1>1, <1>6 DEF Dropping, Typed
  <2>2. ~(cache[k].expires > now)
    BY <1>1, <2>1
  <2>3. passed[k][n + 1 - m] + duration[k] <= now
    BY <2>1, <2>2 DEF ThrottleInv, PassesAreRemembered, Remembered
  <2> QED BY <2>1, <2>3
<1> QED BY <1>1, <1>4, <1>5, <1>6, RequestOnKey

(* A request that passes finds the window short of its rate.                *)
LEMMA RequestKeepsRate ==
  ASSUME ThrottleInv, NEW c \in Clients, Request(c)
  PROVE  RateHolds'
<1>1. Typed /\ now \in Nat /\ RateHolds
  BY ThrottleAssumption DEF ThrottleInv, Typed
<1> SUFFICES ASSUME NEW k \in CacheKeys, NEW i \in 1 .. Len(passed'[k]),
                    i + rate[k] <= Len(passed'[k])
             PROVE  passed'[k][i + rate[k]] >= passed'[k][i] + duration[k]
  BY DEF RateHolds
<1>2. duration[k] \in Nat /\ rate[k] \in Nat
  BY ThrottleAssumption
<1> DEFINE n == Len(passed[k])
<1>3. n \in Nat /\ passed[k] \in Seq(Nat)
  BY PassedStamps, ThrottleAssumption DEF ThrottleInv, Typed
<1>4. CASE passed'[k] = passed[k]
  BY <1>1, <1>4 DEF RateHolds
<1>5. CASE Recording(k) /\ passed'[k] = Append(passed[k], now)
  <2>1. /\ Len(passed'[k]) = n + 1 /\ passed'[k][n + 1] = now
        /\ \A j \in 1 .. n : passed'[k][j] = passed[k][j]
    BY <1>1, <1>3, <1>5
  <2>2. rate[k] > 0 /\ Len(Window(k)) < rate[k]
    <3>1. Len(Window(k)) \in Nat
      BY <1>1, WindowFacts
    <3> QED BY <1>2, <1>5, <3>1 DEF Recording, Allows
  <2> HIDE DEF n
  <2>0. i \in 1 .. n + 1 /\ i \in Nat /\ i + rate[k] <= n + 1
    BY <1>3, <2>1
  <2>3. CASE i + rate[k] <= n
    <3>1. i \in 1 .. n /\ i + rate[k] \in 1 .. n
      BY <1>2, <1>3, <2>0, <2>3
    <3>2. passed[k][i + rate[k]] >= passed[k][i] + duration[k]
      BY <1>1, <2>3, <3>1 DEF RateHolds, n
    <3> QED BY <2>1, <3>1, <3>2
  <2>4. CASE i + rate[k] = n + 1
    <3>1. rate[k] \in 1 .. n /\ n + 1 - rate[k] = i /\ i \in 1 .. n
      <4> PICK r \in Nat : r = rate[k]
        BY <1>2
      <4>1. i + r = n + 1 /\ r > 0
        BY <2>2, <2>4
      <4>2. ASSUME NEW q \in Nat, NEW j \in Nat, j >= 1, j + r = q + 1
            PROVE  r \in 1 .. q /\ q + 1 - r = j /\ j \in 1 .. q
        BY <4>1, <4>2
      <4>3. n \in Nat /\ i \in Nat /\ i >= 1
        BY <1>3, <2>0
      <4> QED BY <4>1, <4>2, <4>3
    <3>2. \/ passed[k][i] + duration[k] <= now
          \/ rate[k] <= Len(Window(k))
      <4>1. rate[k] \in 1 .. Len(passed[k]) /\ Len(passed[k]) + 1 - rate[k] = i
        BY <3>1 DEF n
      <4> QED BY <1>5, <4>1, StaysRemembered
    <3>3. Len(Window(k)) \in Nat
      BY <1>1, WindowFacts
    <3>4. passed[k][i] + duration[k] <= now
      BY <1>2, <2>2, <3>2, <3>3
    <3> QED BY <2>1, <2>4, <3>1, <3>4
  <2> QED BY <1>2, <1>3, <2>0, <2>3, <2>4
<1> QED BY <1>1, <1>4, <1>5, RequestOnKey DEF Recording, Leaving, Dropping

(* A refusal names the time at which its oldest stamp leaves the window;    *)
(* only a recorded request under the same key moves it.                     *)
LEMMA RequestKeepsSlot ==
  ASSUME ThrottleInv, NEW c \in Clients, Request(c)
  PROVE  SlotIsDue'
<1>1. Typed /\ now \in Nat /\ now' = now
  BY ThrottleAssumption DEF ThrottleInv, Typed, Request
<1> SUFFICES ASSUME NEW d \in Clients, retry'[d] # 0, Len(throttles[d]) = 1,
                    NEW k, k = throttles[d][1],
                    cache'[k].expires > now,
                    Len(cache'[k].history) = rate[k], rate[k] > 0
             PROVE  cache'[k].history[rate[k]] + duration[k] <= retry'[d]
  BY <1>1 DEF SlotIsDue
<1>2. k \in CacheKeys /\ Asked(d) = {k}
  <2>1. throttles[d] \in Seq(CacheKeys) /\ 1 \in 1 .. Len(throttles[d])
    BY ThrottleAssumption
  <2>2. DOMAIN throttles[d] = {1}
    BY <2>1
  <2> QED BY <2>1, <2>2 DEF Asked, ToSet
<1> DEFINE refusing == {x \in Asked(c) : ~Allows(x)}
           waits == {Wait(x) : x \in refusing}
<1>3. retry'[d] =
        CASE d = c /\ refusing # {} -> now + Max(waits)
          [] d # c /\ (Asked(d) \cap Asked(c)) \ refusing = {} -> retry[d]
          [] OTHER -> 0
  BY DEF Request
<1>4. k \notin Asked(c) \/ ~Allows(k)
  BY <1>2, <1>3
<1>5. Leaving(k) \/ Dropping(k)
  BY <1>1, <1>2, <1>4, RequestOnKey
<1>6. ~Dropping(k)
  <2>1. ASSUME Dropping(k) PROVE FALSE
    <3>1. cache'[k].expires = 0
      BY <2>1 DEF Dropping, None
    <3> QED BY <1>1, <3>1
  <2> QED BY <2>1
<1>7. cache'[k] = cache[k]
  BY <1>5, <1>6 DEF Leaving
<1>8. CASE d = c
  <2>1. refusing = {k} /\ retry'[d] = now + Max(waits)
    BY <1>2, <1>3, <1>8
  <2>2. waits = {Wait(k)}
    BY <2>1
  <2>3. Max(waits) = Wait(k)
    <3>1. Wait(k) \in 1 .. duration[k] /\ duration[k] \in Nat
      BY <1>2, <2>1, WaitFacts, ThrottleAssumption
    <3>2. waits \subseteq Nat /\ waits # {} /\ Wait(k) \in Nat
          /\ \A x \in waits : x <= Wait(k)
      <4>1. Wait(k) \in Nat /\ Wait(k) <= Wait(k)
        BY <3>1
      <4> HIDE DEF waits
      <4> QED BY <2>2, <4>1
    <3>3. Max(waits) \in waits
      <4> HIDE DEF waits
      <4> QED BY <3>2, MaxExists
    <3> QED BY <2>2, <3>3
  <2>4. now + Wait(k) = cache[k].history[rate[k]] + duration[k]
    BY <1>2, <2>1, WaitFacts
  <2>5. retry'[d] = cache[k].history[rate[k]] + duration[k]
    BY <2>1, <2>3, <2>4
  <2>6. cache[k].history[rate[k]] \in Nat /\ duration[k] \in Nat
    <3>1. Len(cache[k].history) = rate[k] /\ rate[k] \in 1 .. Len(cache[k].history)
      BY <1>2, <1>7, ThrottleAssumption
    <3> QED BY <1>1, <1>2, <3>1, ThrottleAssumption DEF Typed
  <2> HIDE DEF waits, refusing
  <2> QED BY <1>7, <2>5, <2>6
<1>9. CASE d # c
  <2>1. retry'[d] = retry[d]
    BY <1>2, <1>3, <1>9
  <2> QED BY <1>7, <2>1 DEF ThrottleInv, SlotIsDue
<1> QED BY <1>8, <1>9

-----------------------------------------------------------------------------
(* The invariant holds in every behaviour, whoever asks and however often.  *)
THEOREM ThrottleInvariant ==
  ThrottleSpec => []ThrottleInv
<1>1. ThrottleInit => ThrottleInv
  BY InitHolds
<1>2. ThrottleInv /\ [ThrottleNext]_throttleVars => ThrottleInv'
  <2> SUFFICES ASSUME ThrottleInv, [ThrottleNext]_throttleVars
               PROVE  ThrottleInv'
    OBVIOUS
  <2>1. ASSUME NEW c \in Clients, Request(c) PROVE ThrottleInv'
    BY <2>1, RequestTyped, RequestKeepsEntries, RequestRemembers,
       RequestKeepsRate, RequestKeepsSlot DEF ThrottleInv
  <2>2. CASE ThrottleTick
    BY <2>2, TickKeeps
  <2>3. CASE UNCHANGED throttleVars
    BY <2>3 DEF throttleVars, ThrottleInv, Typed, EntriesOutlast, PassesAreRemembered,
                Remembered, RateHolds, SlotIsDue, Sorted
  <2> QED BY <2>1, <2>2, <2>3 DEF ThrottleNext
<1> QED BY <1>1, <1>2, PTL DEF ThrottleSpec

(* The windows stay sorted and no longer than their rate (cache.py): what   *)
(* check_and_record reads is a beginning of what it wrote.                  *)
THEOREM ThrottleTypeCorrect ==
  ThrottleSpec => []ThrottleTypeOK
<1>1. ThrottleInv => ThrottleTypeOK
  <2> SUFFICES ASSUME ThrottleInv PROVE ThrottleTypeOK
    OBVIOUS
  <2>1. ASSUME NEW k \in CacheKeys, NEW i \in 1 .. Len(cache[k].history) - 1
        PROVE  cache[k].history[i] >= cache[k].history[i + 1]
    <3>1. Len(cache[k].history) \in Nat
      BY DEF ThrottleInv, Typed
    <3>2. /\ i \in 1 .. Len(cache[k].history) /\ i <= i + 1
          /\ i + 1 \in 1 .. Len(cache[k].history)
      BY <3>1
    <3> QED BY <3>2 DEF ThrottleInv, Typed, Sorted
  <2> QED BY <2>1 DEF ThrottleInv, Typed, ThrottleTypeOK
<1>2. ThrottleSpec => []ThrottleInv
  BY ThrottleInvariant
<1> QED BY <1>1, <1>2, PTL

(* No throttle lets more requests through in a window than its rate, for    *)
(* all routes and views that share it, whatever expiry and pruning drop.    *)
THEOREM RatesHold ==
  ThrottleSpec => []RateHolds
<1>1. ThrottleInv => RateHolds
  BY DEF ThrottleInv
<1> QED BY <1>1, ThrottleInvariant, PTL

(* Retry-After is enough: wait() of a throttle that lets anything through   *)
(* names a time at which a slot is free, if nobody else takes it.           *)
THEOREM RetriesPass ==
  ASSUME \A k \in CacheKeys : rate[k] > 0
  PROVE  ThrottleSpec => []RetryAfterIsEnough
<1>1. ThrottleInv => RetryAfterIsEnough
  <2> SUFFICES ASSUME ThrottleInv, NEW c \in Clients, retry[c] # 0,
                      now >= retry[c], Len(throttles[c]) = 1,
                      NEW k, k = throttles[c][1]
               PROVE  Allows(k)
    BY DEF RetryAfterIsEnough
  <2>1. Typed /\ now \in Nat /\ retry[c] \in Nat
    BY ThrottleAssumption DEF ThrottleInv, Typed
  <2>2. k \in CacheKeys
    <3>1. throttles[c] \in Seq(CacheKeys) /\ 1 \in 1 .. Len(throttles[c])
      BY ThrottleAssumption
    <3> QED BY <3>1
  <2> DEFINE h == cache[k].history
             w == Window(k)
  <2>3. /\ Len(w) \in Nat /\ Len(h) \in Nat /\ Len(w) <= Len(h)
        /\ Len(h) <= rate[k] /\ rate[k] \in Nat /\ rate[k] > 0
        /\ duration[k] \in Nat
        /\ \A i \in 1 .. Len(w) : /\ w[i] = h[i] /\ w[i] > now - duration[k]
                                  /\ cache[k].expires > now
        /\ \A i \in 1 .. Len(h) : h[i] \in Nat
    <3>1. /\ Len(h) \in Nat /\ Len(h) <= rate[k] /\ rate[k] \in Nat
          /\ rate[k] > 0 /\ duration[k] \in Nat
          /\ \A i \in 1 .. Len(h) : h[i] \in Nat
      BY <2>1, <2>2, ThrottleAssumption DEF Typed
    <3>2. /\ w \in Seq(0 .. MaxTime) /\ Len(w) <= Len(h)
          /\ \A i \in 1 .. Len(w) : /\ w[i] = h[i] /\ w[i] > now - duration[k]
                                    /\ cache[k].expires > now
      BY <2>1, <2>2, WindowFacts
    <3> HIDE DEF w, h
    <3> QED BY <3>1, <3>2
  <2>4. SUFFICES ASSUME ~(Len(w) < rate[k]) PROVE FALSE
    BY DEF Allows
  <2>5. /\ Len(w) = rate[k] /\ Len(h) = rate[k] /\ rate[k] \in 1 .. Len(w)
    BY <2>3, <2>4
  <2>6. cache[k].expires > now /\ h[rate[k]] > now - duration[k]
        /\ h[rate[k]] \in Nat
    BY <2>3, <2>5
  <2>7. h[rate[k]] + duration[k] <= retry[c]
    BY <2>2, <2>3, <2>5, <2>6 DEF ThrottleInv, SlotIsDue
  <2> HIDE DEF h, w
  <2> QED BY <2>1, <2>3, <2>6, <2>7
<1>2. ThrottleSpec => []ThrottleInv
  BY ThrottleInvariant
<1> QED BY <1>1, <1>2, PTL
=============================================================================
