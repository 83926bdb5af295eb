--------------------------- MODULE NvdBucket_proof ---------------------------
(* Theorems about NvdBucket, for every rate, window, cushion and number of  *)
(* callers.                                                                 *)
EXTENDS NvdBucket, TLAPS

-----------------------------------------------------------------------------
(* Arithmetic.                                                             *)

LEMMA Mono == ASSUME NEW a \in Nat, NEW b \in Nat, NEW n \in Nat, a <= b
              PROVE  a * n <= b * n
<1>1. PICK d \in Nat : b = a + d
  <2>1. b - a \in Nat /\ b = a + (b - a)
    OBVIOUS
  <2> QED
    BY <2>1
<1>2. b * n = a * n + d * n /\ d * n \in Nat
  BY <1>1
<1> QED
  BY <1>2

LEMMA Product == ASSUME NEW a \in Nat, NEW n \in Nat PROVE a * n \in Nat
  OBVIOUS

LEMMA Minus == ASSUME NEW a \in Nat, NEW b \in Nat, NEW n \in Nat
               PROVE  (a - b) * n = a * n - b * n /\ (a + b) * n = a * n + b * n
  OBVIOUS

LEMMA Constants ==
  /\ PerWindow \in Nat /\ PerWindow > 0 /\ Token \in Nat /\ Token > 0
  /\ Capacity \in Nat /\ Token <= Capacity /\ Capacity = Token * PerWindow
  /\ Cushion * Token \in Nat /\ Cushion * Token + Token <= Capacity
  /\ MaxAge \in Nat /\ MaxAge * PerWindow \in Nat
  /\ Full \in Nat /\ Full = Capacity + MaxAge * PerWindow
  /\ TTL \in Nat /\ TTL >= Window + MaxAge /\ TTL * PerWindow >= Full
<1>1. /\ PerWindow \in Nat /\ PerWindow > 0 /\ Window \in Nat /\ Window > 0
      /\ Cushion \in Nat /\ Cushion + 1 <= PerWindow /\ MaxAge \in Nat
      /\ TTL \in Nat /\ TTL >= Window + MaxAge
  BY RateAssumption, CushionAssumption, DelayAssumption, ExpiryAssumption
<1>2. (Cushion + 1) * Window <= PerWindow * Window /\ 1 * Window <= PerWindow * Window
  BY <1>1, Mono
<1>3. (Cushion + 1) * Window = Cushion * Window + Window /\ Cushion * Window \in Nat
  BY <1>1, Product, Minus
<1>4. PerWindow * Window = Window * PerWindow /\ PerWindow * Window \in Nat
  BY <1>1, Product
<1>5. MaxAge * PerWindow \in Nat
  BY <1>1, Product
<1>6. (Window + MaxAge) * PerWindow <= TTL * PerWindow
  BY <1>1, Mono
<1>7. (Window + MaxAge) * PerWindow = Window * PerWindow + MaxAge * PerWindow
  BY <1>1, Minus
<1> QED
  BY <1>1, <1>2, <1>3, <1>4, <1>5, <1>6, <1>7 DEF Token, Capacity, Full

-----------------------------------------------------------------------------
(* The bucket.                                                             *)

Buckets == [live : BOOLEAN, tokens : 0..Capacity, lag : Nat, idle : Nat]

\* The tokens that a caller finds whose clock is right.
Level(b) == Refilled(b, 0).tokens

LEMMA Fields ==
  ASSUME NEW b \in Buckets, NEW t \in 0..Capacity, NEW l \in Nat
  PROVE  /\ [b EXCEPT !.live = TRUE, !.lag = l] \in Buckets
         /\ [b EXCEPT !.tokens = t, !.lag = l] \in Buckets
  BY DEF Buckets

LEMMA LevelIs ==
  ASSUME NEW b \in Buckets
  PROVE  Level(b) = IF b.live THEN Lesser(Capacity, b.tokens + b.lag * PerWindow)
                    ELSE b.tokens
<1>1. CASE ~b.live
  BY <1>1 DEF Level, Refilled, Buckets
<1>2. CASE b.live /\ b.lag = 0
  BY <1>2, Constants DEF Level, Refilled, Buckets, Lesser
<1>3. CASE b.live /\ b.lag > 0
  <2>1. Level(b) = Lesser(Capacity, b.tokens + (b.lag - 0) * PerWindow)
    BY <1>3, Constants DEF Level, Refilled, Buckets
  <2> QED
    BY <1>3, <2>1, Constants DEF Buckets
<1> QED
  BY <1>1, <1>2, <1>3 DEF Buckets

\* Whatever the reading, a refill makes nothing of the bucket but the order in
\* which it is filled: no more can be drawn from it later, and no less.
LEMMA RefillFacts ==
  ASSUME NEW b \in Buckets, ~b.live => b = NoBucket, NEW a \in 0..MaxAge
  PROVE  /\ Refilled(b, a) \in Buckets /\ Refilled(b, a).live
         /\ Refilled(b, a).lag <= MaxAge
         /\ Potential(Refilled(b, a)) <= Potential(b)
         /\ Level(b) <= Level(Refilled(b, a))
<1> USE Constants
<1>0. b.live \in BOOLEAN /\ b.tokens \in 0..Capacity /\ b.lag \in Nat /\ b.idle \in Nat /\ a \in Nat
  BY DEF Buckets
<1>a. b.lag * PerWindow \in Nat /\ a * PerWindow \in Nat /\ a * PerWindow <= MaxAge * PerWindow
  BY <1>0, Product, Mono
<1>1. CASE ~b.live
  <2> DEFINE f == [b EXCEPT !.live = TRUE, !.lag = a]
  <2>1. Refilled(b, a) = f
    BY <1>1 DEF Refilled
  <2>2. f \in Buckets /\ f.live /\ f.lag = a /\ f.tokens = Capacity
    <3>1. f \in Buckets
      BY <1>0, Fields
    <3>2. f.live /\ f.lag = a /\ f.tokens = b.tokens
      BY DEF Buckets
    <3> QED
      BY <1>1, <3>1, <3>2 DEF NoBucket
  <2> HIDE DEF f
  <2>3. Level(b) = Capacity /\ Level(f) = Capacity
    BY <1>0, <1>1, <1>a, <2>2, LevelIs DEF Lesser, NoBucket
  <2>4. Potential(b) = Full /\ Potential(f) <= Full
    BY <1>1, <1>a, <2>2 DEF Potential, Lesser
  <2> QED
    BY <2>1, <2>2, <2>3, <2>4
<1>2. CASE b.live /\ a < b.lag
  <2> DEFINE f == [b EXCEPT !.tokens = Lesser(Capacity, @ + (b.lag - a) * PerWindow), !.lag = a]
  <2>1. Refilled(b, a) = f
    BY <1>2 DEF Refilled
  <2>2. (b.lag - a) * PerWindow = b.lag * PerWindow - a * PerWindow /\ a * PerWindow <= b.lag * PerWindow
    BY <1>0, <1>2, Minus, Mono
  <2>3. /\ f \in Buckets /\ f.live /\ f.lag = a
        /\ f.tokens = Lesser(Capacity, b.tokens + (b.lag * PerWindow - a * PerWindow))
    <3>1. Lesser(Capacity, b.tokens + (b.lag - a) * PerWindow) \in 0..Capacity
      BY <1>0, <1>a, <2>2 DEF Lesser
    <3>2. f \in Buckets
      BY <1>0, <3>1, Fields
    <3>3. /\ f.live = b.live /\ f.lag = a
          /\ f.tokens = Lesser(Capacity, b.tokens + (b.lag - a) * PerWindow)
      BY DEF Buckets
    <3> QED
      BY <1>2, <2>2, <3>2, <3>3
  <2> HIDE DEF f
  <2>4. Level(b) <= Level(f)
    BY <1>0, <1>2, <1>a, <2>2, <2>3, LevelIs DEF Lesser
  <2>5. Potential(f) <= Potential(b)
    BY <1>0, <1>2, <1>a, <2>2, <2>3 DEF Potential, Lesser
  <2> QED
    BY <2>1, <2>3, <2>4, <2>5
<1>3. CASE b.live /\ a >= b.lag
  <2>1. Refilled(b, a) = b
    BY <1>0, <1>3 DEF Refilled
  <2>2. Level(b) \in Nat /\ Potential(b) \in Nat
    BY <1>0, <1>a, LevelIs DEF Potential, Lesser
  <2> QED
    BY <1>0, <1>3, <2>1, <2>2
<1> QED
  BY <1>0, <1>1, <1>2, <1>3

\* A token that is taken is gone, now and later.
LEMMA TakeFacts ==
  ASSUME NEW f \in Buckets, f.live, f.lag <= MaxAge, f.tokens >= Token
  PROVE  /\ Taken(f) \in Buckets /\ Taken(f).live /\ Taken(f).idle = 0
         /\ Potential(Taken(f)) + Token <= Potential(f)
         /\ Level(f) <= Level(Taken(f)) + Token
         /\ f.tokens - Token <= Level(Taken(f))
<1> USE Constants
<1>0. f.tokens \in 0..Capacity /\ f.lag \in Nat
  BY DEF Buckets
<1>1. f.lag * PerWindow \in Nat /\ f.lag * PerWindow <= MaxAge * PerWindow
  BY <1>0, Product, Mono
<1> DEFINE g == Taken(f)
<1>2. g \in Buckets /\ g.live /\ g.idle = 0 /\ g.tokens = f.tokens - Token /\ g.lag = f.lag
  <2>1. f.tokens - Token \in 0..Capacity /\ 0 \in Nat
    BY <1>0
  <2>2. g = [f EXCEPT !.tokens = f.tokens - Token, !.idle = 0]
    BY DEF Taken
  <2>3. g \in Buckets
    BY <2>1, <2>2 DEF Buckets
  <2> QED
    BY <2>2, <2>3 DEF Buckets
<1> HIDE DEF g
<1>3. Potential(g) + Token <= Potential(f)
  BY <1>0, <1>1, <1>2 DEF Potential, Lesser
<1>4. Level(f) <= Level(g) + Token /\ f.tokens - Token <= Level(g)
  BY <1>0, <1>1, <1>2, LevelIs DEF Lesser
<1> QED
  BY <1>2, <1>3, <1>4 DEF g

LEMMA TouchFacts ==
  ASSUME NEW f \in Buckets, f.live
  PROVE  LET g == [f EXCEPT !.idle = 0]
         IN /\ g \in Buckets /\ g.live /\ g.idle = 0
            /\ Potential(g) = Potential(f) /\ Level(g) = Level(f)
<1> DEFINE g == [f EXCEPT !.idle = 0]
<1>1. g \in Buckets /\ g.live /\ g.idle = 0 /\ g.tokens = f.tokens /\ g.lag = f.lag
  BY DEF Buckets
<1> HIDE DEF g
<1>2. Potential(g) = Potential(f) /\ Level(g) = Level(f)
  BY <1>1, LevelIs DEF Potential
<1> QED
  BY <1>1, <1>2 DEF g

\* A tick lets in one tick's refill, also when the bucket expires.
LEMMA OlderFacts ==
  ASSUME NEW b \in Buckets, ~b.live => b = NoBucket, b.idle <= b.lag
  PROVE  /\ Older(b) \in Buckets
         /\ ~Older(b).live => Older(b) = NoBucket
         /\ Older(b).idle <= Older(b).lag
         /\ Potential(Older(b)) <= Potential(b) + PerWindow
         /\ Lesser(Capacity, Level(b) + PerWindow) <= Level(Older(b))
<1> USE Constants
<1>0. b.tokens \in 0..Capacity /\ b.lag \in Nat /\ b.idle \in Nat
  BY DEF Buckets
<1>a. b.lag * PerWindow \in Nat /\ (b.lag + 1) * PerWindow = b.lag * PerWindow + PerWindow
  BY <1>0, Product, Minus
<1>b. NoBucket \in Buckets /\ ~NoBucket.live /\ NoBucket.tokens = Capacity
      /\ NoBucket.idle <= NoBucket.lag
  BY DEF NoBucket, Buckets
<1>c. Potential(NoBucket) = Full /\ Level(NoBucket) = Capacity
  BY <1>b, LevelIs DEF Potential
<1>d. Level(b) \in Nat /\ Level(b) <= Capacity
  BY <1>0, <1>a, LevelIs DEF Lesser
<1>1. CASE ~b.live
  <2>1. Older(b) = NoBucket /\ b = NoBucket
    BY <1>1 DEF Older
  <2> QED
    BY <1>b, <1>c, <1>d, <2>1 DEF Lesser
<1>2. CASE b.live /\ b.idle + 1 >= TTL
  <2>1. Older(b) = NoBucket
    BY <1>2 DEF Older
  <2>2. TTL * PerWindow <= (b.lag + 1) * PerWindow
    BY <1>0, <1>2, Mono
  <2>3. Full <= Potential(b) + PerWindow
    BY <1>0, <1>2, <1>a, <2>2 DEF Potential, Lesser
  <2> QED
    BY <1>b, <1>c, <1>d, <2>1, <2>3 DEF Lesser
<1>3. CASE b.live /\ b.idle + 1 < TTL
  <2> DEFINE g == [b EXCEPT !.lag = @ + 1, !.idle = @ + 1]
  <2>1. Older(b) = g
    BY <1>0, <1>3 DEF Older
  <2>2. g \in Buckets /\ g.live /\ g.lag = b.lag + 1 /\ g.idle = b.idle + 1 /\ g.tokens = b.tokens
    <3>a. b.lag + 1 \in Nat /\ b.idle + 1 \in Nat
      BY <1>0
    <3>1. g \in Buckets
      BY <3>a DEF Buckets
    <3>2. g.live = b.live /\ g.lag = b.lag + 1 /\ g.idle = b.idle + 1 /\ g.tokens = b.tokens
      BY DEF Buckets
    <3> QED
      BY <1>3, <3>1, <3>2
  <2> HIDE DEF g
  <2>3. Potential(g) <= Potential(b) + PerWindow
    BY <1>0, <1>3, <1>a, <2>2 DEF Potential, Lesser
  <2>4. Lesser(Capacity, Level(b) + PerWindow) <= Level(g)
    BY <1>0, <1>3, <1>a, <2>2, LevelIs DEF Lesser
  <2> QED
    BY <1>0, <2>1, <2>2, <2>3, <2>4
<1> QED
  BY <1>0, <1>1, <1>2, <1>3 DEF Buckets

-----------------------------------------------------------------------------
(* The invariant.                                                          *)

Throttles == [pc : {"idle", "ready", "asking", "asleep", "pacing"},
              age : Nat, sleep : Nat, waited : Nat, degraded : BOOLEAN]
Observations == [elapsed : Nat, drawn : Nat, free : Nat, losses : Nat]

\* What the callers, the bucket and the observation have to keep.
CallerOK == /\ caller \in [Callers -> Throttles]
            /\ \A c \in Callers : caller[c].age <= MaxAge
BucketOK == /\ bucket \in Buckets
            /\ ~bucket.live => bucket = NoBucket
            /\ bucket.idle <= bucket.lag
CountOK == seen \in Observations /\ RateInv /\ CushionHolds

IInv == CallerOK /\ BucketOK /\ CountOK

LEMMA CallerSet ==
  ASSUME CallerOK, NEW c \in Callers, NEW r \in Throttles, r.age <= MaxAge, Set(c, r)
  PROVE  CallerOK'
  BY DEF CallerOK, Set

LEMMA Blank == NoThrottle \in Throttles /\ NoThrottle.age = 0
  BY DEF NoThrottle, Throttles

LEMMA RetryType ==
  ASSUME NEW c \in Callers, Found(c) \in Buckets, Found(c).tokens < Needed(c)
  PROVE  RetryAfter(c) \in Nat
<1> USE Constants
<1>1. Needed(c) \in Nat /\ Found(c).tokens \in Nat
  BY DEF Needed, Buckets
<1>2. \A n, d \in Nat : d > 0 => n \div d \in Nat
  OBVIOUS
<1>3. (Needed(c) - Found(c).tokens) + PerWindow - 1 \in Nat
  BY <1>1
<1>4. PollCeiling \in Nat
  BY DelayAssumption
<1> QED
  BY <1>2, <1>3, <1>4 DEF RetryAfter, Lesser

LEMMA FoundFacts ==
  ASSUME IInv, NEW c \in Callers
  PROVE  /\ Found(c) \in Buckets /\ Found(c).live /\ Found(c).lag <= MaxAge
         /\ Potential(Found(c)) <= Potential(bucket)
         /\ Level(bucket) <= Level(Found(c))
<1>1. caller[c].age \in 0..MaxAge
  BY Constants DEF IInv, CallerOK, Throttles
<1> QED
  BY <1>1, RefillFacts DEF IInv, BucketOK, Found

LEMMA CallerNext ==
  ASSUME IInv, NEW c \in Callers, NewThrottle(c) \/ Move(c)
  PROVE  CallerOK'
<1> USE Blank, DelayAssumption DEF IInv
<1>a. CallerOK /\ caller[c] \in Throttles /\ caller[c].age <= MaxAge
  BY DEF CallerOK
<1>b. 0 \in Nat /\ 0 <= MaxAge /\ Pace \in Nat /\ MaxAge \in Nat
  OBVIOUS
<1>c. ASSUME NEW r \in Throttles, r.age <= MaxAge, Set(c, r) PROVE CallerOK'
  BY <1>c, <1>a, CallerSet
<1>d. ASSUME Set(c, NoThrottle) PROVE CallerOK'
  BY <1>b, <1>c, <1>d
<1>1. CASE NewThrottle(c)
  <2>1. [NoThrottle EXCEPT !.pc = "ready"] \in Throttles
    BY DEF Throttles, NoThrottle
  <2>2. [NoThrottle EXCEPT !.pc = "ready"].age <= MaxAge
    BY <1>b DEF NoThrottle
  <2> QED
    BY <1>1, <1>c, <2>1, <2>2 DEF NewThrottle
<1>2. CASE Ask(c)
  <2>1. CASE caller[c].degraded
    <3>1. [caller[c] EXCEPT !.pc = "pacing", !.sleep = Pace] \in Throttles
      BY <1>a, <1>b DEF Throttles
    <3>2. [caller[c] EXCEPT !.pc = "pacing", !.sleep = Pace].age = caller[c].age
      BY <1>a DEF Throttles
    <3> QED
      BY <1>2, <1>a, <1>c, <2>1, <3>1, <3>2 DEF Ask
  <2>2. CASE ~caller[c].degraded
    <3>1. PICK a \in 0..MaxAge :
            Set(c, [caller[c] EXCEPT !.pc = "asking", !.age = a, !.waited = 0])
      BY <1>2, <2>2 DEF Ask
    <3>2. a \in Nat /\ a <= MaxAge
      BY <1>b
    <3>3. [caller[c] EXCEPT !.pc = "asking", !.age = a, !.waited = 0] \in Throttles
      BY <1>a, <1>b, <3>2 DEF Throttles
    <3>4. [caller[c] EXCEPT !.pc = "asking", !.age = a, !.waited = 0].age = a
      BY <1>a DEF Throttles
    <3> QED
      BY <1>c, <3>1, <3>2, <3>3, <3>4
  <2> QED
    BY <2>1, <2>2
<1>3. CASE Draw(c)
  <2>1. [caller[c] EXCEPT !.pc = "pacing", !.sleep = Pace, !.age = 0] \in Throttles
    BY <1>a, <1>b DEF Throttles
  <2>2. [caller[c] EXCEPT !.pc = "pacing", !.sleep = Pace, !.age = 0].age = 0
    BY <1>a DEF Throttles
  <2> QED
    BY <1>3, <1>b, <1>c, <2>1, <2>2 DEF Draw
<1>4. CASE Sleep(c)
  <2>1. RetryAfter(c) \in Nat /\ Waited(c) \in Nat
    <3>1. RetryAfter(c) \in Nat
      BY <1>4, FoundFacts, RetryType DEF Sleep, Denied
    <3> QED
      BY <1>a, <3>1 DEF Waited, Throttles
  <2> DEFINE r == [caller[c] EXCEPT !.pc = "asleep", !.age = 0, !.sleep = RetryAfter(c),
                                    !.waited = Waited(c)]
  <2>2. r \in Throttles
    BY <1>a, <1>b, <2>1 DEF Throttles
  <2>3. r.age = 0
    BY <1>a DEF Throttles
  <2> QED
    BY <1>4, <1>b, <1>c, <2>2, <2>3 DEF Sleep
<1>5. CASE GiveUp(c) \/ Finish(c)
  BY <1>5, <1>d DEF GiveUp, Finish
<1>6. CASE Wake(c)
  <2>1. PICK a \in 0..MaxAge : Set(c, [caller[c] EXCEPT !.pc = "asking", !.age = a])
    BY <1>6 DEF Wake
  <2>2. a \in Nat /\ a <= MaxAge
    BY <1>b
  <2>3. [caller[c] EXCEPT !.pc = "asking", !.age = a] \in Throttles
    BY <1>a, <2>2 DEF Throttles
  <2>4. [caller[c] EXCEPT !.pc = "asking", !.age = a].age = a
    BY <1>a DEF Throttles
  <2> QED
    BY <1>c, <2>1, <2>2, <2>3, <2>4
<1>7. CASE Degrade(c)
  <2> DEFINE r == [caller[c] EXCEPT !.pc = "pacing", !.sleep = Pace, !.age = 0, !.degraded = TRUE]
  <2>1. r \in Throttles
    BY <1>a, <1>b DEF Throttles
  <2>2. r.age = 0
    BY <1>a DEF Throttles
  <2> QED
    BY <1>7, <1>b, <1>c, <2>1, <2>2 DEF Degrade
<1>8. CASE Request(c)
  <2>1. /\ [caller[c] EXCEPT !.sleep = Pace] \in Throttles
        /\ [caller[c] EXCEPT !.pc = "ready"] \in Throttles
    BY <1>a, <1>b DEF Throttles
  <2>2. /\ [caller[c] EXCEPT !.sleep = Pace].age = caller[c].age
        /\ [caller[c] EXCEPT !.pc = "ready"].age = caller[c].age
    BY <1>a DEF Throttles
  <2> QED
    BY <1>8, <1>a, <1>c, <1>d, <2>1, <2>2 DEF Request
<1> QED
  BY <1>1, <1>2, <1>3, <1>4, <1>5, <1>6, <1>7, <1>8 DEF Move

LEMMA SeenType ==
  ASSUME IInv
  PROVE  /\ seen.elapsed \in Nat /\ seen.drawn \in Nat /\ seen.free \in Nat
         /\ seen.losses \in Nat
         /\ seen.drawn * Token \in Nat /\ Token * seen.free \in Nat
         /\ PerWindow * seen.elapsed \in Nat /\ Full * (1 + seen.losses) \in Nat
         /\ Level(bucket) \in Nat /\ Level(bucket) <= Capacity /\ Potential(bucket) \in Nat
<1>1. seen \in Observations /\ bucket \in Buckets
  BY DEF IInv, CountOK, BucketOK
<1>2. /\ seen.elapsed \in Nat /\ seen.drawn \in Nat /\ seen.free \in Nat
      /\ seen.losses \in Nat
  BY <1>1 DEF Observations
<1>3. /\ seen.drawn * Token \in Nat /\ Token * seen.free \in Nat
      /\ PerWindow * seen.elapsed \in Nat
  BY <1>2, Constants, Product
<1>4. Full * (1 + seen.losses) \in Nat
  <2>1. 1 + seen.losses \in Nat
    BY <1>2
  <2> QED
    BY <2>1, Constants, Product
<1>5. bucket.tokens \in 0..Capacity /\ bucket.lag \in Nat
  BY <1>1 DEF Buckets
<1>6. bucket.lag * PerWindow \in Nat
  BY <1>5, Constants, Product
<1>7. Level(bucket) \in Nat /\ Level(bucket) <= Capacity
  BY <1>1, <1>5, <1>6, LevelIs, Constants DEF Lesser
<1>8. Potential(bucket) \in Nat
  BY <1>5, <1>6, Constants DEF Potential, Lesser
<1> QED
  BY <1>2, <1>3, <1>4, <1>7, <1>8

\* The bucket changes without a draw, and the observation not at all.
LEMMA CountKept ==
  ASSUME IInv, BucketOK', seen' \in Observations,
         seen'.drawn = seen.drawn, seen'.free = seen.free,
         seen'.losses = seen.losses, seen'.elapsed = seen.elapsed,
         Potential(bucket') <= Potential(bucket), Level(bucket) <= Level(bucket'),
         Potential(bucket') \in Nat, Level(bucket') \in Nat
  PROVE  CountOK'
<1> USE SeenType, Constants
<1>1. RateInv'
  BY DEF IInv, CountOK, RateInv
<1>2. CushionHolds'
  BY DEF IInv, CountOK, CushionHolds, Level, Lesser
<1> QED
  BY <1>1, <1>2 DEF CountOK

LEMMA Sizes ==
  ASSUME NEW b \in Buckets
  PROVE  Potential(b) \in Nat /\ Level(b) \in Nat /\ Level(b) <= Capacity
<1>1. b.tokens \in 0..Capacity /\ b.lag \in Nat
  BY DEF Buckets
<1>2. b.lag * PerWindow \in Nat
  BY <1>1, Constants, Product
<1> QED
  BY <1>1, <1>2, LevelIs, Constants DEF Potential, Lesser

LEMMA DrawCounts ==
  ASSUME IInv, NEW c \in Callers, Found(c).tokens >= Needed(c),
         bucket' = Taken(Found(c)), seen' = Count(c)
  PROVE  BucketOK' /\ CountOK'
<1> USE SeenType, Constants
<1> DEFINE f == Found(c)
           g == Taken(f)
<1>1. /\ f \in Buckets /\ f.live /\ f.lag <= MaxAge
      /\ Potential(f) <= Potential(bucket) /\ Level(bucket) <= Level(f)
  BY FoundFacts
<1>2. f.tokens \in Nat /\ f.tokens >= Token
      /\ (c \in Backfills => f.tokens >= Token + Cushion * Token)
  BY <1>1 DEF Needed, Buckets
<1>3. /\ g \in Buckets /\ g.live /\ g.idle = 0
      /\ Potential(g) + Token <= Potential(f)
      /\ Level(f) <= Level(g) + Token
      /\ f.tokens - Token <= Level(g)
  BY <1>1, <1>2, TakeFacts
<1>4. Potential(f) \in Nat /\ Level(f) \in Nat /\ Potential(g) \in Nat /\ Level(g) \in Nat
  BY <1>1, <1>3, Sizes
<1>5. bucket' = g
  OBVIOUS
<1> HIDE DEF f, g
<1>6. BucketOK'
  <2>1. g.lag \in Nat
    BY <1>3 DEF Buckets
  <2> QED
    BY <1>3, <1>5, <2>1 DEF BucketOK
<1>7. /\ seen'.drawn = seen.drawn + 1 /\ seen'.losses = seen.losses
      /\ seen'.elapsed = seen.elapsed
      /\ seen'.free = IF c \in Backfills THEN seen.free ELSE seen.free + 1
  BY DEF Count, IInv, CountOK, Observations
<1>8. seen' \in Observations
  <2>1. seen.drawn + 1 \in Nat /\ seen.free + 1 \in Nat
    OBVIOUS
  <2> QED
    BY <2>1 DEF Count, IInv, CountOK, Observations
<1>9. RateInv'
  <2>1. (seen.drawn + 1) * Token = seen.drawn * Token + Token
    BY Minus
  <2> QED
    BY <1>1, <1>3, <1>4, <1>5, <1>7, <2>1 DEF IInv, CountOK, RateInv
<1>10. CushionHolds'
  <2>1. CASE c \in Backfills
    <3>1. Cushion * Token <= Level(g)
      BY <1>2, <1>3, <1>4, <2>1
    <3> QED
      BY <1>4, <1>5, <1>7, <2>1, <3>1 DEF CushionHolds, Level, Lesser
  <2>2. CASE c \notin Backfills
    <3>1. Token * (seen.free + 1) = Token * seen.free + Token
      <4>1. Token * (seen.free + 1) = (seen.free + 1) * Token
        OBVIOUS
      <4>2. (seen.free + 1) * Token = seen.free * Token + 1 * Token
        BY Minus
      <4>3. seen.free * Token = Token * seen.free
        OBVIOUS
      <4> QED
        BY <4>1, <4>2, <4>3
    <3> QED
      BY <1>1, <1>3, <1>4, <1>5, <1>7, <2>2, <3>1
         DEF IInv, CountOK, CushionHolds, Level, Lesser
  <2> QED
    BY <2>1, <2>2
<1> QED
  BY <1>6, <1>8, <1>9, <1>10 DEF CountOK

LEMMA TouchCounts ==
  ASSUME IInv, NEW c \in Callers, bucket' = [Found(c) EXCEPT !.idle = 0], seen' = seen
  PROVE  BucketOK' /\ CountOK'
<1> DEFINE g == [Found(c) EXCEPT !.idle = 0]
<1>1. /\ Found(c) \in Buckets /\ Found(c).live
      /\ Potential(Found(c)) <= Potential(bucket) /\ Level(bucket) <= Level(Found(c))
  BY FoundFacts
<1>2. /\ g \in Buckets /\ g.live /\ g.idle = 0
      /\ Potential(g) = Potential(Found(c)) /\ Level(g) = Level(Found(c))
  BY <1>1, TouchFacts
<1>3. bucket' = g
  OBVIOUS
<1> HIDE DEF g
<1>4. BucketOK'
  <2>1. g.lag \in Nat
    BY <1>2 DEF Buckets
  <2>2. g.idle <= g.lag
    BY <1>2, <2>1
  <2> QED
    BY <1>2, <1>3, <2>2 DEF BucketOK
<1>5. Potential(g) \in Nat /\ Level(g) \in Nat
  BY <1>2, Sizes
<1>6. seen' \in Observations
  BY DEF IInv, CountOK
<1> QED
  BY <1>1, <1>2, <1>3, <1>4, <1>5, <1>6, CountKept

LEMMA MoveCounts ==
  ASSUME IInv, NEW c \in Callers, NewThrottle(c) \/ Move(c)
  PROVE  BucketOK' /\ CountOK'
<1>1. CASE NewThrottle(c) \/ Ask(c) \/ Wake(c) \/ Finish(c)
  <2>1. bucket' = bucket /\ seen' = seen
    BY <1>1 DEF NewThrottle, Ask, Wake, Finish
  <2> QED
    BY <2>1 DEF IInv, BucketOK, CountOK, RateInv, CushionHolds
<1>2. CASE Draw(c)
  BY <1>2, DrawCounts DEF Draw
<1>3. CASE Sleep(c) \/ GiveUp(c)
  BY <1>3, TouchCounts DEF Sleep, GiveUp
<1>4. CASE Degrade(c)
  <2>1. CASE UNCHANGED <<bucket, seen>>
    BY <2>1 DEF IInv, BucketOK, CountOK, RateInv, CushionHolds
  <2> QED
    BY <1>4, <2>1, DrawCounts, TouchCounts DEF Degrade
<1>5. CASE Request(c)
  <2>1. UNCHANGED <<bucket, seen>>
    BY <1>5 DEF Request
  <2> QED
    BY <2>1 DEF IInv, BucketOK, CountOK, RateInv, CushionHolds
<1> QED
  BY <1>1, <1>2, <1>3, <1>4, <1>5 DEF Move

LEMMA FreshBucket == /\ NoBucket \in Buckets /\ ~NoBucket.live /\ NoBucket.idle <= NoBucket.lag
                     /\ Potential(NoBucket) = Full /\ Level(NoBucket) = Capacity
<1>1. /\ NoBucket \in Buckets /\ ~NoBucket.live /\ NoBucket.idle <= NoBucket.lag
      /\ NoBucket.tokens = Capacity
  BY Constants DEF NoBucket, Buckets
<1> QED
  BY <1>1, LevelIs DEF Potential

LEMMA TickKeeps == ASSUME IInv, Tick PROVE IInv'
<1> USE SeenType, Constants
<1>1. /\ bucket \in Buckets /\ (~bucket.live => bucket = NoBucket) /\ bucket.idle <= bucket.lag
      /\ seen \in Observations
  BY DEF IInv, BucketOK, CountOK
<1>2. bucket' = Older(bucket) /\ seen' = [seen EXCEPT !.elapsed = @ + 1]
      /\ caller' = [c \in Callers |-> Later(caller[c])]
  BY DEF Tick
<1>3. CallerOK'
  <2> SUFFICES ASSUME NEW c \in Callers
               PROVE  Later(caller[c]) \in Throttles /\ Later(caller[c]).age <= MaxAge
    BY <1>2 DEF CallerOK
  <2> DEFINE r == caller[c]
             a == IF r.pc = "asking" THEN r.age + 1 ELSE r.age
             z == IF r.sleep > 0 THEN r.sleep - 1 ELSE r.sleep
  <2>1. r \in Throttles /\ r.age <= MaxAge /\ (r.pc = "asking" => r.age < MaxAge)
    BY DEF IInv, CallerOK, Tick
  <2>2. r.age \in Nat /\ r.sleep \in Nat
    BY <2>1 DEF Throttles
  <2>3. a \in Nat /\ a <= MaxAge /\ z \in Nat
    BY <2>1, <2>2
  <2>4. Later(r) = [r EXCEPT !.age = a, !.sleep = z]
    BY DEF Later
  <2> HIDE DEF r, a, z
  <2>5. Later(r) \in Throttles /\ Later(r).age = a
    BY <2>1, <2>3, <2>4 DEF Throttles
  <2> QED
    BY <2>3, <2>5 DEF r
<1>4. /\ Older(bucket) \in Buckets
      /\ ~Older(bucket).live => Older(bucket) = NoBucket
      /\ Older(bucket).idle <= Older(bucket).lag
      /\ Potential(Older(bucket)) <= Potential(bucket) + PerWindow
      /\ Lesser(Capacity, Level(bucket) + PerWindow) <= Level(Older(bucket))
  BY <1>1, OlderFacts
<1>5. BucketOK'
  BY <1>2, <1>4 DEF BucketOK
<1>6. /\ seen' \in Observations /\ seen'.elapsed = seen.elapsed + 1
      /\ seen'.drawn = seen.drawn /\ seen'.free = seen.free /\ seen'.losses = seen.losses
  BY <1>1, <1>2 DEF Observations
<1>7. Potential(bucket') \in Nat /\ Level(bucket') \in Nat
  BY <1>2, <1>4, Sizes
<1>8. PerWindow * (seen.elapsed + 1) = PerWindow * seen.elapsed + PerWindow
  <2>1. /\ PerWindow * (seen.elapsed + 1) = (seen.elapsed + 1) * PerWindow
        /\ PerWindow * seen.elapsed = seen.elapsed * PerWindow
    OBVIOUS
  <2>2. (seen.elapsed + 1) * PerWindow = seen.elapsed * PerWindow + 1 * PerWindow
    BY Minus
  <2> QED
    BY <2>1, <2>2
<1>9. RateInv'
  BY <1>2, <1>4, <1>6, <1>7, <1>8 DEF IInv, CountOK, RateInv
<1>10. CushionHolds'
  <2>1. Level(bucket) + Token * seen.free >= Lesser(Cushion * Token, PerWindow * seen.elapsed)
    BY DEF IInv, CountOK, CushionHolds, Level
  <2>2. Lesser(Capacity, Level(bucket) + PerWindow) <= Level(bucket')
    BY <1>2, <1>4
  <2>3. Level(bucket') + Token * seen.free >= Lesser(Cushion * Token, PerWindow * (seen.elapsed + 1))
    BY <1>7, <1>8, <2>1, <2>2 DEF Lesser
  <2> QED
    BY <1>6, <2>3 DEF CushionHolds, Level
<1> QED
  BY <1>3, <1>5, <1>6, <1>9, <1>10 DEF IInv, CountOK

LEMMA LossKeeps == ASSUME IInv, LoseBucket PROVE IInv'
<1> USE SeenType, Constants
<1>1. bucket' = NoBucket /\ seen' = [seen EXCEPT !.losses = @ + 1] /\ caller' = caller
  BY DEF LoseBucket
<1>2. /\ seen' \in Observations /\ seen'.elapsed = seen.elapsed
      /\ seen'.drawn = seen.drawn /\ seen'.free = seen.free /\ seen'.losses = seen.losses + 1
  <2>1. seen.losses + 1 \in Nat
    OBVIOUS
  <2> QED
    BY <1>1, <2>1 DEF IInv, CountOK, Observations
<1>3. BucketOK' /\ CallerOK'
  BY <1>1, FreshBucket DEF IInv, BucketOK, CallerOK
<1>4. RateInv'
  <2>1. Full * (1 + (seen.losses + 1)) = Full * (1 + seen.losses) + Full
    <3>1. (1 + seen.losses) \in Nat
      OBVIOUS
    <3>2. ((1 + seen.losses) + 1) * Full = (1 + seen.losses) * Full + 1 * Full
      BY <3>1, Minus
    <3> QED
      BY <3>1, <3>2
  <2> QED
    BY <1>1, <1>2, <2>1, FreshBucket DEF IInv, CountOK, RateInv
<1>5. CushionHolds'
  <2>1. Level(bucket') = Capacity
    BY <1>1, FreshBucket
  <2> QED
    BY <1>2, <2>1 DEF CushionHolds, Level, Lesser
<1> QED
  BY <1>2, <1>3, <1>4, <1>5 DEF IInv, CountOK

\* An observation may start in any state: it has counted nothing.
LEMMA FromNow ==
  ASSUME BucketOK, seen = Nothing
  PROVE  CountOK
<1> USE Constants
<1>1. /\ seen \in Observations /\ seen.elapsed = 0 /\ seen.drawn = 0 /\ seen.free = 0
      /\ seen.losses = 0
  BY DEF Nothing, Observations
<1>2. Potential(bucket) \in Nat /\ Level(bucket) \in Nat /\ Potential(bucket) <= Full
  <2>1. bucket \in Buckets
    BY DEF BucketOK
  <2>2. Potential(bucket) \in Nat /\ Level(bucket) \in Nat
    BY <2>1, Sizes
  <2> QED
    BY <2>2 DEF Potential, Lesser
<1>3. RateInv
  BY <1>1, <1>2 DEF RateInv
<1>4. CushionHolds
  BY <1>1, <1>2 DEF CushionHolds, Level, Lesser
<1> QED
  BY <1>1, <1>3, <1>4 DEF CountOK

LEMMA FromNowOn == BucketOK' /\ seen' = Nothing => CountOK'
<1>1. (BucketOK /\ seen = Nothing => CountOK)'
  BY FromNow, PTL
<1> QED
  BY <1>1 DEF Nothing

LEMMA Inductive == Spec => []IInv
<1>1. Init => IInv
  <2> SUFFICES ASSUME Init PROVE IInv
    OBVIOUS
  <2>1. CallerOK
    BY Blank, Constants DEF Init, CallerOK
  <2>2. BucketOK
    BY FreshBucket DEF Init, BucketOK
  <2> QED
    BY <2>1, <2>2, FromNow DEF Init, IInv
<1>2. IInv /\ [Next]_vars => IInv'
  <2> SUFFICES ASSUME IInv, [Next]_vars PROVE IInv'
    OBVIOUS
  <2>1. ASSUME NEW c \in Callers, NewThrottle(c) \/ Move(c) PROVE IInv'
    BY <2>1, CallerNext, MoveCounts DEF IInv
  <2>2. CASE Observe
    BY <2>2, FromNowOn DEF Observe, IInv, BucketOK, CallerOK
  <2>3. CASE UNCHANGED vars
    BY <2>3 DEF vars, IInv, BucketOK, CallerOK, CountOK, RateInv, CushionHolds
  <2> QED
    BY <2>1, <2>2, <2>3, TickKeeps, LossKeeps DEF Next
<1> QED
  BY <1>1, <1>2, PTL DEF Spec

-----------------------------------------------------------------------------
(* The theorems.                                                           *)

\* Every variable has its type.
THEOREM TypeCorrect == Spec => []TypeOK
<1>1. IInv => TypeOK
  BY DEF IInv, BucketOK, CallerOK, CountOK, Buckets, Throttles, Observations, TypeOK
<1> QED
  BY <1>1, Inductive, PTL

\* However late and in whatever order clock readings reach the script, all
\* processes together draw no more than full buckets and the refill.
THEOREM RateIsBounded == Spec => []RateHolds
<1>1. IInv => RateHolds
  <2> SUFFICES ASSUME IInv PROVE RateHolds
    OBVIOUS
  <2>1. seen.drawn * Token + Potential(bucket) <= Full * (1 + seen.losses) + PerWindow * seen.elapsed
    BY DEF IInv, CountOK, RateInv
  <2> QED
    BY <2>1, SeenType, Constants DEF RateHolds, Full
<1> QED
  BY <1>1, Inductive, PTL

\* Backfills leave their cushion to the others, for any number of backfills.
THEOREM CushionIsLeft == Spec => []CushionHolds
<1>1. IInv => CushionHolds
  BY DEF IInv, CountOK
<1> QED
  BY <1>1, Inductive, PTL
=============================================================================
