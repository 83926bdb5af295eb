------------------------------ MODULE NvdBucket ------------------------------
(***************************************************************************)
(* The rate limit on NVD: every process that queries NVD with one API key  *)
(* draws a token from one bucket in Redis before each query.  A caller     *)
(* reads its clock, then the script refills the bucket and takes the token *)
(* in one atomic step; a backfill must leave a cushion.                    *)
(*                                                                         *)
(* Times are ages and delays in ticks, so there is no clock that grows.    *)
(* The bucket holds fractions of a token: PerWindow of them flow in during *)
(* a tick and Window of them make a token, so that a whole window refills  *)
(* exactly the capacity.                                                   *)
(***************************************************************************)
EXTENDS Integers

CONSTANTS
  Callers,      \* throttles: worker tasks, Sync requests, CPE searches
  Backfills,    \* the callers that are backfills
  PerWindow,    \* nvd_rate_..._per_window: the capacity in tokens
  Window,       \* nvd_rate_window_seconds
  Cushion,      \* backfill_reserve: the tokens a backfill leaves
  MaxWait,      \* how long a caller waits for a token
  PollCeiling,  \* poll_ceiling
  TTL,          \* ttl_seconds: an unused bucket expires
  Pace,         \* NVDConfig.pacing
  MayFail,      \* TRUE when Redis may be out of reach
  MaxAge,       \* bound: how old a clock reading is when the script uses it
  Horizon,      \* bound: how long an observation lasts
  MaxLosses     \* bound: how often Redis loses the bucket in an observation

ASSUME RateAssumption == PerWindow \in Nat \ {0} /\ Window \in Nat \ {0}
ASSUME CushionAssumption == Cushion \in Nat /\ Cushion < PerWindow
ASSUME BackfillAssumption == Backfills \subseteq Callers
ASSUME DelayAssumption ==
  /\ MaxWait \in [Callers -> Nat]
  /\ PollCeiling \in Nat \ {0} /\ Pace \in Nat
  /\ MayFail \in BOOLEAN /\ MaxAge \in Nat /\ Horizon \in Nat /\ MaxLosses \in Nat
\* An hour, where the window is half a minute.
ASSUME ExpiryAssumption == TTL \in Nat /\ TTL >= Window + MaxAge

VARIABLES
  bucket,   \* the hash in Redis
  caller,   \* each caller's throttle and where it is in it
  seen      \* history: what an observer counts from a moment of its choice

vars == <<bucket, caller, seen>>

Token == Window
Capacity == PerWindow * Token
Lesser(a, b) == IF a <= b THEN a ELSE b

\* No hash: what the script makes of it is a full bucket.
NoBucket == [live |-> FALSE, tokens |-> Capacity, lag |-> 0, idle |-> 0]
NoThrottle == [pc |-> "idle", age |-> 0, sleep |-> 0, waited |-> 0, degraded |-> FALSE]
Nothing == [elapsed |-> 0, drawn |-> 0, free |-> 0, losses |-> 0]

Init ==
  /\ bucket = NoBucket
  /\ caller = [c \in Callers |-> NoThrottle]
  /\ seen = Nothing

Set(c, r) == caller' = [caller EXCEPT ![c] = r]

-----------------------------------------------------------------------------
(* A caller.                                                               *)

NewThrottle(c) ==
  /\ caller[c].pc = "idle"
  /\ Set(c, [NoThrottle EXCEPT !.pc = "ready"])
  /\ UNCHANGED <<bucket, seen>>

\* wait: the clock is read before the script runs, and may be behind.  A
\* throttle that has lost Redis once does not try again.
Ask(c) ==
  /\ caller[c].pc = "ready"
  /\ IF caller[c].degraded
     THEN Set(c, [caller[c] EXCEPT !.pc = "pacing", !.sleep = Pace])
     ELSE \E a \in 0..MaxAge : Set(c, [caller[c] EXCEPT !.pc = "asking", !.age = a, !.waited = 0])
  /\ UNCHANGED <<bucket, seen>>

\* Mutant of Refilled: the time stamp follows the caller's clock backwards.
RefilledBackwards(b, age) ==
  [b EXCEPT !.live = TRUE, !.lag = age,
            !.tokens = IF b.live /\ age < b.lag
                       THEN Lesser(Capacity, @ + (b.lag - age) * PerWindow) ELSE @]

\* The bucket as the script finds it, with a clock reading of that age.
Refilled(b, age) ==
  IF ~b.live THEN [b EXCEPT !.live = TRUE, !.lag = age]
  ELSE IF age < b.lag
  THEN [b EXCEPT !.tokens = Lesser(Capacity, @ + (b.lag - age) * PerWindow), !.lag = age]
  ELSE b

\* Mutant of Needed: the cushion is not asked for.
NoCushion(c) == Token

\* amount + reserve.
Needed(c) == IF c \in Backfills THEN Token + Cushion * Token ELSE Token

Found(c) == Refilled(bucket, caller[c].age)

Taken(b) == [b EXCEPT !.tokens = @ - Token, !.idle = 0]

\* The observer's count of tokens, and of those that no backfill drew.
Count(c) == [seen EXCEPT !.drawn = @ + 1,
                         !.free = IF c \in Backfills THEN @ ELSE @ + 1]

Draw(c) ==
  /\ caller[c].pc = "asking"
  /\ Found(c).tokens >= Needed(c)
  /\ bucket' = Taken(Found(c))
  /\ Set(c, [caller[c] EXCEPT !.pc = "pacing", !.sleep = Pace, !.age = 0])
  /\ seen' = Count(c)

\* Ticks until the bucket holds enough, but not longer than a poll.
RetryAfter(c) ==
  Lesser(PollCeiling, ((Needed(c) - Found(c).tokens) + PerWindow - 1) \div PerWindow)

\* Mutant of Waited: the count starts again with every poll.
ThisPoll(c) == RetryAfter(c)

\* What the caller has waited when this sleep is over.
Waited(c) == caller[c].waited + RetryAfter(c)

Denied(c) == caller[c].pc = "asking" /\ Found(c).tokens < Needed(c)

\* The refill is stored whether a token is taken or not.
Sleep(c) ==
  /\ Denied(c)
  /\ Waited(c) <= MaxWait[c]
  /\ bucket' = [Found(c) EXCEPT !.idle = 0]
  /\ Set(c, [caller[c] EXCEPT !.pc = "asleep", !.age = 0, !.sleep = RetryAfter(c),
                              !.waited = Waited(c)])
  /\ UNCHANGED seen

\* RateLimitBusy: the task fails, or the user is told to try again.
GiveUp(c) ==
  /\ Denied(c)
  /\ Waited(c) > MaxWait[c]
  /\ bucket' = [Found(c) EXCEPT !.idle = 0]
  /\ Set(c, NoThrottle)
  /\ UNCHANGED seen

Wake(c) ==
  /\ caller[c].pc = "asleep"
  /\ caller[c].sleep = 0
  /\ \E a \in 0..MaxAge : Set(c, [caller[c] EXCEPT !.pc = "asking", !.age = a])
  /\ UNCHANGED <<bucket, seen>>

\* RedisError: the script did not run, or ran and its answer was lost.
Degrade(c) ==
  /\ MayFail
  /\ caller[c].pc = "asking"
  /\ \/ UNCHANGED <<bucket, seen>>
     \/ /\ Found(c).tokens >= Needed(c)
        /\ bucket' = Taken(Found(c))
        /\ seen' = Count(c)
     \/ /\ Found(c).tokens < Needed(c)
        /\ bucket' = [Found(c) EXCEPT !.idle = 0]
        /\ UNCHANGED seen
  /\ Set(c, [caller[c] EXCEPT !.pc = "pacing", !.sleep = Pace, !.age = 0, !.degraded = TRUE])

\* One paced request of a query; another page follows, or a retry, or the query
\* is over, or it has failed and the throttle with it.
Request(c) ==
  /\ caller[c].pc = "pacing"
  /\ caller[c].sleep = 0
  /\ \/ Set(c, [caller[c] EXCEPT !.sleep = Pace])
     \/ Set(c, [caller[c] EXCEPT !.pc = "ready"])
     \/ Set(c, NoThrottle)
  /\ UNCHANGED <<bucket, seen>>

\* The run has made its queries.
Finish(c) ==
  /\ caller[c].pc = "ready"
  /\ Set(c, NoThrottle)
  /\ UNCHANGED <<bucket, seen>>

-----------------------------------------------------------------------------
(* Time, Redis and the observer.                                           *)

\* Redis counts the expiry from the last script.
Older(b) ==
  IF ~b.live THEN b
  ELSE IF b.idle + 1 >= TTL THEN NoBucket
  ELSE [b EXCEPT !.lag = @ + 1, !.idle = @ + 1]

Later(r) ==
  [r EXCEPT !.age = IF r.pc = "asking" THEN @ + 1 ELSE @,
            !.sleep = IF @ > 0 THEN @ - 1 ELSE @]

Tick ==
  /\ \A c \in Callers : caller[c].pc = "asking" => caller[c].age < MaxAge
  /\ seen.elapsed < Horizon
  /\ bucket' = Older(bucket)
  /\ caller' = [c \in Callers |-> Later(caller[c])]
  /\ seen' = [seen EXCEPT !.elapsed = @ + 1]

\* Redis comes back empty, or evicts the key.
LoseBucket ==
  /\ bucket.live
  /\ seen.losses < MaxLosses
  /\ bucket' = NoBucket
  /\ seen' = [seen EXCEPT !.losses = @ + 1]
  /\ UNCHANGED caller

\* An observation starts at any moment.
Observe ==
  /\ seen # Nothing
  /\ seen' = Nothing
  /\ UNCHANGED <<bucket, caller>>

Move(c) ==
  \/ Ask(c) \/ Draw(c) \/ Sleep(c) \/ GiveUp(c) \/ Wake(c) \/ Degrade(c)
  \/ Request(c) \/ Finish(c)

Next ==
  \/ \E c \in Callers : NewThrottle(c) \/ Move(c)
  \/ Tick \/ LoseBucket \/ Observe

Spec == Init /\ [][Next]_vars

\* A caller that is in a query runs on, and time passes: the observer, whose
\* horizon would stop the clock, starts again.
Fairness ==
  /\ \A c \in Callers : WF_vars(Move(c))
  /\ SF_vars(Tick)
  /\ WF_vars(seen.elapsed = Horizon /\ Observe)

FairSpec == Spec /\ Fairness
-----------------------------------------------------------------------------
(* Properties.                                                             *)

\* Every variable has its type.
TypeOK ==
  /\ bucket \in [live : BOOLEAN, tokens : 0..Capacity, lag : Nat, idle : Nat]
  /\ caller \in [Callers -> [pc : {"idle", "ready", "asking", "asleep", "pacing"},
                             age : Nat, sleep : Nat, waited : Nat, degraded : BOOLEAN]]
  /\ seen \in [elapsed : Nat, drawn : Nat, free : Nat, losses : Nat]

\* "two workers cannot double-spend a token": in any interval all processes
\* together draw a full bucket and what flows in, and no more, however late and
\* in whatever order their clock readings reach the script.  What a late reading
\* can add is the refill of its delay, once for every bucket that is made new.
RateHolds ==
  seen.drawn * Token
    <= (Capacity + MaxAge * PerWindow) * (1 + seen.losses) + PerWindow * seen.elapsed

\* Backfills "can never starve the others": in any interval the cushion is in
\* the bucket, or as much of it as could flow in, or callers that are no
\* backfill have drawn it.
CushionHolds ==
  Refilled(bucket, 0).tokens + Token * seen.free
    >= Lesser(Cushion * Token, PerWindow * seen.elapsed)

\* "blocks until a token is free", but not for ever: a caller gets its token or
\* gives up, whatever the others draw.
EveryDrawEnds == \A c \in Callers : caller[c].pc = "asking" ~> caller[c].pc \in {"pacing", "idle"}
-----------------------------------------------------------------------------
(* The inductive strengthenings.                                           *)

\* No caller's reading is older than the bound, and the bucket is as old as the
\* last script's reading of the clock, or older.
AgeInv ==
  /\ \A c \in Callers : caller[c].age <= MaxAge
  /\ ~bucket.live => bucket = NoBucket
  /\ bucket.idle <= bucket.lag

\* The most that can be drawn from the bucket at once, by the latest reading.
Full == Capacity + MaxAge * PerWindow
Potential(b) == IF b.live THEN Lesser(Full, b.tokens + b.lag * PerWindow) ELSE Full

\* What was drawn and what can be drawn come from a full bucket and the refill.
RateInv ==
  seen.drawn * Token + Potential(bucket) <= Full * (1 + seen.losses) + PerWindow * seen.elapsed
=============================================================================
