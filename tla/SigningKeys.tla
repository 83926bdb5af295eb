----------------------------- MODULE SigningKeys -----------------------------
(* Google's signing keys as one process caches them (GoogleOidcProvider of   *)
(* services/oidc.py): callbacks of several sign-ins share the discovery      *)
(* document and the keys, both kept for an hour, and fetch the keys again    *)
(* for a token whose key they do not know.  The lock is held while the       *)
(* document is fetched and while keys are replaced, not while keys are       *)
(* fetched or looked up.  What else a token is checked for is one step here. *)
EXTENDS Integers, FiniteSets

CONSTANTS
  Callbacks,      \* sign-ins that ask for an identity at the same time
  Kids,           \* ids of keys
  FirstKid,       \* the key that Google signs with at first
  NoKid, Nobody,
  CacheTicks,     \* _CACHE_SECONDS
  SlowTicks,      \* how long an answer can be on its way (_HTTP_TIMEOUT)
  LastTick        \* bound: the clock

KidAssumption == FirstKid \in Kids /\ NoKid \notin Kids /\ Nobody \notin Callbacks
TickAssumption == CacheTicks \in Nat /\ SlowTicks \in Nat /\ LastTick \in Nat

VARIABLES
  published,    \* the keys in Google's JWKS
  signing,      \* the one it signs with
  clock,        \* time.monotonic() of the process, which need not start at 0
  meta_at,      \* when the discovery document was fetched, -1 before
  keys,         \* the cached keys
  keys_at,      \* when they were stored, 0 before
  lock,         \* who holds the lock over an HTTP request
  fetch,        \* the callbacks
  last,         \* history: when each key was last published, -1 for never
  overrun       \* history: callbacks between whose look and use others stored keys

keyVars == <<published, signing, clock, meta_at, keys, keys_at, lock, fetch, last, overrun>>
google == <<published, signing, last>>

Quiet == [pc |-> "idle", then |-> "idle", kid |-> NoKid, answer |-> {}, waited |-> 0]

Init ==
  /\ published = {FirstKid} /\ signing = FirstKid /\ last = [k \in Kids |-> IF k = FirstKid THEN 0 ELSE -1]
  /\ clock = 0 /\ meta_at = -1 /\ keys = {} /\ keys_at = 0
  /\ lock = Nobody /\ fetch = [c \in Callbacks |-> Quiet] /\ overrun = {}
------------------------------------------------------------------------------
(* Google.                                                                   *)

Publish(k) ==
  /\ last[k] < 0
  /\ published' = published \cup {k} /\ last' = [last EXCEPT ![k] = clock]
  /\ UNCHANGED <<signing, clock, meta_at, keys, keys_at, lock, fetch, overrun>>
SignWith(k) ==
  /\ k \in published \ {signing} /\ signing' = k
  /\ UNCHANGED <<published, last, clock, meta_at, keys, keys_at, lock, fetch, overrun>>
Withdraw(k) ==
  /\ k \in published \ {signing} /\ published' = published \ {k}
  /\ UNCHANGED <<signing, last, clock, meta_at, keys, keys_at, lock, fetch, overrun>>
------------------------------------------------------------------------------
(* A callback.                                                               *)

Goto(c, pc) == fetch' = [fetch EXCEPT ![c].pc = pc]

\* fetch_identity, which begins with the discovery document.
Start(c) ==
  /\ fetch[c].pc = "idle"
  /\ fetch' = [fetch EXCEPT ![c].pc = "metadata", ![c].then = "exchange"]
  /\ UNCHANGED <<google, clock, meta_at, keys, keys_at, lock, overrun>>

\* _metadata, with the lock.
Outdated == meta_at < 0 \/ clock - meta_at > CacheTicks
Metadata(c) ==
  /\ fetch[c].pc = "metadata" /\ lock = Nobody
  /\ IF Outdated THEN Goto(c, "discover") /\ lock' = c ELSE Goto(c, fetch[c].then) /\ UNCHANGED lock
  /\ UNCHANGED <<google, clock, meta_at, keys, keys_at, overrun>>
Discover(c) ==
  /\ fetch[c].pc = "discover"
  /\ meta_at' = clock /\ lock' = Nobody
  /\ Goto(c, fetch[c].then)
  /\ UNCHANGED <<google, clock, keys, keys_at, overrun>>

\* The code is exchanged for a token of now.
Exchange(c) ==
  /\ fetch[c].pc = "exchange"
  /\ fetch' = [fetch EXCEPT ![c].kid = signing, ![c].pc = "look"]
  /\ UNCHANGED <<google, clock, meta_at, keys, keys_at, lock, overrun>>

\* Mutant of Unknown: the keys are fetched again by the clock only.
UnknownByAge(kid) == clock - keys_at > CacheTicks \/ keys = {}
\* The first half of _signing_key.
Unknown(kid) == clock - keys_at > CacheTicks \/ kid \notin keys
Look(c) ==
  /\ fetch[c].pc = "look"
  /\ fetch' = [fetch EXCEPT
       ![c].pc = IF Unknown(fetch[c].kid) THEN "metadata" ELSE "use", ![c].then = "ask"]
  /\ UNCHANGED <<google, clock, meta_at, keys, keys_at, lock, overrun>>

\* _load_keys: Google answers, and the answer arrives.
Ask(c) ==
  /\ fetch[c].pc = "ask"
  /\ fetch' = [fetch EXCEPT ![c].answer = published, ![c].pc = "store"]
  /\ UNCHANGED <<google, clock, meta_at, keys, keys_at, lock, overrun>>

\* Mutant of Replaced: keys are added to those there are.
AddedTo(answer) == keys \cup answer
Replaced(answer) == answer
Store(c) ==
  /\ fetch[c].pc = "store" /\ lock = Nobody
  /\ keys' = Replaced(fetch[c].answer) /\ keys_at' = clock
  /\ Goto(c, "use")
  /\ overrun' = overrun \cup {d \in Callbacks \ {c} : fetch[d].pc = "use"}
  /\ UNCHANGED <<google, clock, meta_at, lock>>

\* The second half of _signing_key: the token is accepted or refused.
Use(c) ==
  /\ fetch[c].pc = "use"
  /\ fetch' = [fetch EXCEPT ![c] = Quiet] /\ overrun' = overrun \ {c}
  /\ UNCHANGED <<google, clock, meta_at, keys, keys_at, lock>>

\* A request to Google fails, or takes too long: the sign-in ends, the cache is kept.
Fails(c) ==
  /\ fetch[c].pc \in {"discover", "exchange", "ask", "store"}
  /\ fetch' = [fetch EXCEPT ![c] = Quiet]
  /\ lock' = IF lock = c THEN Nobody ELSE lock
  /\ UNCHANGED <<google, clock, meta_at, keys, keys_at, overrun>>

\* Only requests to Google take time, and what can take it waits for the lock.
Tick ==
  /\ clock < LastTick /\ clock' = clock + 1
  /\ \A c \in Callbacks : fetch[c].pc \notin {"look", "use"} /\ fetch[c].waited < SlowTicks
  /\ fetch' = [c \in Callbacks |-> IF fetch[c].pc = "store" THEN [fetch[c] EXCEPT !.waited = @ + 1] ELSE fetch[c]]
  /\ last' = [k \in Kids |-> IF k \in published THEN clock + 1 ELSE last[k]]
  /\ UNCHANGED <<published, signing, meta_at, keys, keys_at, lock, overrun>>

Next ==
  \/ \E k \in Kids : Publish(k) \/ SignWith(k) \/ Withdraw(k)
  \/ \E c \in Callbacks :
       Start(c) \/ Metadata(c) \/ Discover(c) \/ Exchange(c) \/ Look(c) \/ Ask(c) \/ Store(c) \/ Use(c) \/ Fails(c)
  \/ Tick

Spec == Init /\ [][Next]_keyVars
------------------------------------------------------------------------------
(* Properties.                                                               *)

\* A key is not trusted for longer than the cache and one answer last after
\* Google has withdrawn it.
KeysFade ==
  clock - keys_at <= CacheTicks => \A k \in keys : clock - last[k] <= CacheTicks + SlowTicks

\* A token is not refused for want of a key that Google publishes: rotation is
\* picked up by the first token of the new key.  Two callbacks that fetch the
\* keys together are the exception: the older answer can be stored last.
RotationIsSeen ==
  \A c \in Callbacks :
    fetch[c].pc = "use" /\ fetch[c].kid \in published => fetch[c].kid \in keys \/ c \in overrun

KeysFollowGoogle == KeysFade /\ RotationIsSeen
=============================================================================
