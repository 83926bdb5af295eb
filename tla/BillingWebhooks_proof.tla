------------------------ MODULE BillingWebhooks_proof ------------------------
(* Theorems about BillingWebhooks, for any number of requests and events.    *)
EXTENDS BillingWebhooks, SequenceTheorems, TLAPS

Numbers == Ids \ {0}
EventTypes == {"checkout", "changed", "deleted", "failed"}

LEMMA Constants ==
  /\ MaxEvents \in Nat /\ Numbers = 1 .. MaxEvents /\ Ids = 0 .. MaxEvents /\ None \in Ids
  /\ PaidPlans \subseteq Plans /\ "free" \in Plans /\ "free" \notin PaidPlans
  /\ PaidPlans \subseteq Prices /\ NoRow \notin Rows
  BY BoundAssumption, PriceAssumption, RowAssumption DEF Numbers, Ids, None, PaidPlans, Plans

LEMMA Pairs ==
  ASSUME NEW S, NEW a \in S, NEW b \in S
  PROVE  /\ <<a>> \in Seq(S) /\ Len(<<a>>) = 1
         /\ <<a, b>> \in Seq(S) /\ Len(<<a, b>>) = 2
  OBVIOUS

LEMMA IdleTyped == Idle \in Requests
<1>1. <<>> \in Seq(Numbers)
  BY EmptySeq
<1> QED
  BY <1>1, Constants DEF Idle, Requests, Numbers

-----------------------------------------------------------------------------
(* What the provider tells.                                                  *)

LEMMA TellTyped ==
  ASSUME NEW type \in EventTypes, NEW i \in Ids, NEW sub \in Subscriptions, NEW at \in Numbers
  PROVE  /\ Tell(type, i, sub, at) \in Events
         /\ Tell(type, i, sub, at).type = type /\ Tell(type, i, sub, at).sub = i
  BY DEF Tell, Events, Subscriptions, EventTypes, Numbers

LEMMA OpenedTyped ==
  ASSUME NEW s \in Sessions, Len(subs) + 1 \in Ids
  PROVE  Opened(s) \in Subscriptions
  BY Constants DEF Opened, Sessions, Subscriptions, Statuses

LEMMA OpeningTyped ==
  ASSUME NEW s \in Sessions, Len(subs) + 1 \in Ids, NEW at \in Numbers
  PROVE  Opening(s, at) \in Seq(Events) /\ Len(Opening(s, at)) = 2
<1> DEFINE i == Len(subs) + 1
<1>1. Tell("checkout", i, Opened(s), at) \in Events /\ Tell("changed", i, Opened(s), at) \in Events
  BY OpenedTyped, TellTyped DEF EventTypes
<1> QED
  BY <1>1, Pairs DEF Opening

LEMMA TellingTyped ==
  ASSUME NEW i \in Ids, NEW sub \in Subscriptions, NEW at \in Numbers
  PROVE  Telling(i, sub, at) \in Seq(Events) /\ Len(Telling(i, sub, at)) \in {1, 2}
<1> DEFINE first == IF sub.status = "past_due" THEN <<Tell("failed", i, sub, at)>> ELSE <<>>
           last == <<Tell(IF sub.status = "canceled" THEN "deleted" ELSE "changed", i, sub, at)>>
<1>1. first \in Seq(Events) /\ Len(first) \in {0, 1}
  <2>1. Tell("failed", i, sub, at) \in Events
    BY TellTyped DEF EventTypes
  <2> QED
    BY <2>1, Pairs, EmptySeq
<1>2. last \in Seq(Events) /\ Len(last) = 1
  <2>1. Tell("deleted", i, sub, at) \in Events /\ Tell("changed", i, sub, at) \in Events
    BY TellTyped DEF EventTypes
  <2> QED
    BY <2>1, Pairs
<1>3. Telling(i, sub, at) = first \o last
  BY DEF Telling
<1> HIDE DEF first, last
<1> QED
  BY <1>1, <1>2, <1>3, ConcatProperties

LEMMA SecondsTyped == Seconds \subseteq Numbers
  BY DEF Seconds, Numbers

LEMMA EmitTyped ==
  ASSUME events \in Seq(Events), NEW told \in Seq(Events), Emit(told)
  PROVE  /\ events' \in Seq(Events) /\ Len(events') = Len(events) + Len(told) /\ Len(events') <= MaxEvents
         /\ Len(events) \in Nat /\ Len(told) \in Nat
         /\ \A k \in 1 .. Len(events) : events'[k] = events[k]
<1>1. Len(events) \in Nat /\ Len(told) \in Nat
  BY LenProperties
<1>2. events' = events \o told /\ Len(events) + Len(told) <= MaxEvents
  BY DEF Emit
<1> QED
  BY <1>1, <1>2, ConcatProperties

-----------------------------------------------------------------------------
(* Rows.                                                                     *)

LEMMA RowReadTyped ==
  ASSUME TypeOK, NEW h \in Handlers
  PROVE  RowRead(h) \in Rows
  BY Constants DEF TypeOK, RowRead, FreshRow, Rows, Requests

\* An event of a subscription gives a row its paid plan and its status.
LEMMA MirroredTyped ==
  ASSUME NEW e \in Events, NEW r \in Rows
  PROVE  /\ Mirrored(e, r) \in Rows
         /\ PlanOf(e) \in PaidPlans
         /\ IF OfSubscription(e) /\ ~Stale(e, r)
            THEN /\ Mirrored(e, r).plan = PlanOf(e) /\ Mirrored(e, r).status = e.status
                 /\ Mirrored(e, r).at = e.created
            ELSE /\ Mirrored(e, r).plan = r.plan /\ Mirrored(e, r).status = r.status
                 /\ Mirrored(e, r).at = r.at
<1>1. PlanOf(e) \in PaidPlans
  BY DEF PlanOf, Events
<1>2. CASE e.type = "checkout"
  BY <1>1, <1>2 DEF Mirrored, OfSubscription, Rows, Events
<1>3. CASE OfSubscription(e) /\ ~Stale(e, r)
  <2>1. Mirrored(e, r) = [customer |-> IF r.customer = None THEN e.customer ELSE r.customer, sub |-> e.sub,
                          plan |-> PlanOf(e), status |-> e.status, at |-> e.created]
    BY <1>3 DEF Mirrored, OfSubscription
  <2> QED
    BY <1>1, <1>3, <2>1, Constants DEF Rows, Events
<1>4. CASE e.type # "checkout" /\ ~(OfSubscription(e) /\ ~Stale(e, r))
  BY <1>1, <1>4 DEF Mirrored
<1> QED
  BY <1>2, <1>3, <1>4 DEF OfSubscription

\* The columns that an UPDATE leaves.
LEMMA UpdatedTyped ==
  ASSUME row \in Rows \cup {NoRow}, NEW was \in Rows, NEW new \in Rows
  PROVE  /\ Updated(was, new) \in Rows
         /\ row = NoRow => Updated(was, new) = new
         /\ row # NoRow => /\ Updated(was, new).plan = IF new.plan # was.plan THEN new.plan ELSE row.plan
                           /\ Updated(was, new).status = IF new.status # was.status THEN new.status ELSE row.status
                           /\ row = was => Updated(was, new) = new
<1>1. CASE row = NoRow
  BY <1>1 DEF Updated
<1>2. CASE row # NoRow
  <2> DEFINE u == [c \in DOMAIN row |-> IF new[c] # was[c] THEN new[c] ELSE row[c]]
             v == [customer |-> IF new.customer # was.customer THEN new.customer ELSE row.customer,
                   sub |-> IF new.sub # was.sub THEN new.sub ELSE row.sub,
                   plan |-> IF new.plan # was.plan THEN new.plan ELSE row.plan,
                   status |-> IF new.status # was.status THEN new.status ELSE row.status,
                   at |-> IF new.at # was.at THEN new.at ELSE row.at]
  <2>1. Updated(was, new) = u
    BY <1>2 DEF Updated
  <2>2. row \in Rows /\ DOMAIN row = {"customer", "sub", "plan", "status", "at"}
    BY <1>2 DEF Rows
  <2>3. u = v
    BY <2>2
  <2>4. v \in Rows
    BY <2>2 DEF Rows
  <2>5. row = was => v = new
    BY <2>2 DEF Rows
  <2> QED
    BY <1>2, <2>1, <2>3, <2>4, <2>5
<1> QED
  BY <1>1, <1>2

-----------------------------------------------------------------------------
(* Types of what the actions leave.                                          *)

\* What a request has still to send exists.
Told(r, n) == r.todo # <<>> /\ \A k \in DOMAIN r.todo : r.todo[k] <= n

LEMMA HandlerTyped ==
  ASSUME TypeOK, NEW h \in Handlers, NEW new \in Requests,
         Len(events') \in Nat, Len(events) <= Len(events'),
         new.pc # "idle" => Told(new, Len(events')),
         handler' = [handler EXCEPT ![h] = new]
  PROVE  /\ handler' \in [Handlers -> Requests]
         /\ \A g \in Busy' : Told(handler'[g], Len(events'))
<1>1. handler' \in [Handlers -> Requests]
  BY DEF TypeOK
<1>2. ASSUME NEW g \in Busy'
      PROVE  Told(handler'[g], Len(events'))
  <2>1. CASE g = h
    BY <1>2, <2>1 DEF Busy, TypeOK
  <2>2. CASE g # h
    <3>1. g \in Busy /\ handler'[g] = handler[g] /\ handler[g] \in Requests
      BY <1>2, <2>2 DEF Busy, TypeOK
    <3>2. /\ handler[g].todo # <<>> /\ \A k \in DOMAIN handler[g].todo : handler[g].todo[k] <= Len(events)
          /\ \A k \in DOMAIN handler[g].todo : handler[g].todo[k] \in Numbers
      <4>1. handler[g].todo \in Seq(Numbers)
        BY <3>1 DEF Requests, Numbers
      <4>2. \A k \in DOMAIN handler[g].todo : handler[g].todo[k] \in Numbers
        BY <4>1, ElementOfSeq, LenProperties
      <4> QED
        BY <3>1, <4>2 DEF TypeOK
    <3>3. Len(events) \in Nat /\ \A n \in Numbers : n \in Nat
      BY Constants, LenProperties DEF TypeOK
    <3> QED
      BY <3>1, <3>2, <3>3 DEF Told
  <2> QED
    BY <2>1, <2>2
<1> QED
  BY <1>1, <1>2

\* The event that a request is at.
LEMMA EventTyped ==
  ASSUME TypeOK, NEW h \in Handlers, handler[h].pc # "idle"
  PROVE  EventId(h) \in Numbers /\ EventId(h) \in 1 .. Len(events) /\ Event(h) \in Events
<1>1. handler[h].todo \in Seq(Numbers) /\ handler[h].todo # <<>>
      /\ \A k \in DOMAIN handler[h].todo : handler[h].todo[k] <= Len(events)
  BY DEF TypeOK, Requests, Numbers, Busy
<1>2. 1 \in 1 .. Len(handler[h].todo) /\ DOMAIN handler[h].todo = 1 .. Len(handler[h].todo)
  BY <1>1, EmptySeq, LenProperties
<1>3. EventId(h) \in Numbers /\ EventId(h) <= Len(events)
  BY <1>1, <1>2, ElementOfSeq DEF EventId
<1>4. events \in Seq(Events) /\ Len(events) \in Nat
  BY LenProperties DEF TypeOK
<1>5. EventId(h) \in 1 .. Len(events)
  BY <1>3, <1>4, Constants
<1> QED
  BY <1>3, <1>4, <1>5, ElementOfSeq DEF Event

\* A request whose event is done.
After(h) ==
  IF Len(handler[h].todo) = 1 THEN Idle
  ELSE [Idle EXCEPT !.pc = "record", !.todo = Tail(handler[h].todo)]

LEMMA DoneTyped ==
  ASSUME TypeOK, NEW h \in Handlers, handler[h].pc # "idle", Done(h)
  PROVE  /\ handler' = [handler EXCEPT ![h] = After(h)] /\ After(h) \in Requests
         /\ After(h).pc \in {"idle", "record"} /\ After(h).row = NoRow
         /\ After(h).pc # "idle" => Told(After(h), Len(events))
<1> DEFINE t == handler[h].todo
<1>1. t \in Seq(Numbers) /\ t # <<>> /\ \A k \in DOMAIN t : t[k] <= Len(events)
  BY DEF TypeOK, Requests, Numbers, Busy
<1>2. Len(t) \in Nat /\ Len(t) >= 1 /\ DOMAIN t = 1 .. Len(t)
  BY <1>1, EmptySeq, LenProperties
<1> HIDE DEF t
<1>3. /\ Tail(t) \in Seq(Numbers) /\ Len(Tail(t)) = Len(t) - 1
      /\ \A k \in 1 .. Len(Tail(t)) : Tail(t)[k] = t[k + 1]
  BY <1>1, HeadTailProperties
<1>4. DOMAIN Tail(t) = 1 .. Len(Tail(t))
  BY <1>3, LenProperties
<1>5. After(h) = IF Len(t) = 1 THEN Idle ELSE [Idle EXCEPT !.pc = "record", !.todo = Tail(t)]
  BY DEF After, t
<1>6. handler' = [handler EXCEPT ![h] = After(h)]
  BY DEF Done, After
<1>7. CASE Len(t) = 1
  BY <1>5, <1>6, <1>7, IdleTyped DEF Idle
<1>8. CASE Len(t) # 1
  <2>1. After(h) = [pc |-> "record", todo |-> Tail(t), plan |-> "free", row |-> NoRow]
    BY <1>5, <1>8 DEF Idle
  <2>2. After(h) \in Requests
    BY <1>3, <2>1, Constants DEF Requests, Numbers
  <2>3. Tail(t) # <<>>
    <3>1. Len(<<>>) = 0
      BY EmptySeq
    <3>2. Len(Tail(t)) # 0
      BY <1>2, <1>3, <1>8
    <3> QED
      BY <3>1, <3>2
  <2>4. \A k \in DOMAIN Tail(t) : Tail(t)[k] <= Len(events)
    BY <1>1, <1>2, <1>3, <1>4
  <2> QED
    BY <1>6, <2>1, <2>2, <2>3, <2>4 DEF Told
<1> QED
  BY <1>7, <1>8

LEMMA StartsFresh ==
  ASSUME NEW todo, NEW new, new = [Idle EXCEPT !.pc = "record", !.todo = todo]
  PROVE  new = [pc |-> "record", todo |-> todo, plan |-> "free", row |-> NoRow]
  BY DEF Idle

\* A request that starts with events that the provider has told.
LEMMA StartsTyped ==
  ASSUME NEW h \in Handlers, NEW todo \in Seq(Numbers), Starts(h, todo)
  PROVE  \E new \in Requests :
           /\ handler' = [handler EXCEPT ![h] = new]
           /\ new.pc = "record" /\ new.todo = todo /\ new.row = NoRow
<1> DEFINE new == [Idle EXCEPT !.pc = "record", !.todo = todo]
<1>1. new = [pc |-> "record", todo |-> todo, plan |-> "free", row |-> NoRow]
  BY StartsFresh
<1>2. handler' = [handler EXCEPT ![h] = new]
  BY DEF Starts
<1> HIDE DEF new
<1>3. new \in Requests
  BY <1>1, Constants DEF Requests, Numbers
<1> QED
  BY <1>1, <1>2, <1>3

-----------------------------------------------------------------------------
(* The type invariant.                                                       *)

\* What was told stays as it was told.
Grown == \A k \in 1 .. Len(events) : events'[k] = events[k]

ProviderTyped ==
  /\ sessions \subseteq Sessions
  /\ subs \in Seq(Subscriptions) /\ Len(subs) <= Len(events)
  /\ events \in Seq(Events) /\ Len(events) <= MaxEvents

LEMMA Lengths ==
  ASSUME TypeOK
  PROVE  /\ Len(subs) \in Nat /\ Len(events) \in Nat
         /\ \A i \in 1 .. Len(subs) : subs[i] \in Subscriptions /\ i \in Ids
<1>1. /\ subs \in Seq(Subscriptions) /\ events \in Seq(Events)
      /\ Len(subs) <= Len(events) /\ Len(events) <= MaxEvents
  BY DEF TypeOK
<1>2. Len(subs) \in Nat /\ Len(events) \in Nat
  BY <1>1, LenProperties
<1>3. \A i \in 1 .. Len(subs) : subs[i] \in Subscriptions
  BY <1>1, ElementOfSeq
<1> QED
  BY <1>1, <1>2, <1>3, Constants

\* Somebody subscribes.
LEMMA OpenTyped ==
  ASSUME TypeOK, NEW s \in sessions, NEW at \in Seconds, Emit(Opening(s, at)),
         subs' = Append(subs, Opened(s)), sessions' \subseteq sessions
  PROVE  ProviderTyped' /\ Len(events') = Len(events) + 2 /\ Grown
<1>1. Len(subs) \in Nat /\ Len(events) \in Nat /\ Len(subs) <= Len(events)
  BY Lengths DEF TypeOK
<1>2. Opening(s, at) \in Seq(Events) /\ Len(Opening(s, at)) = 2 /\ Opened(s) \in Subscriptions
  <2>1. Len(events) + Len(Opening(s, at)) <= MaxEvents /\ Len(Opening(s, at)) = 2
    BY Pairs DEF Emit, Opening
  <2>2. Len(subs) + 1 \in Ids
    BY <1>1, <2>1, Constants
  <2> QED
    BY <2>2, OpeningTyped, OpenedTyped, SecondsTyped DEF TypeOK
<1>3. events' \in Seq(Events) /\ Len(events') = Len(events) + 2 /\ Len(events') <= MaxEvents /\ Grown
  BY <1>2, EmitTyped DEF TypeOK, Grown
<1>4. subs' \in Seq(Subscriptions) /\ Len(subs') = Len(subs) + 1
  BY <1>2, AppendProperties DEF TypeOK
<1> QED
  BY <1>1, <1>3, <1>4 DEF ProviderTyped, TypeOK

\* Nothing but the provider's own state and the requests changes.
LEMMA ToldTyped ==
  ASSUME TypeOK, ProviderTyped', UNCHANGED <<kind, database>>,
         Len(events) <= Len(events'),
         handler' \in [Handlers -> Requests],
         \A g \in Busy' : Told(handler'[g], Len(events'))
  PROVE  TypeOK'
<1>1. recorded \subseteq 1 .. Len(events')
  <2>1. Len(events') \in Nat /\ Len(events) \in Nat
    BY Lengths, LenProperties DEF ProviderTyped
  <2> QED
    BY <2>1 DEF TypeOK
<1> QED
  BY <1>1 DEF TypeOK, ProviderTyped, database, Told, HasActiveSubscription

LEMMA SameHandlers ==
  ASSUME TypeOK, UNCHANGED handler, Len(events') \in Nat, Len(events) <= Len(events')
  PROVE  handler' \in [Handlers -> Requests] /\ \A g \in Busy' : Told(handler'[g], Len(events'))
<1> SUFFICES ASSUME NEW g \in Busy
             PROVE  Told(handler[g], Len(events'))
  BY DEF TypeOK, Busy
<1>1. handler[g].todo # <<>> /\ \A k \in DOMAIN handler[g].todo : handler[g].todo[k] <= Len(events)
  BY DEF TypeOK
<1>2. \A k \in DOMAIN handler[g].todo : handler[g].todo[k] \in Numbers
  <2>1. handler[g].todo \in Seq(Numbers)
    BY DEF TypeOK, Requests, Numbers, Busy
  <2> QED
    BY <2>1, ElementOfSeq, LenProperties
<1>3. Len(events) \in Nat /\ \A n \in Numbers : n \in Nat
  BY Constants, Lengths
<1> QED
  BY <1>1, <1>2, <1>3 DEF Told

LEMMA CheckoutTyped ==
  ASSUME TypeOK, NEW p \in PaidPlans, StartCheckout(p)
  PROVE  TypeOK'
<1>1. sessions' \subseteq Sessions
  BY Constants DEF TypeOK, StartCheckout, Sessions, Rows
<1>2. UNCHANGED <<kind, database, handler>> /\ ProviderTyped' /\ events' = events
  BY <1>1 DEF StartCheckout, ProviderTyped, TypeOK
<1>3. Len(events') \in Nat /\ Len(events) <= Len(events')
  BY <1>2, Lengths
<1> QED
  BY <1>2, <1>3, ToldTyped, SameHandlers

LEMMA PayTyped ==
  ASSUME TypeOK, NEW s \in sessions, Pay(s)
  PROVE  TypeOK' /\ Grown
<1>1. UNCHANGED <<kind, database, handler>> /\ ProviderTyped' /\ Len(events') = Len(events) + 2 /\ Grown
  BY OpenTyped DEF Pay
<1>2. Len(events') \in Nat /\ Len(events) <= Len(events')
  BY <1>1, Lengths
<1> QED
  BY <1>1, <1>2, ToldTyped, SameHandlers

LEMMA StandInPayTyped ==
  ASSUME TypeOK, NEW h \in Handlers, NEW s \in sessions, StandInPay(h, s)
  PROVE  TypeOK' /\ Grown
<1> DEFINE todo == <<Len(events) + 1, Len(events) + 2>>
<1>1. UNCHANGED <<kind, database>> /\ ProviderTyped' /\ Len(events') = Len(events) + 2 /\ Grown /\ Starts(h, todo)
  BY OpenTyped DEF StandInPay
<1>2. Len(events) \in Nat /\ Len(events') \in Nat /\ Len(events') <= MaxEvents
  BY <1>1, Lengths DEF ProviderTyped
<1>3. todo \in Seq(Numbers) /\ todo # <<>> /\ \A k \in DOMAIN todo : todo[k] <= Len(events')
  BY <1>1, <1>2, Constants
<1> HIDE DEF todo
<1>4. PICK new \in Requests : handler' = [handler EXCEPT ![h] = new] /\ new.pc = "record" /\ new.todo = todo
  BY <1>1, <1>3, StartsTyped
<1>5. Told(new, Len(events'))
  BY <1>3, <1>4 DEF Told
<1>7. Len(events) \in Nat /\ Len(events') \in Nat /\ Len(events) <= Len(events')
  BY <1>1, <1>2
<1>8. handler' \in [Handlers -> Requests] /\ \A g \in Busy' : Told(handler'[g], Len(events'))
  BY <1>4, <1>5, <1>7, HandlerTyped
<1> QED
  BY <1>1, <1>7, <1>8, ToldTyped

LEMMA ChangeTyped ==
  ASSUME TypeOK, NEW i \in 1 .. Len(subs), Change(i)
  PROVE  TypeOK' /\ Grown
<1>1. PICK p \in Prices, st \in Statuses, at \in Seconds :
        LET sub == [subs[i] EXCEPT !.price = p, !.status = st]
        IN  subs' = [subs EXCEPT ![i] = sub] /\ Emit(Telling(i, sub, at))
  BY DEF Change
<1> DEFINE sub == [subs[i] EXCEPT !.price = p, !.status = st]
<1>2. sub \in Subscriptions /\ i \in Ids
  <2>1. subs[i] \in Subscriptions /\ i \in Ids
    BY Lengths
  <2> QED
    BY <2>1 DEF Subscriptions
<1>3. subs' = [subs EXCEPT ![i] = sub] /\ Emit(Telling(i, sub, at))
  BY <1>1
<1> HIDE DEF sub
<1>4. Telling(i, sub, at) \in Seq(Events) /\ Len(Telling(i, sub, at)) \in {1, 2}
  BY <1>2, TellingTyped, SecondsTyped
<1>5. /\ events' \in Seq(Events) /\ Len(events') = Len(events) + Len(Telling(i, sub, at)) /\ Len(events') <= MaxEvents
      /\ Len(events) \in Nat /\ Grown
  BY <1>3, <1>4, EmitTyped DEF TypeOK, Grown
<1>6. subs' \in Seq(Subscriptions) /\ Len(subs') = Len(subs)
  BY <1>2, <1>3, ExceptSeq DEF TypeOK
<1>7. Len(events') \in Nat /\ Len(events) <= Len(events')
  BY <1>4, <1>5
<1>8. UNCHANGED <<kind, database, handler>> /\ ProviderTyped'
  <2>1. Len(subs') <= Len(events')
    BY <1>5, <1>6, <1>7, Lengths DEF TypeOK
  <2> QED
    BY <1>5, <1>6, <2>1 DEF Change, ProviderTyped, TypeOK
<1> QED
  BY <1>5, <1>7, <1>8, ToldTyped, SameHandlers

LEMMA DeliverTyped ==
  ASSUME TypeOK, NEW h \in Handlers, NEW e \in 1 .. Len(events), Deliver(h, e)
  PROVE  TypeOK'
<1>1. UNCHANGED <<kind, database, provider>> /\ Starts(h, <<e>>)
  BY DEF Deliver
<1>2. e \in Numbers /\ Len(events) \in Nat
  BY Lengths, Constants DEF TypeOK
<1>3. <<e>> \in Seq(Numbers) /\ <<e>> # <<>> /\ \A k \in DOMAIN <<e>> : <<e>>[k] <= Len(events)
  BY <1>2, Pairs
<1>4. PICK new \in Requests : handler' = [handler EXCEPT ![h] = new] /\ new.pc = "record" /\ new.todo = <<e>>
  BY <1>1, <1>3, StartsTyped
<1>5. events' = events /\ ProviderTyped'
  BY <1>1 DEF provider, ProviderTyped, TypeOK
<1>6. Told(new, Len(events'))
  BY <1>3, <1>4, <1>5 DEF Told
<1>7. Len(events) \in Nat /\ Len(events') \in Nat /\ Len(events) <= Len(events')
  BY <1>2, <1>5
<1>8. handler' \in [Handlers -> Requests] /\ \A g \in Busy' : Told(handler'[g], Len(events'))
  BY <1>4, <1>6, <1>7, HandlerTyped
<1> QED
  BY <1>1, <1>5, <1>7, <1>8, ToldTyped

LEMMA PortalTyped ==
  ASSUME TypeOK, NEW h \in Handlers, StandInPortal(h)
  PROVE  TypeOK' /\ Grown
<1>1. PICK sub \in PortalStates, at \in Seconds :
        LET told == Telling(row.sub, sub, at)
        IN  Emit(told) /\ Starts(h, [k \in 1 .. Len(told) |-> Len(events) + k])
  BY DEF StandInPortal
<1>2. row \in Rows /\ row.plan \in PaidPlans /\ row.sub \in Ids
  BY DEF StandInPortal, TypeOK, HasActiveSubscription, Rows
<1>3. sub \in Subscriptions
  <2>1. \A p \in PaidPlans, st \in Statuses :
          [price |-> p, meta |-> p, status |-> st, customer |-> row.customer] \in Subscriptions
    BY <1>2, Constants DEF Subscriptions, Rows
  <2>2. row.status \in Statuses /\ {"canceled", "past_due", "active"} \subseteq Statuses
    BY <1>2 DEF StandInPortal, HasActiveSubscription, EntitledStatuses, Statuses, Rows
  <2> QED
    BY <1>2, <2>1, <2>2 DEF PortalStates
<1> DEFINE told == Telling(row.sub, sub, at)
           todo == [k \in 1 .. Len(told) |-> Len(events) + k]
<1>4. told \in Seq(Events) /\ Len(told) \in {1, 2}
  BY <1>2, <1>3, TellingTyped, SecondsTyped
<1>5. Emit(told) /\ Starts(h, todo)
  BY <1>1
<1>6. /\ events' \in Seq(Events) /\ Len(events') = Len(events) + Len(told) /\ Len(events') <= MaxEvents
      /\ Len(events) \in Nat /\ Len(events') \in Nat /\ Grown
  <2> HIDE DEF told
  <2> QED
    BY <1>4, <1>5, EmitTyped DEF TypeOK, Grown
<1>7. todo \in Seq(Numbers) /\ todo # <<>> /\ \A k \in DOMAIN todo : todo[k] <= Len(events')
  <2> HIDE DEF told
  <2>1. todo \in [1 .. Len(told) -> Numbers] /\ Len(told) \in Nat
    BY <1>4, <1>6, Constants
  <2>2. todo \in Seq(Numbers)
    BY <2>1, SeqDef
  <2>3. todo # <<>>
    <3>1. DOMAIN todo # {}
      BY <1>4
    <3> QED
      BY <3>1
  <2> QED
    BY <1>4, <1>6, <2>2, <2>3
<1> HIDE DEF told, todo
<1>8. PICK new \in Requests : handler' = [handler EXCEPT ![h] = new] /\ new.pc = "record" /\ new.todo = todo
  BY <1>5, <1>7, StartsTyped
<1>9. Told(new, Len(events'))
  BY <1>7, <1>8 DEF Told
<1>10. Len(events) <= Len(events')
  BY <1>4, <1>6
<1>11. UNCHANGED <<kind, database>> /\ ProviderTyped'
  BY <1>6, <1>10, Lengths DEF StandInPortal, ProviderTyped, TypeOK
<1> QED
  BY <1>6, <1>8, <1>9, <1>10, <1>11, HandlerTyped, ToldTyped

\* A request goes on; what it has to send stays, or it is done with an event.
LEMMA StepTyped ==
  ASSUME TypeOK, NEW h \in Handlers, NEW new \in Requests, UNCHANGED <<kind, provider>>,
         handler' = [handler EXCEPT ![h] = new], new.pc # "idle" => Told(new, Len(events))
  PROVE  /\ ProviderTyped' /\ events' = events /\ handler' \in [Handlers -> Requests]
         /\ \A g \in Busy' : Told(handler'[g], Len(events'))
<1>1. ProviderTyped' /\ events' = events
  BY DEF provider, ProviderTyped, TypeOK
<1>2. Len(events') \in Nat /\ Len(events') = Len(events) /\ Len(events) <= Len(events')
  BY <1>1, Lengths
<1>3. new.pc # "idle" => Told(new, Len(events'))
  BY <1>2
<1> QED
  BY <1>1, <1>2, <1>3, HandlerTyped

LEMMA StillTold ==
  ASSUME TypeOK, NEW h \in Handlers, handler[h].pc # "idle", NEW new, new.todo = handler[h].todo
  PROVE  Told(new, Len(events))
  BY DEF TypeOK, Told, Busy

LEMMA RequestTyped ==
  ASSUME TypeOK, NEW h \in Handlers
  PROVE  /\ handler[h] \in Requests
         /\ \A pc \in {"record", "read", "create", "commit", "unmatched"}, p \in Plans :
              [handler[h] EXCEPT !.pc = pc, !.plan = p] \in Requests
         /\ \A pc \in {"record", "read", "create", "commit", "unmatched"}, r \in Rows \cup {NoRow} :
              [handler[h] EXCEPT !.pc = pc, !.row = r] \in Requests
         /\ \A pc \in {"record", "read", "create", "commit", "unmatched"} :
              [handler[h] EXCEPT !.pc = pc] \in Requests
<1>1. handler[h] \in Requests
  BY DEF TypeOK
<1> QED
  BY <1>1 DEF Requests

\* Steps that write nothing.
LEMMA ReadingTyped ==
  ASSUME TypeOK, NEW h \in Handlers,
         Duplicate(h) \/ Record(h) \/ ReadRow(h) \/ CreateRow(h) \/ RollBack(h) \/ RequestFails(h)
  PROVE  TypeOK'
<1>a. UNCHANGED <<kind, database, provider>>
  BY DEF Duplicate, Record, ReadRow, CreateRow, RollBack, RequestFails
<1>b. ASSUME NEW new \in Requests, handler' = [handler EXCEPT ![h] = new], new.pc # "idle" => Told(new, Len(events))
      PROVE  TypeOK'
  <2>1. /\ ProviderTyped' /\ events' = events /\ handler' \in [Handlers -> Requests]
        /\ \A g \in Busy' : Told(handler'[g], Len(events'))
    BY <1>a, <1>b, StepTyped
  <2>2. Len(events) <= Len(events')
    BY <2>1, Lengths
  <2> QED
    BY <1>a, <2>1, <2>2, ToldTyped
<1>1. CASE Duplicate(h)
  BY <1>1, <1>b, DoneTyped DEF Duplicate
<1>2. CASE Record(h)
  <2>1. PICK pc \in {"unmatched", "commit", "read"} : handler' = [handler EXCEPT ![h] = [handler[h] EXCEPT !.pc = pc, !.plan = plan]]
    BY <1>2 DEF Record
  <2>2. [handler[h] EXCEPT !.pc = pc, !.plan = plan] \in Requests /\ handler[h] \in Requests
    BY RequestTyped DEF TypeOK
  <2>3. [handler[h] EXCEPT !.pc = pc, !.plan = plan].todo = handler[h].todo
    BY <2>2 DEF Requests
  <2> QED
    BY <1>2, <1>b, <2>1, <2>2, <2>3, StillTold DEF Record
<1>3. CASE ReadRow(h)
  <2>1. PICK pc \in {"create", "commit"} : handler' = [handler EXCEPT ![h] = [handler[h] EXCEPT !.pc = pc, !.row = row]]
    BY <1>3 DEF ReadRow
  <2>2. [handler[h] EXCEPT !.pc = pc, !.row = row] \in Requests /\ handler[h] \in Requests
    BY RequestTyped DEF TypeOK
  <2>3. [handler[h] EXCEPT !.pc = pc, !.row = row].todo = handler[h].todo
    BY <2>2 DEF Requests
  <2> QED
    BY <1>3, <1>b, <2>1, <2>2, <2>3, StillTold DEF ReadRow
<1>4. CASE CreateRow(h)
  <2>1. handler' = [handler EXCEPT ![h] = [handler[h] EXCEPT !.pc = "commit"]]
    BY <1>4 DEF CreateRow, Goto
  <2>2. [handler[h] EXCEPT !.pc = "commit"] \in Requests /\ handler[h] \in Requests
    BY RequestTyped
  <2>3. [handler[h] EXCEPT !.pc = "commit"].todo = handler[h].todo
    BY <2>2 DEF Requests
  <2> QED
    BY <1>4, <1>b, <2>1, <2>2, <2>3, StillTold DEF CreateRow
<1>5. CASE RollBack(h) \/ RequestFails(h)
  BY <1>5, <1>b, IdleTyped DEF RollBack, RequestFails, Idle
<1> QED
  BY <1>1, <1>2, <1>3, <1>4, <1>5

\* What a commit writes.
Was(h) == RowRead(h)
New(h) == IF Event(h).type = "failed" THEN row ELSE Updated(Was(h), Mirrored(Event(h), Was(h)))

LEMMA CommitRow ==
  ASSUME TypeOK, PaidInv, NEW h \in Handlers, Commit(h)
  PROVE  /\ row' \in Rows \cup {NoRow}
         /\ Event(h).type # "failed" => row' # NoRow
         /\ row' # NoRow /\ row'.status # "none" => Paid(row')
         /\ Paid(row) => Paid(row')
<1> DEFINE e == Event(h)
           was == RowRead(h)
           new == Mirrored(e, was)
<1>1. exists /\ handler[h].pc = "commit" /\ row' = IF e.type = "failed" THEN row ELSE Updated(was, new)
  BY DEF Commit
<1>2. e \in Events /\ was \in Rows /\ row \in Rows \cup {NoRow}
  BY <1>1, EventTyped, RowReadTyped DEF TypeOK
<1>3. /\ new \in Rows /\ PlanOf(e) \in PaidPlans /\ PlanOf(e) # "free"
      /\ (new.plan = was.plan /\ new.status = was.status) \/ new.plan = PlanOf(e)
  BY <1>2, MirroredTyped, Constants
\* What the request has read has a paid plan only if the row has one.
<1>4. /\ was.status # "none" => was.plan # "free"
      /\ was.plan # "free" => Paid(row)
  <2>1. CASE handler[h].row = NoRow
    BY <2>1 DEF RowRead, FreshRow
  <2>2. CASE handler[h].row # NoRow
    BY <1>1, <2>2 DEF RowRead, PaidInv, Paid
  <2> QED
    BY <2>1, <2>2
<1>5. CASE e.type = "failed"
  BY <1>1, <1>2, <1>5 DEF PaidInv
<1>6. CASE e.type # "failed" /\ row = NoRow
  <2>1. row' = new
    BY <1>1, <1>2, <1>3, <1>6, UpdatedTyped
  <2> QED
    BY <1>3, <1>4, <1>6, <2>1, Constants DEF Paid
<1>7. CASE e.type # "failed" /\ row # NoRow
  <2>1. /\ row' \in Rows
        /\ row'.plan = IF new.plan # was.plan THEN new.plan ELSE row.plan
        /\ row'.status = IF new.status # was.status THEN new.status ELSE row.status
    BY <1>1, <1>2, <1>3, <1>7, UpdatedTyped
  <2>2. row' # NoRow
    BY <2>1, Constants
  <2>3. Paid(row) => Paid(row')
    BY <1>3, <2>1, <2>2 DEF Paid
  <2>4. row'.status # "none" => Paid(row')
    <3>1. row.status # "none" => Paid(row)
      BY <1>7 DEF PaidInv
    <3>2. new.status # was.status => Paid(row')
      BY <1>3, <1>4, <2>1, <2>2, <2>3 DEF Paid
    <3> QED
      BY <2>1, <2>3, <3>1, <3>2
  <2> QED
    BY <2>1, <2>2, <2>3, <2>4
<1> QED
  BY <1>5, <1>6, <1>7

LEMMA PlanTyped ==
  ASSUME TypeOK, NEW h \in Handlers, Commit(h)
  PROVE  plan' \in Plans
<1> DEFINE e == Event(h)
<1>1. e \in Events /\ PlanOf(e) \in Plans
  BY EventTyped, RowReadTyped, MirroredTyped, Constants DEF Commit
<1>2. handler[h].plan \in Plans /\ plan \in Plans
  BY DEF TypeOK, Requests
<1>3. PlanAfter(e, RowRead(h), handler[h].plan) \in Plans
  BY <1>1, <1>2, Constants DEF PlanAfter, Effective
<1> QED
  BY <1>2, <1>3 DEF Commit

\* What is recorded has been told.
LEMMA RecordedTyped ==
  ASSUME TypeOK, NEW h \in Handlers, handler[h].pc # "idle", Recorded(h), UNCHANGED <<kind, provider>>
  PROVE  /\ ProviderTyped' /\ events' = events /\ handler' \in [Handlers -> Requests]
         /\ \A g \in Busy' : Told(handler'[g], Len(events'))
         /\ recorded' \subseteq 1 .. Len(events')
         /\ applied' \in [Numbers -> Nat]
<1>1. Done(h) /\ recorded' = recorded \cup {EventId(h)} /\ applied' = [applied EXCEPT ![EventId(h)] = @ + 1]
  BY DEF Recorded
<1>2. /\ ProviderTyped' /\ events' = events /\ handler' \in [Handlers -> Requests]
      /\ \A g \in Busy' : Told(handler'[g], Len(events'))
  BY <1>1, DoneTyped, StepTyped
<1>3. EventId(h) \in Numbers /\ EventId(h) \in 1 .. Len(events)
  BY EventTyped
<1>4. recorded' \subseteq 1 .. Len(events')
  BY <1>1, <1>2, <1>3 DEF TypeOK
<1>5. applied' \in [Numbers -> Nat]
  BY <1>1, <1>3 DEF TypeOK, Numbers
<1> QED
  BY <1>2, <1>4, <1>5

LEMMA CommitTyped ==
  ASSUME TypeOK, PaidInv, NEW h \in Handlers, Commit(h) \/ CommitUnmatched(h)
  PROVE  TypeOK'
<1>1. handler[h].pc # "idle" /\ Recorded(h) /\ UNCHANGED <<kind, exists, provider>>
  BY DEF Commit, CommitUnmatched
<1>2. plan' \in Plans /\ row' \in Rows \cup {NoRow} /\ (row' # NoRow /\ row'.status # "none" => Paid(row'))
  BY CommitRow, PlanTyped DEF CommitUnmatched, TypeOK, PaidInv
<1>3. HasActiveSubscription(row)' => row'.plan \in PaidPlans
  BY <1>2 DEF HasActiveSubscription, Paid, Rows, Plans, EntitledStatuses
<1> QED
  BY <1>1, <1>2, <1>3, RecordedTyped DEF TypeOK, ProviderTyped, Told, Numbers

LEMMA DeleteTyped ==
  ASSUME TypeOK, DeleteOrg
  PROVE  TypeOK'
  BY DEF TypeOK, DeleteOrg, provider, Busy, HasActiveSubscription

LEMMA TypeKept ==
  ASSUME TypeOK, PaidInv, Next
  PROVE  TypeOK'
<1>1. ASSUME Owner PROVE TypeOK'
  BY <1>1, CheckoutTyped, PayTyped, StandInPayTyped, PortalTyped, DeleteTyped DEF Owner
<1>2. ASSUME NEW h \in Handlers, Step(h) \/ RequestFails(h) PROVE TypeOK'
  BY <1>2, ReadingTyped, CommitTyped DEF Step
<1> QED
  BY <1>1, <1>2, ChangeTyped, DeliverTyped DEF Next

LEMMA InitTyped == Init => TypeOK /\ PaidInv
<1> SUFFICES ASSUME Init PROVE TypeOK /\ PaidInv
  OBVIOUS
<1>1. handler \in [Handlers -> Requests] /\ Busy = {} /\ \A h \in Handlers : handler[h].row = NoRow
  BY IdleTyped DEF Init, Busy, Idle
<1>2. subs \in Seq(Subscriptions) /\ events \in Seq(Events) /\ Len(subs) = 0 /\ Len(events) = 0
  BY EmptySeq DEF Init
<1>3. applied \in [Numbers -> Nat]
  BY DEF Init, Numbers
<1>4. PaidInv
  BY <1>1 DEF Init, PaidInv, Paid
<1>5. sessions \subseteq Sessions /\ recorded \subseteq 1 .. Len(events) /\ row \in Rows \cup {NoRow} /\ plan \in Plans
  BY Constants DEF Init
<1>6. Len(subs) <= Len(events) /\ Len(events) <= MaxEvents
  BY <1>2, Constants
<1>7. exists \in BOOLEAN /\ ~HasActiveSubscription(row)
  BY DEF Init, HasActiveSubscription
<1>8. kind \in {"stripe", "stand-in"}
  BY KindAssumption DEF Init
<1> QED
  BY <1>1, <1>2, <1>3, <1>4, <1>5, <1>6, <1>7, <1>8 DEF TypeOK, Numbers

\* Only a commit and a deletion write the row.
LEMMA PaidHandlers ==
  ASSUME TypeOK, PaidInv, NEW h \in Handlers, NEW new, UNCHANGED <<row, exists>>,
         handler' = [handler EXCEPT ![h] = new], new.row \in {NoRow, row, handler[h].row}
  PROVE  PaidInv'
  BY DEF TypeOK, PaidInv, Paid

LEMMA PaidKept ==
  ASSUME TypeOK, PaidInv, Next
  PROVE  PaidInv'
<1>1. ASSUME UNCHANGED <<row, exists, handler>>
      PROVE  PaidInv'
  BY <1>1 DEF PaidInv, Paid
<1>2. ASSUME NEW h \in Handlers, NEW todo, Starts(h, todo), UNCHANGED <<row, exists>>
      PROVE  PaidInv'
  <2> DEFINE new == [Idle EXCEPT !.pc = "record", !.todo = todo]
  <2>1. new = [pc |-> "record", todo |-> todo, plan |-> "free", row |-> NoRow]
    BY StartsFresh
  <2>2. handler' = [handler EXCEPT ![h] = new]
    BY <1>2 DEF Starts
  <2> HIDE DEF new
  <2> QED
    BY <1>2, <2>1, <2>2, PaidHandlers
<1>3. ASSUME Owner
      PROVE  PaidInv'
  <2>1. ASSUME NEW p \in PaidPlans, StartCheckout(p) PROVE PaidInv'
    BY <1>1, <2>1 DEF StartCheckout, database
  <2>2. ASSUME NEW s \in sessions, Pay(s) PROVE PaidInv'
    BY <1>1, <2>2 DEF Pay, database
  <2>3. ASSUME NEW h \in Handlers, NEW s \in sessions, StandInPay(h, s) PROVE PaidInv'
    BY <1>2, <2>3 DEF StandInPay, database
  <2>4. ASSUME NEW h \in Handlers, StandInPortal(h) PROVE PaidInv'
    BY <1>2, <2>4 DEF StandInPortal, database
  <2>5. ASSUME DeleteOrg PROVE PaidInv'
    BY <2>5 DEF DeleteOrg, PaidInv, Paid
  <2> QED
    BY <1>3, <2>1, <2>2, <2>3, <2>4, <2>5 DEF Owner
<1>4. ASSUME NEW i \in 1 .. Len(subs), Change(i)
      PROVE  PaidInv'
  BY <1>1, <1>4 DEF Change, database
<1>5. ASSUME NEW h \in Handlers, NEW e \in 1 .. Len(events), Deliver(h, e)
      PROVE  PaidInv'
  BY <1>2, <1>5 DEF Deliver, database
<1>6. ASSUME NEW h \in Handlers, Step(h) \/ RequestFails(h)
      PROVE  PaidInv'
  <2>a. handler[h] \in Requests
    BY DEF TypeOK
  <2>1. CASE Duplicate(h)
    <3>1. handler' = [handler EXCEPT ![h] = After(h)] /\ After(h).row = NoRow /\ UNCHANGED <<row, exists>>
      BY <2>1, DoneTyped DEF Duplicate, database
    <3> QED
      BY <3>1, PaidHandlers
  <2>2. CASE Record(h)
    <3>1. PICK pc \in {"unmatched", "commit", "read"} :
            handler' = [handler EXCEPT ![h] = [handler[h] EXCEPT !.pc = pc, !.plan = plan]]
      BY <2>2 DEF Record
    <3>2. [handler[h] EXCEPT !.pc = pc, !.plan = plan].row = handler[h].row
      BY <2>a DEF Requests
    <3> QED
      BY <2>2, <3>1, <3>2, PaidHandlers DEF Record, database
  <2>3. CASE ReadRow(h)
    <3>1. PICK pc : handler' = [handler EXCEPT ![h] = [handler[h] EXCEPT !.pc = pc, !.row = row]]
      BY <2>3 DEF ReadRow
    <3>2. [handler[h] EXCEPT !.pc = pc, !.row = row].row = row
      BY <2>a DEF Requests
    <3> QED
      BY <2>3, <3>1, <3>2, PaidHandlers DEF ReadRow, database
  <2>4. CASE CreateRow(h)
    <3>1. [handler[h] EXCEPT !.pc = "commit"].row = handler[h].row
      BY <2>a DEF Requests
    <3> QED
      BY <2>4, <3>1, PaidHandlers DEF CreateRow, Goto, database
  <2>5. CASE RollBack(h) \/ RequestFails(h)
    BY <2>5, PaidHandlers DEF RollBack, RequestFails, database, Idle
  <2>6. CASE CommitUnmatched(h)
    <3>1. handler' = [handler EXCEPT ![h] = After(h)] /\ After(h).row = NoRow
      BY <2>6, DoneTyped DEF CommitUnmatched, Recorded
    <3> QED
      BY <2>6, <3>1, PaidHandlers DEF CommitUnmatched
  <2>7. CASE Commit(h)
    <3>1. handler' = [handler EXCEPT ![h] = After(h)] /\ After(h).row = NoRow /\ UNCHANGED exists
      BY <2>7, DoneTyped DEF Commit, Recorded
    <3>2. (row' # NoRow /\ row'.status # "none" => Paid(row')) /\ (Paid(row) => Paid(row'))
      BY <2>7, CommitRow
    <3>3. \A g \in Handlers : handler'[g].row = NoRow \/ handler'[g].row = handler[g].row
      BY <3>1 DEF TypeOK
    <3>4. \A r : Paid(r)' = Paid(r)
      BY DEF Paid
    <3> QED
      BY <3>1, <3>2, <3>3 DEF PaidInv, Paid
  <2> QED
    BY <1>6, <2>1, <2>2, <2>3, <2>4, <2>5, <2>6, <2>7 DEF Step
<1> QED
  BY <1>3, <1>4, <1>5, <1>6 DEF Next

LEMMA TypeAndPaid == Spec => [](TypeOK /\ PaidInv)
<1>1. TypeOK /\ PaidInv /\ [Next]_vars => (TypeOK /\ PaidInv)'
  <2>1. TypeOK /\ PaidInv /\ UNCHANGED vars => (TypeOK /\ PaidInv)'
    BY DEF vars, database, provider, TypeOK, PaidInv, Paid, HasActiveSubscription, Busy
  <2> QED
    BY <2>1, TypeKept, PaidKept
<1> QED
  BY <1>1, InitTyped, PTL DEF Spec

\* Every variable has its type; an active row has a paid plan, even when
\* overlapping transactions write it in pieces: that is what the stand-in's
\* portal relies on.
THEOREM TypeCorrect == Spec => []TypeOK
  BY TypeAndPaid, PTL

-----------------------------------------------------------------------------
(* Every event counts once.                                                  *)

\* Record apart, no step takes a request into a transaction.
LEMMA OnceOutside ==
  ASSUME TypeOK, OnceInv, NEW h \in Handlers, NEW new, UNCHANGED <<recorded, applied>>,
         handler' = [handler EXCEPT ![h] = new], new.pc \in {"idle", "record"}
  PROVE  OnceInv'
<1>1. \A g \in Handlers : InTransaction(g)' => InTransaction(g) /\ EventId(g)' = EventId(g)
  BY DEF TypeOK, InTransaction, EventId
<1>2. AppliedOnce'
  BY DEF OnceInv, AppliedOnce
<1> QED
  BY <1>1, <1>2 DEF OnceInv

LEMMA OnceInside ==
  ASSUME TypeOK, OnceInv, NEW h \in Handlers, NEW new, UNCHANGED <<recorded, applied>>,
         handler' = [handler EXCEPT ![h] = new], InTransaction(h), new.todo = handler[h].todo
  PROVE  OnceInv'
<1>1. \A g \in Handlers : InTransaction(g)' => InTransaction(g) /\ EventId(g)' = EventId(g)
  BY DEF TypeOK, InTransaction, EventId
<1>2. AppliedOnce'
  BY DEF OnceInv, AppliedOnce
<1> QED
  BY <1>1, <1>2 DEF OnceInv

LEMMA OnceSame ==
  ASSUME OnceInv, UNCHANGED <<recorded, applied, handler>>
  PROVE  OnceInv'
  BY DEF OnceInv, AppliedOnce, InTransaction, EventId

\* The only request that is at an event counts it, and records it.
LEMMA OnceRecorded ==
  ASSUME TypeOK, OnceInv, NEW h \in Handlers, InTransaction(h), Recorded(h)
  PROVE  OnceInv'
<1> DEFINE e == EventId(h)
<1>1. handler[h].pc # "idle" /\ e \in Numbers
  BY EventTyped DEF InTransaction
<1>2. recorded' = recorded \cup {e} /\ applied' = [applied EXCEPT ![e] = @ + 1]
  BY DEF Recorded
<1>3. handler' = [handler EXCEPT ![h] = After(h)] /\ After(h).pc \in {"idle", "record"}
  BY <1>1, DoneTyped DEF Recorded
<1>4. \A g \in Handlers : InTransaction(g)' => g # h /\ InTransaction(g) /\ EventId(g)' = EventId(g)
  BY <1>3 DEF TypeOK, InTransaction, EventId
<1>5. e \notin recorded /\ \A g \in Handlers : InTransaction(g) /\ g # h => EventId(g) # e
  BY DEF OnceInv
<1> HIDE DEF e
<1>6. AppliedOnce'
  <2>1. applied \in [Numbers -> Nat] /\ \A d \in Numbers : applied[d] = IF d \in recorded THEN 1 ELSE 0
    BY DEF TypeOK, OnceInv, AppliedOnce, Numbers
  <2>2. ASSUME NEW d \in Numbers
        PROVE  applied'[d] = IF d \in recorded' THEN 1 ELSE 0
    BY <1>1, <1>2, <1>5, <2>1
  <2> QED
    BY <2>2 DEF AppliedOnce, Numbers
<1> QED
  BY <1>2, <1>4, <1>5, <1>6 DEF OnceInv

LEMMA OnceKept ==
  ASSUME TypeOK, OnceInv, Next
  PROVE  OnceInv'
<1>1. ASSUME NEW h \in Handlers, NEW todo, Starts(h, todo), UNCHANGED <<recorded, applied>>
      PROVE  OnceInv'
  <2> DEFINE new == [Idle EXCEPT !.pc = "record", !.todo = todo]
  <2>1. new = [pc |-> "record", todo |-> todo, plan |-> "free", row |-> NoRow]
    BY StartsFresh
  <2>2. handler' = [handler EXCEPT ![h] = new]
    BY <1>1 DEF Starts
  <2> HIDE DEF new
  <2> QED
    BY <1>1, <2>1, <2>2, OnceOutside
<1>2. ASSUME Owner
      PROVE  OnceInv'
  <2>1. ASSUME NEW p \in PaidPlans, StartCheckout(p) PROVE OnceInv'
    BY <2>1, OnceSame DEF StartCheckout, database
  <2>2. ASSUME NEW s \in sessions, Pay(s) PROVE OnceInv'
    BY <2>2, OnceSame DEF Pay, database
  <2>3. ASSUME NEW h \in Handlers, NEW s \in sessions, StandInPay(h, s) PROVE OnceInv'
    BY <1>1, <2>3 DEF StandInPay, database
  <2>4. ASSUME NEW h \in Handlers, StandInPortal(h) PROVE OnceInv'
    BY <1>1, <2>4 DEF StandInPortal, database
  <2>5. ASSUME DeleteOrg PROVE OnceInv'
    BY <2>5, OnceSame DEF DeleteOrg
  <2> QED
    BY <1>2, <2>1, <2>2, <2>3, <2>4, <2>5 DEF Owner
<1>3. ASSUME NEW i \in 1 .. Len(subs), Change(i)
      PROVE  OnceInv'
  BY <1>3, OnceSame DEF Change, database
<1>4. ASSUME NEW h \in Handlers, NEW e \in 1 .. Len(events), Deliver(h, e)
      PROVE  OnceInv'
  BY <1>1, <1>4 DEF Deliver, database
<1>5. ASSUME NEW h \in Handlers, Step(h) \/ RequestFails(h)
      PROVE  OnceInv'
  <2>a. handler[h] \in Requests
    BY DEF TypeOK
  <2>1. CASE Duplicate(h)
    <3>1. handler' = [handler EXCEPT ![h] = After(h)] /\ After(h).pc \in {"idle", "record"} /\ UNCHANGED <<recorded, applied>>
      BY <2>1, DoneTyped DEF Duplicate, database
    <3> QED
      BY <3>1, OnceOutside
\* An insert of an event id waits for the uncommitted insert of the same id.
  <2>2. CASE Record(h)
    <3>1. PICK pc \in {"unmatched", "commit", "read"} :
            handler' = [handler EXCEPT ![h] = [handler[h] EXCEPT !.pc = pc, !.plan = plan]]
      BY <2>2 DEF Record
    <3>2. [handler[h] EXCEPT !.pc = pc, !.plan = plan].todo = handler[h].todo
      BY <2>a DEF Requests
    <3>3. /\ EventId(h) \notin recorded /\ recorded' = recorded /\ applied' = applied
          /\ \A g \in Handlers : InTransaction(g) /\ g # h => EventId(g) # EventId(h)
      BY <2>2 DEF Record, Unrecorded, database
    <3>4. \A g \in Handlers : EventId(g)' = EventId(g) /\ (g # h /\ InTransaction(g)' => InTransaction(g))
      BY <3>1, <3>2 DEF TypeOK, EventId, InTransaction
    <3>5. AppliedOnce'
      BY <3>3 DEF OnceInv, AppliedOnce
    <3> QED
      BY <3>3, <3>4, <3>5 DEF OnceInv
  <2>3. CASE ReadRow(h)
    <3>1. PICK pc \in {"create", "commit"} : handler' = [handler EXCEPT ![h] = [handler[h] EXCEPT !.pc = pc, !.row = row]]
      BY <2>3 DEF ReadRow
    <3>2. [handler[h] EXCEPT !.pc = pc, !.row = row].todo = handler[h].todo /\ InTransaction(h)
      BY <2>3, <2>a DEF Requests, ReadRow, InTransaction
    <3> QED
      BY <2>3, <3>1, <3>2, OnceInside DEF ReadRow, database
  <2>4. CASE CreateRow(h)
    <3>1. [handler[h] EXCEPT !.pc = "commit"].todo = handler[h].todo /\ InTransaction(h)
      BY <2>4, <2>a DEF Requests, CreateRow, InTransaction
    <3> QED
      BY <2>4, <3>1, OnceInside DEF CreateRow, Goto, database
  <2>5. CASE RollBack(h) \/ RequestFails(h)
    <3>1. handler' = [handler EXCEPT ![h] = Idle] /\ Idle.pc = "idle" /\ UNCHANGED <<recorded, applied>>
      BY <2>5 DEF RollBack, RequestFails, database, Idle
    <3> QED
      BY <3>1, OnceOutside
  <2>6. CASE CommitUnmatched(h) \/ Commit(h)
    BY <2>6, OnceRecorded DEF CommitUnmatched, Commit, InTransaction
  <2> QED
    BY <1>5, <2>1, <2>2, <2>3, <2>4, <2>5, <2>6 DEF Step
<1> QED
  BY <1>2, <1>3, <1>4, <1>5 DEF Next

\* An event is recorded if and only if its outcome was committed, once: however
\* often it is delivered, by however many requests, and whatever fails.
THEOREM EventsCountOnce == Spec => []AppliedOnce
<1>1. Init => OnceInv
  BY DEF Init, OnceInv, AppliedOnce, InTransaction, Idle
<1>2. TypeOK /\ OnceInv /\ [Next]_vars => OnceInv'
  <2>1. OnceInv /\ UNCHANGED vars => OnceInv'
    BY OnceSame DEF vars
  <2> QED
    BY <2>1, OnceKept
<1>3. OnceInv => AppliedOnce
  BY DEF OnceInv
<1> QED
  BY <1>1, <1>2, <1>3, TypeCorrect, PTL DEF Spec

-----------------------------------------------------------------------------
(* While requests do not overlap.                                            *)

LEMMA EventsStay ==
  ASSUME TypeOK, Next
  PROVE  Grown /\ \A h \in Handlers : handler[h].pc # "idle" => Event(h) = events'[EventId(h)]
<1>1. Grown
  <2>1. ASSUME Owner PROVE Grown
    <3>1. ASSUME NEW p \in PaidPlans, StartCheckout(p) PROVE Grown
      BY <3>1 DEF StartCheckout, Grown
    <3>2. ASSUME DeleteOrg PROVE Grown
      BY <3>2 DEF DeleteOrg, provider, Grown
    <3> QED
      BY <2>1, <3>1, <3>2, PayTyped, StandInPayTyped, PortalTyped DEF Owner
  <2>2. ASSUME NEW i \in 1 .. Len(subs), Change(i) PROVE Grown
    BY <2>2, ChangeTyped
  <2>3. ASSUME NEW h \in Handlers, Step(h) \/ RequestFails(h) \/ \E e \in 1 .. Len(events) : Deliver(h, e)
        PROVE  Grown
    BY <2>3 DEF Step, Duplicate, Record, ReadRow, CreateRow, Commit, CommitUnmatched, RollBack, RequestFails,
                Deliver, provider, Grown
  <2> QED
    BY <2>1, <2>2, <2>3 DEF Next
<1> QED
  BY <1>1, EventTyped DEF Grown, Event

\* What a request has to know of itself while no other runs.
Current(h) ==
  /\ handler[h].pc # "unmatched"
  /\ InTransaction(h) => handler[h].plan = plan
  /\ handler[h].pc \in {"create", "commit"} /\ Event(h).type # "failed" => handler[h].row = row

\* One request is left, and it is current.
LEMMA QuietOne ==
  ASSUME NEW h, Quiet' => (\A g \in Busy' : g = h) /\ (exists' /\ h \in Busy' => Current(h)')
  PROVE  QuietInv'
  BY DEF QuietInv, Current

LEMMA QuietNow ==
  ASSUME QuietInv, Quiet
  PROVE  (\A g, h \in Busy : g = h) /\ (exists => \A h \in Busy : Current(h))
  BY DEF QuietInv, Current

\* A request that starts is the only one.
LEMMA QuietStarts ==
  ASSUME TypeOK, NEW h \in Handlers, NEW todo, NEW other, handler[h].pc = "idle", Starts(h, todo),
         Happens(other \cup Overlap(h)) \/ Happens(Overlap(h) \cup other)
  PROVE  QuietInv'
<1> SUFFICES ASSUME Quiet'
             PROVE  (\A g \in Busy' : g = h) /\ (h \in Busy' => Current(h)')
  BY QuietOne
<1> DEFINE new == [Idle EXCEPT !.pc = "record", !.todo = todo]
<1>1. new = [pc |-> "record", todo |-> todo, plan |-> "free", row |-> NoRow]
  BY StartsFresh
<1>2. handler' = [handler EXCEPT ![h] = new]
  BY DEF Starts
<1> HIDE DEF new
<1>3. Busy \ {h} = {}
  BY DEF Quiet, Happens, Overlap
<1>4. \A g \in Busy' : g = h /\ handler'[g].pc = "record"
  BY <1>1, <1>2, <1>3 DEF Busy, TypeOK
<1> QED
  BY <1>4 DEF Current, InTransaction

\* A step of another kind, while at most one request runs.
LEMMA QuietElsewhere ==
  ASSUME TypeOK, QuietInv, Grown, handler' = handler, odd \subseteq odd',
         exists' => exists /\ plan' = plan /\ row' = row
  PROVE  QuietInv'
<1> SUFFICES ASSUME Quiet'
             PROVE  /\ \A g, h \in Busy' : g = h
                    /\ exists' => \A h \in Busy' : Current(h)'
  BY DEF QuietInv, Current
<1>1. Quiet /\ Busy' = Busy
  BY DEF Quiet, Busy
<1>2. \A h \in Busy : Event(h)' = Event(h)
  BY EventTyped DEF Event, EventId, Grown, Busy
<1>3. ASSUME exists', NEW h \in Busy
      PROVE  Current(h)'
  <2>1. Current(h) /\ plan' = plan /\ row' = row
    BY <1>1, <1>3, QuietNow
  <2> QED
    BY <1>2, <2>1 DEF Current, InTransaction
<1> QED
  BY <1>1, <1>3, QuietNow

\* A step of a request.
LEMMA QuietStep ==
  ASSUME TypeOK, QuietInv, NEW h \in Busy, NEW new, handler' = [handler EXCEPT ![h] = new], odd \subseteq odd',
         Quiet /\ exists' => new.pc \in {"idle", "record"} \/ Current(h)'
  PROVE  QuietInv'
<1> SUFFICES ASSUME Quiet'
             PROVE  (\A g \in Busy' : g = h) /\ (exists' /\ h \in Busy' => Current(h)')
  BY QuietOne
<1>1. Quiet
  BY DEF Quiet
<1>2. h \in Handlers /\ \A g \in Busy : g = h
  BY <1>1, QuietNow DEF Busy
<1>3. \A g \in Busy' : g = h
  BY <1>2 DEF Busy, TypeOK
<1>4. handler'[h] = new
  BY <1>2 DEF TypeOK
<1>5. new.pc \in {"idle", "record"} => Current(h)' \/ h \notin Busy'
  BY <1>4 DEF Current, InTransaction, Busy
<1> QED
  BY <1>1, <1>3, <1>5

LEMMA QuietKept ==
  ASSUME TypeOK, QuietInv, Next
  PROVE  QuietInv'
<1>a. Grown
  BY EventsStay
<1>1. ASSUME Owner
      PROVE  QuietInv'
  <2>1. ASSUME NEW p \in PaidPlans, StartCheckout(p) PROVE QuietInv'
    BY <1>a, <2>1, QuietElsewhere DEF StartCheckout, database
  <2>2. ASSUME NEW s \in sessions, Pay(s) PROVE QuietInv'
    BY <1>a, <2>2, QuietElsewhere DEF Pay, database, Happens
  <2>3. ASSUME NEW h \in Handlers, NEW s \in sessions, StandInPay(h, s) PROVE QuietInv'
    BY <2>3, QuietStarts DEF StandInPay
  <2>4. ASSUME NEW h \in Handlers, StandInPortal(h) PROVE QuietInv'
    BY <2>4, QuietStarts DEF StandInPortal
  <2>5. ASSUME DeleteOrg PROVE QuietInv'
    BY <1>a, <2>5, QuietElsewhere DEF DeleteOrg, Happens
  <2> QED
    BY <1>1, <2>1, <2>2, <2>3, <2>4, <2>5 DEF Owner
<1>2. ASSUME NEW i \in 1 .. Len(subs), Change(i)
      PROVE  QuietInv'
  BY <1>a, <1>2, QuietElsewhere DEF Change, database, Happens
<1>3. ASSUME NEW h \in Handlers, NEW e \in 1 .. Len(events), Deliver(h, e)
      PROVE  QuietInv'
  BY <1>3, QuietStarts DEF Deliver
<1>4. ASSUME NEW h \in Handlers, Step(h) \/ RequestFails(h)
      PROVE  QuietInv'
  <2>a. handler[h] \in Requests
    BY DEF TypeOK
  <2>1. CASE Duplicate(h)
    <3>1. /\ handler' = [handler EXCEPT ![h] = After(h)] /\ After(h).pc \in {"idle", "record"}
          /\ h \in Busy /\ odd' = odd
      BY <2>1, DoneTyped DEF Duplicate, Busy
    <3> QED
      BY <3>1, QuietStep
\* The transaction reads the plan; it finds the organisation if there is one.
  <2>2. CASE Record(h)
    <3> DEFINE pc == IF ~exists THEN "unmatched" ELSE IF Event(h).type = "failed" THEN "commit" ELSE "read"
               new == [handler[h] EXCEPT !.pc = pc, !.plan = plan]
    <3>1. handler' = [handler EXCEPT ![h] = new] /\ h \in Busy /\ UNCHANGED <<odd, exists, plan, row, events>>
      BY <2>2 DEF Record, Busy, database, provider
    <3>2. new.pc = pc /\ new.plan = plan /\ new.todo = handler[h].todo
      BY <2>a DEF Requests
    <3>3. Event(h)' = Event(h) /\ handler'[h] = new
      BY <3>1, <3>2 DEF Event, EventId, TypeOK
    <3> HIDE DEF new
    <3>4. exists' => Current(h)'
      BY <3>1, <3>2, <3>3 DEF Current
    <3> QED
      BY <3>1, <3>4, QuietStep
  <2>3. CASE ReadRow(h)
    <3> DEFINE pc == IF row = NoRow THEN "create" ELSE "commit"
               new == [handler[h] EXCEPT !.pc = pc, !.row = row]
    <3>1. handler' = [handler EXCEPT ![h] = new] /\ h \in Busy /\ UNCHANGED <<odd, exists, plan, row, events>>
      BY <2>3 DEF ReadRow, Busy, database, provider
    <3>2. new.pc = pc /\ new.plan = handler[h].plan /\ new.row = row
      BY <2>a DEF Requests
    <3>3. handler'[h] = new
      BY <3>1 DEF TypeOK
    <3> HIDE DEF new
    <3>4. Quiet /\ exists => handler[h].plan = plan
      BY <2>3, <3>1, QuietNow DEF Current, InTransaction, ReadRow
    <3>5. Quiet /\ exists' => Current(h)'
      BY <3>1, <3>2, <3>3, <3>4 DEF Current
    <3> QED
      BY <3>1, <3>5, QuietStep
  <2>4. CASE CreateRow(h)
    <3> DEFINE new == [handler[h] EXCEPT !.pc = "commit"]
    <3>1. handler' = [handler EXCEPT ![h] = new] /\ h \in Busy /\ UNCHANGED <<odd, exists, plan, row, events>>
      BY <2>4 DEF CreateRow, Goto, Busy, database, provider
    <3>2. new.pc = "commit" /\ new.plan = handler[h].plan /\ new.row = handler[h].row /\ new.todo = handler[h].todo
      BY <2>a DEF Requests
    <3>3. Event(h)' = Event(h) /\ handler'[h] = new
      BY <3>1, <3>2 DEF Event, EventId, TypeOK
    <3> HIDE DEF new
    <3>4. Quiet /\ exists => handler[h].plan = plan /\ (Event(h).type # "failed" => handler[h].row = row)
      BY <2>4, <3>1, QuietNow DEF Current, InTransaction, CreateRow
    <3>5. Quiet /\ exists' => Current(h)'
      BY <3>1, <3>2, <3>3, <3>4 DEF Current
    <3> QED
      BY <3>1, <3>5, QuietStep
  <2>5. CASE RollBack(h) \/ RequestFails(h)
    <3>1. handler' = [handler EXCEPT ![h] = Idle] /\ Idle.pc = "idle" /\ h \in Busy /\ odd \subseteq odd'
      BY <2>5 DEF RollBack, RequestFails, Idle, Busy, Happens
    <3> QED
      BY <3>1, QuietStep
  <2>6. CASE CommitUnmatched(h) \/ Commit(h)
    <3>1. h \in Busy /\ Recorded(h) /\ odd \subseteq odd'
      BY <2>6 DEF CommitUnmatched, Commit, Busy, Happens
    <3>2. handler' = [handler EXCEPT ![h] = After(h)] /\ After(h).pc \in {"idle", "record"}
      BY <3>1, DoneTyped DEF Recorded, Busy
    <3> QED
      BY <3>1, <3>2, QuietStep
  <2> QED
    BY <1>4, <2>1, <2>2, <2>3, <2>4, <2>5, <2>6 DEF Step
<1> QED
  BY <1>1, <1>2, <1>3, <1>4 DEF Next

\* A commit while no other request runs: the row and the plan are what the event
\* makes of the row and the plan as they are.
LEMMA QuietCommit ==
  ASSUME TypeOK, QuietInv, Quiet, NEW h \in Handlers, Commit(h)
  PROVE  LET e == Event(h)
             r == IF row = NoRow THEN FreshRow ELSE row
         IN  /\ exists /\ e \in Events /\ e = events[EventId(h)] /\ EventId(h) \in 1 .. Len(events)
             /\ recorded' = recorded \cup {EventId(h)}
             /\ plan' = PlanAfter(e, r, plan)
             /\ row' = IF e.type = "failed" THEN row ELSE Mirrored(e, r)
<1> DEFINE e == Event(h)
           r == IF row = NoRow THEN FreshRow ELSE row
           was == RowRead(h)
<1>1. exists /\ h \in Busy /\ handler[h].pc = "commit" /\ InTransaction(h)
  BY DEF Commit, Busy, InTransaction
<1>2. handler[h].plan = plan /\ (e.type # "failed" => was = r)
  BY <1>1, QuietNow DEF Current, RowRead
<1>3. e \in Events /\ was \in Rows /\ row \in Rows \cup {NoRow} /\ Mirrored(e, was) \in Rows
  BY <1>1, EventTyped, RowReadTyped, MirroredTyped DEF TypeOK
<1>4. row' = IF e.type = "failed" THEN row ELSE Updated(was, Mirrored(e, was))
  BY DEF Commit
<1>5. row' = IF e.type = "failed" THEN row ELSE Mirrored(e, r)
  BY <1>2, <1>3, <1>4, UpdatedTyped
<1>6. plan' = PlanAfter(e, r, plan)
  <2>1. e.type = "failed" => \A x : PlanAfter(e, x, plan) = plan
    BY DEF PlanAfter, OfSubscription
  <2>2. plan' = PlanAfter(e, was, plan)
    BY <1>2 DEF Commit
  <2> QED
    BY <1>2, <2>1, <2>2
<1> QED
  BY <1>1, <1>3, <1>5, <1>6, EventTyped DEF Commit, Recorded, Event

\* An event moves the row forward.
LEMMA Forward ==
  ASSUME NEW e \in Events, NEW r \in Rows
  PROVE  /\ Mirrored(e, r) \in Rows /\ Mirrored(e, r).at >= r.at
         /\ e.type = "changed" => Mirrored(e, r).at >= e.created
         /\ r = FreshRow /\ OfSubscription(e) => ~Stale(e, r)
<1>1. e.created \in Numbers /\ r.at \in Ids /\ \A n \in Ids : n \in Nat /\ n >= 0
  BY Constants DEF Events, Rows, Numbers
<1>2. OfSubscription(e) /\ ~Stale(e, r) => Mirrored(e, r).at = e.created /\ e.created >= r.at
  <2>1. ~Stale(e, r) => ~(e.created < r.at)
    BY DEF Stale
  <2> QED
    BY <1>1, <2>1, MirroredTyped DEF Numbers
<1>3. ~(OfSubscription(e) /\ ~Stale(e, r)) => Mirrored(e, r).at = r.at
  BY MirroredTyped
<1>4. e.type = "changed" /\ Stale(e, r) => e.created < r.at
  BY DEF Stale
<1>5. r = FreshRow => ~Stale(e, r)
  BY <1>1, Constants DEF Stale, FreshRow, None, Numbers
<1>6. Mirrored(e, r) \in Rows
  BY MirroredTyped
<1>7. e.type = "changed" => OfSubscription(e)
  BY DEF OfSubscription
<1> QED
  BY <1>1, <1>2, <1>3, <1>4, <1>5, <1>6, <1>7 DEF Numbers

\* What other steps keep.
LEMMA HistoryElsewhere ==
  ASSUME TypeOK, Grown, recorded' = recorded, odd \subseteq odd',
         exists' => exists /\ plan' = plan /\ row' = row
  PROVE  (RowIsOneEvent => RowIsOneEvent') /\ (NewestWins => NewestWins')
<1>1. \A e \in recorded : events'[e] = events[e]
  BY DEF TypeOK, Grown
<1>2. Quiet' /\ exists' => Quiet /\ exists
  BY DEF Quiet
<1>3. RowIsOneEvent => RowIsOneEvent'
  BY <1>1, <1>2 DEF RowIsOneEvent
<1>4. NewestWins => NewestWins'
  BY <1>1, <1>2 DEF NewestWins
<1> QED
  BY <1>3, <1>4

LEMMA CommitOneEvent ==
  ASSUME TypeOK, QuietInv, RowIsOneEvent, NEW h \in Handlers, Commit(h), Grown
  PROVE  RowIsOneEvent'
<1> SUFFICES ASSUME Quiet'
             PROVE  \/ (row' = NoRow \/ row'.at = None) /\ plan' = "free"
                    \/ row' # NoRow /\ \E d \in recorded' :
                         /\ OfSubscription(events'[d]) /\ events'[d].created = row'.at
                         /\ row'.plan = PlanOf(events'[d]) /\ row'.status = events'[d].status
                         /\ plan' = Effective(events'[d])
  BY DEF RowIsOneEvent
<1> DEFINE e == Event(h)
           r == IF row = NoRow THEN FreshRow ELSE row
<1>1. Quiet
  BY DEF Commit, Happens, Quiet
<1>2. /\ exists /\ e \in Events /\ e = events[EventId(h)] /\ EventId(h) \in 1 .. Len(events)
      /\ recorded' = recorded \cup {EventId(h)}
      /\ plan' = PlanAfter(e, r, plan)
      /\ row' = IF e.type = "failed" THEN row ELSE Mirrored(e, r)
  BY <1>1, QuietCommit
<1>3. r \in Rows
  BY Constants DEF TypeOK, FreshRow, Rows
<1>4. events' = events
  BY DEF Commit, provider
<1> HIDE DEF e, r
\* The event is what the row and the plan come from ...
<1>5. CASE OfSubscription(e) /\ ~Stale(e, r)
  <2>1. e.type # "failed" /\ Mirrored(e, r) \in Rows
    BY <1>2, <1>3, <1>5, MirroredTyped DEF OfSubscription
  <2>2. /\ row' # NoRow /\ row'.at = e.created /\ row'.plan = PlanOf(e) /\ row'.status = e.status
        /\ plan' = Effective(e)
    BY <1>2, <1>3, <1>5, <2>1, MirroredTyped, Constants DEF PlanAfter
  <2> QED
    BY <1>2, <1>4, <1>5, <2>2
\* ... or they are as they were.
<1>6. CASE ~(OfSubscription(e) /\ ~Stale(e, r))
  <2>1. plan' = plan
    BY <1>2, <1>6 DEF PlanAfter
  <2>2. /\ row' = row
        \/ /\ row' # NoRow /\ row'.plan = r.plan /\ row'.status = r.status /\ row'.at = r.at
    BY <1>2, <1>3, <1>6, MirroredTyped, Constants
  <2>3. CASE row = NoRow
    <3>1. plan = "free" /\ r.at = None
      BY <1>1, <1>2, <2>3 DEF RowIsOneEvent, r, FreshRow
    <3> QED
      BY <2>1, <2>2, <2>3, <3>1
  <2>4. CASE row # NoRow
    <3>1. r = row
      BY <2>4 DEF r
    <3>2. row' # NoRow /\ row'.plan = row.plan /\ row'.status = row.status /\ row'.at = row.at
      BY <2>2, <2>4, <3>1
    <3> QED
      BY <1>1, <1>2, <1>4, <2>1, <2>4, <3>2 DEF RowIsOneEvent
  <2> QED
    BY <2>3, <2>4
<1> QED
  BY <1>5, <1>6

LEMMA CommitNewest ==
  ASSUME TypeOK, QuietInv, NewestWins, NEW h \in Handlers, Commit(h)
  PROVE  NewestWins'
<1> SUFFICES ASSUME Quiet', NEW d \in recorded', events'[d].type = "changed"
             PROVE  row' # NoRow /\ events'[d].created <= row'.at
  BY DEF NewestWins
<1> DEFINE e == Event(h)
           r == IF row = NoRow THEN FreshRow ELSE row
<1>1. Quiet
  BY DEF Commit, Happens, Quiet
<1>2. /\ exists /\ e \in Events /\ e = events[EventId(h)] /\ EventId(h) \in 1 .. Len(events)
      /\ recorded' = recorded \cup {EventId(h)}
      /\ row' = IF e.type = "failed" THEN row ELSE Mirrored(e, r)
  BY <1>1, QuietCommit
<1>3. r \in Rows
  BY Constants DEF TypeOK, FreshRow, Rows
<1>4. events' = events
  BY DEF Commit, provider
<1>5. \A n \in Ids : n \in Nat
  BY Constants
<1>6. CASE d = EventId(h)
  <2>1. e.type = "changed" /\ events'[d] = e
    BY <1>2, <1>4, <1>6
  <2>2. row' = Mirrored(e, r) /\ row' \in Rows /\ row'.at >= e.created
    BY <1>2, <1>3, <2>1, Forward
  <2>3. e.created \in Nat /\ row'.at \in Nat
    BY <1>2, <1>5, <2>2 DEF Events, Rows
  <2> QED
    BY <2>1, <2>2, <2>3, Constants
<1>7. CASE d # EventId(h)
  <2>1. row # NoRow /\ events[d].created <= row.at /\ events[d] \in Events
    <3>1. d \in recorded /\ d \in 1 .. Len(events) /\ events \in Seq(Events)
      BY <1>2, <1>7 DEF TypeOK
    <3>2. events[d] \in Events
      BY <3>1, ElementOfSeq
    <3> QED
      BY <1>1, <1>2, <1>4, <3>1, <3>2 DEF NewestWins
  <2>2. r = row
    BY <2>1
  <2>3. row' \in Rows /\ row'.at >= row.at
    <3>1. CASE e.type = "failed"
      BY <1>2, <1>3, <1>5, <2>2, <3>1 DEF Rows
    <3>2. CASE e.type # "failed"
      BY <1>2, <1>3, <2>2, <3>2, Forward
    <3> QED
      BY <3>1, <3>2
  <2>4. events[d].created \in Nat /\ row.at \in Nat /\ row'.at \in Nat
    BY <1>3, <1>5, <2>1, <2>2, <2>3 DEF Events, Rows
  <2> QED
    BY <1>4, <2>1, <2>3, <2>4, Constants
<1> QED
  BY <1>6, <1>7

LEMMA HistoryKept ==
  ASSUME TypeOK, QuietInv, RowIsOneEvent, NewestWins, Next
  PROVE  RowIsOneEvent' /\ NewestWins'
<1>a. Grown
  BY EventsStay
<1>1. ASSUME Owner
      PROVE  RowIsOneEvent' /\ NewestWins'
  <2>1. ASSUME NEW p \in PaidPlans, StartCheckout(p) PROVE RowIsOneEvent' /\ NewestWins'
    BY <1>a, <2>1, HistoryElsewhere DEF StartCheckout, database
  <2>2. ASSUME NEW s \in sessions, Pay(s) PROVE RowIsOneEvent' /\ NewestWins'
    BY <1>a, <2>2, HistoryElsewhere DEF Pay, database, Happens
  <2>3. ASSUME NEW h \in Handlers, NEW s \in sessions, StandInPay(h, s) PROVE RowIsOneEvent' /\ NewestWins'
    BY <1>a, <2>3, HistoryElsewhere DEF StandInPay, database, Happens
  <2>4. ASSUME NEW h \in Handlers, StandInPortal(h) PROVE RowIsOneEvent' /\ NewestWins'
    BY <1>a, <2>4, HistoryElsewhere DEF StandInPortal, database, Happens
  <2>5. ASSUME DeleteOrg PROVE RowIsOneEvent' /\ NewestWins'
    BY <1>a, <2>5, HistoryElsewhere DEF DeleteOrg, Happens
  <2> QED
    BY <1>1, <2>1, <2>2, <2>3, <2>4, <2>5 DEF Owner
<1>2. ASSUME NEW i \in 1 .. Len(subs), Change(i)
      PROVE  RowIsOneEvent' /\ NewestWins'
  BY <1>a, <1>2, HistoryElsewhere DEF Change, database, Happens
<1>3. ASSUME NEW h \in Handlers, NEW e \in 1 .. Len(events), Deliver(h, e)
      PROVE  RowIsOneEvent' /\ NewestWins'
  BY <1>a, <1>3, HistoryElsewhere DEF Deliver, database, Happens
<1>4. ASSUME NEW h \in Handlers, Duplicate(h) \/ Record(h) \/ ReadRow(h) \/ CreateRow(h) \/ RollBack(h) \/ RequestFails(h)
      PROVE  RowIsOneEvent' /\ NewestWins'
  BY <1>a, <1>4, HistoryElsewhere
  DEF Duplicate, Record, ReadRow, CreateRow, RollBack, RequestFails, database, Happens
<1>5. ASSUME NEW h \in Handlers, Commit(h)
      PROVE  RowIsOneEvent' /\ NewestWins'
  BY <1>a, <1>5, CommitOneEvent, CommitNewest
\* No organisation matches only when there is none.
<1>6. ASSUME NEW h \in Handlers, CommitUnmatched(h)
      PROVE  RowIsOneEvent' /\ NewestWins'
  <2>1. Quiet' => ~exists'
    <3>1. h \in Busy /\ odd' = odd /\ exists' = exists /\ handler[h].pc = "unmatched"
      BY <1>6 DEF CommitUnmatched, Busy
    <3>2. Quiet => ~exists
      BY <3>1, QuietNow DEF Current
    <3> QED
      BY <3>1, <3>2 DEF Quiet
  <2> QED
    BY <2>1 DEF RowIsOneEvent, NewestWins
<1> QED
  BY <1>1, <1>2, <1>3, <1>4, <1>5, <1>6 DEF Next, Step

LEMMA QuietHistory == Spec => [](QuietInv /\ RowIsOneEvent /\ NewestWins)
<1>1. Init => QuietInv /\ RowIsOneEvent /\ NewestWins
  <2> SUFFICES ASSUME Init PROVE QuietInv /\ RowIsOneEvent /\ NewestWins
    OBVIOUS
  <2>1. Busy = {}
    BY DEF Init, Busy, Idle
  <2> QED
    BY <2>1 DEF Init, QuietInv, RowIsOneEvent, NewestWins
<1>2. /\ TypeOK /\ QuietInv /\ RowIsOneEvent /\ NewestWins /\ [Next]_vars
      => (QuietInv /\ RowIsOneEvent /\ NewestWins)'
  <2>1. /\ UNCHANGED vars /\ QuietInv /\ RowIsOneEvent /\ NewestWins
        => (QuietInv /\ RowIsOneEvent /\ NewestWins)'
    BY DEF vars, database, provider, QuietInv, RowIsOneEvent, NewestWins, Quiet, Busy, InTransaction, Event, EventId
  <2> QED
    BY <2>1, QuietKept, HistoryKept
<1> QED
  BY <1>1, <1>2, TypeCorrect, PTL DEF Spec

\* While requests do not overlap the row is what one recorded event told, and
\* organizations.plan is what that event entitles to, in whatever order events
\* come, however often, and whatever fails.
THEOREM OneEventTold == Spec => []RowIsOneEvent
  BY QuietHistory, PTL

\* While requests do not overlap no change that was taken in is newer than the row.
THEOREM TheNewestWins == Spec => []NewestWins
  BY QuietHistory, PTL

-----------------------------------------------------------------------------
(* When everything is delivered.                                             *)

\* `told` tells of subscription i only, and ends with the state of it.
Tells(told, i, sub, at) ==
  /\ Len(told) \in {1, 2}
  /\ \A k \in 1 .. Len(told) :
       told[k].sub = i /\ told[k].created = at /\ (k # Len(told) => ~OfSubscription(told[k]))
  /\ LET last == told[Len(told)]
     IN  OfSubscription(last) /\ last.price = sub.price /\ last.meta = sub.meta /\ last.status = sub.status

LEMMA OpeningTells ==
  ASSUME NEW s, NEW at
  PROVE  Tells(Opening(s, at), Len(subs) + 1, Opened(s), at)
<1> DEFINE i == Len(subs) + 1
           a == Tell("checkout", i, Opened(s), at)
           b == Tell("changed", i, Opened(s), at)
<1>1. Opening(s, at) = <<a, b>>
  BY DEF Opening
<1>2. /\ a.type = "checkout" /\ a.sub = i /\ a.created = at
      /\ b.type = "changed" /\ b.sub = i /\ b.created = at
      /\ b.price = Opened(s).price /\ b.meta = Opened(s).meta /\ b.status = Opened(s).status
  BY DEF Tell
<1> HIDE DEF a, b, i
<1>3. Len(<<a, b>>) = 2 /\ <<a, b>>[1] = a /\ <<a, b>>[2] = b
  OBVIOUS
<1>4. Tells(<<a, b>>, i, Opened(s), at)
  BY <1>2, <1>3 DEF Tells, OfSubscription
<1> QED
  BY <1>1, <1>4 DEF i

LEMMA TellingTells ==
  ASSUME NEW i, NEW sub, NEW at
  PROVE  Tells(Telling(i, sub, at), i, sub, at)
<1> DEFINE a == Tell("failed", i, sub, at)
           b == Tell(IF sub.status = "canceled" THEN "deleted" ELSE "changed", i, sub, at)
<1>1. Telling(i, sub, at) = IF sub.status = "past_due" THEN <<a>> \o <<b>> ELSE <<>> \o <<b>>
  BY DEF Telling
<1>2. /\ a.type = "failed" /\ a.sub = i /\ a.created = at
      /\ b.type \in {"changed", "deleted"} /\ b.sub = i /\ b.created = at
      /\ b.price = sub.price /\ b.meta = sub.meta /\ b.status = sub.status
  BY DEF Tell
<1> HIDE DEF a, b
<1>3. /\ <<a>> \in Seq({a, b}) /\ Len(<<a>>) = 1 /\ <<a>>[1] = a
      /\ <<b>> \in Seq({a, b}) /\ Len(<<b>>) = 1 /\ <<b>>[1] = b
  OBVIOUS
<1>4. /\ Len(<<a>> \o <<b>>) = 2 /\ (<<a>> \o <<b>>)[1] = a /\ (<<a>> \o <<b>>)[2] = b
      /\ <<>> \o <<b>> = <<b>>
  <2> DEFINE f == <<a>>
             g == <<b>>
  <2>1. f \in Seq({a, b}) /\ Len(f) = 1 /\ f[1] = a /\ g \in Seq({a, b}) /\ Len(g) = 1 /\ g[1] = b
    BY <1>3
  <2> HIDE DEF f, g
  <2>2. /\ Len(f \o g) = Len(f) + Len(g)
        /\ \A k \in 1 .. Len(f) : (f \o g)[k] = f[k]
        /\ \A k \in Len(f) + 1 .. Len(f) + Len(g) : (f \o g)[k] = g[k - Len(f)]
        /\ <<>> \o g = g
    BY <2>1, ConcatProperties, ConcatEmptySeq
  <2>3. Len(f \o g) = 2 /\ (f \o g)[1] = a /\ (f \o g)[2] = b
    BY <2>1, <2>2
  <2> QED
    BY <2>2, <2>3 DEF f, g
<1>5. ASSUME NEW t, (Len(t) = 2 /\ t[1] = a /\ t[2] = b) \/ (Len(t) = 1 /\ t[1] = b)
      PROVE  Tells(t, i, sub, at)
  BY <1>2, <1>5 DEF Tells, OfSubscription
<1>6. Tells(<<a>> \o <<b>>, i, sub, at) /\ Tells(<<>> \o <<b>>, i, sub, at)
  BY <1>3, <1>4, <1>5, Zenon
<1> QED
  BY <1>1, <1>6

LEMMA LastSecondTyped ==
  ASSUME TypeOK
  PROVE  /\ LastSecond \in Nat
         /\ \A k \in 1 .. Len(events) : events[k] \in Events /\ events[k].created \in Nat /\ events[k].sub \in Nat
         /\ events # <<>> => LastSecond = events[Len(events)].created /\ Len(events) \in 1 .. Len(events)
<1>1. events \in Seq(Events) /\ Len(events) \in Nat /\ (events # <<>> => Len(events) # 0)
  BY Lengths, EmptySeq DEF TypeOK
<1>2. \A k \in 1 .. Len(events) : events[k] \in Events
  BY <1>1, ElementOfSeq
<1>3. \A e \in Events : e.created \in Nat /\ e.sub \in Nat
  BY Constants DEF Events
<1>4. events # <<>> => Len(events) \in 1 .. Len(events)
  BY <1>1
<1> QED
  BY <1>2, <1>3, <1>4 DEF LastSecond

\* The provider tells more, in a later second.
LEMMA TellingMore ==
  ASSUME TypeOK, ToldInOrder, RowInOrder, NEW told \in Seq(Events), NEW i \in Nat, NEW sub, NEW at \in Seconds,
         Tells(told, i, sub, at), Emit(told), at # LastSecond,
         subs' \in Seq(Subscriptions), Len(subs') = i, Len(subs) <= i, i # 0, subs'[i] = sub,
         UNCHANGED <<row, plan, recorded>>
  PROVE  ToldInOrder' /\ RowInOrder'
<1> DEFINE n == Len(events)
           m == Len(told)
<1>0. m = 1 \/ m = 2
  BY DEF Tells
<1>1. n \in Nat /\ Len(subs) \in Nat /\ LastSecond \in Nat /\ m \in Nat /\ m > 0 /\ (m = 1 \/ m = 2)
  <2>1. n \in Nat /\ Len(subs) \in Nat /\ LastSecond \in Nat
    BY Lengths, LastSecondTyped
  <2>2. m \in Nat /\ m > 0
    <3> HIDE DEF m
    <3> QED
      BY <1>0
  <2> QED
    BY <1>0, <2>1, <2>2
<1>b. /\ Tells(told, i, sub, at) <=>
           /\ \A k \in 1 .. m :
                told[k].sub = i /\ told[k].created = at /\ (k # m => ~OfSubscription(told[k]))
           /\ OfSubscription(told[m]) /\ told[m].price = sub.price /\ told[m].meta = sub.meta
           /\ told[m].status = sub.status
  BY <1>0 DEF Tells
<1>2. events' = events \o told /\ events' \in Seq(Events) /\ Len(events') = n + m
  BY EmitTyped DEF Emit, TypeOK
<1>3. /\ \A k \in 1 .. n : events'[k] = events[k]
      /\ \A k \in (n + 1) .. (n + m) : events'[k] = told[k - n]
  <2>1. events \in Seq(Events) /\ told \in Seq(Events)
    BY DEF TypeOK
  <2> QED
    BY <1>1, <1>2, <2>1, ConcatProperties
<1>4. at \in Nat /\ at > LastSecond
  BY <1>1 DEF Seconds
<1>5. events' # <<>> /\ subs' # <<>> /\ DOMAIN events' = 1 .. (n + m) /\ DOMAIN events = 1 .. n
  <2>1. Len(<<>>) = 0
    BY EmptySeq
  <2>2. n + m # 0
    BY <1>1
  <2>3. DOMAIN events' = 1 .. Len(events') /\ DOMAIN events = 1 .. Len(events)
    BY <1>2, LenProperties DEF TypeOK
  <2> QED
    BY <1>2, <2>1, <2>2, <2>3
<1>6. LastSecond' = at
  <2>1. events'[n + m] = told[m]
    BY <1>1, <1>3
  <2>2. told[m].created = at
    BY <1>1 DEF Tells
  <2> QED
    BY <1>2, <1>5, <2>1, <2>2 DEF LastSecond
<1>7. ASSUME NEW k \in 1 .. (n + m)
      PROVE  /\ events'[k].sub <= i /\ events'[k].created <= at
             /\ k # n + m /\ OfSubscription(events'[k]) => events'[k].created < at
  <2>1. CASE k \in 1 .. n
    <3>1. /\ events[k].sub <= Len(subs) /\ events[k].created <= LastSecond
          /\ events[k].sub \in Nat /\ events[k].created \in Nat
      BY <1>5, <2>1, LastSecondTyped DEF ToldInOrder
    <3> QED
      BY <1>1, <1>3, <1>4, <2>1, <3>1
  <2>2. CASE k \in (n + 1) .. (n + m)
    <3>1. k - n \in 1 .. m /\ events'[k] = told[k - n] /\ (k # n + m => k - n # m)
      BY <1>1, <1>3, <2>2
    <3>2. /\ told[k - n].sub = i /\ told[k - n].created = at
          /\ k - n # m => ~OfSubscription(told[k - n])
      BY <3>1 DEF Tells
    <3> QED
      BY <1>4, <3>1, <3>2
  <2> QED
    BY <1>1, <2>1, <2>2
<1>8. LET last == events'[Len(events')]
      IN  /\ OfSubscription(last) /\ last.sub = i
          /\ last.price = sub.price /\ last.meta = sub.meta /\ last.status = sub.status
  <2>1. events'[Len(events')] = told[m] /\ m \in 1 .. m
    BY <1>1, <1>2, <1>3
  <2> QED
    BY <2>1 DEF Tells
<1>9. ToldInOrder'
  BY <1>2, <1>5, <1>6, <1>7, <1>8 DEF ToldInOrder, OfSubscription
<1>10. Len(events') \notin recorded'
  BY <1>1, <1>2 DEF TypeOK
<1>11. row # NoRow => row.sub <= i /\ row.at <= at
  <2>1. row # NoRow => row.sub \in Nat /\ row.at \in Nat
    BY Constants DEF TypeOK, Rows
  <2> QED
    BY <1>1, <1>4, <2>1 DEF RowInOrder
<1>12. RowInOrder'
  BY <1>6, <1>10, <1>11 DEF RowInOrder
<1> QED
  BY <1>9, <1>12

LEMMA PaySettled ==
  ASSUME TypeOK, SettledInv, NEW s \in sessions, Pay(s), Plain'
  PROVE  OneAtATime' /\ ToldInOrder' /\ RowInOrder'
<1>1. PICK at \in Seconds :
        /\ Emit(Opening(s, at))
        /\ Happens(Tie(at) \cup IF Live = {} THEN {} ELSE {"parallel"})
  BY DEF Pay
<1>2. Plain /\ Live = {} /\ at # LastSecond
  BY <1>1 DEF Pay, database, Plain, Happens, Tie
<1> DEFINE i == Len(subs) + 1
<1>3. ProviderTyped' /\ Len(events') = Len(events) + 2
  BY <1>1, OpenTyped DEF Pay
<1>4. Len(subs) \in Nat /\ Len(events) \in Nat /\ Len(subs) <= Len(events) /\ subs \in Seq(Subscriptions)
  BY Lengths DEF TypeOK
<1>5. i \in Ids
  <2>1. Len(events) + 2 <= MaxEvents
    BY <1>3 DEF ProviderTyped
  <2> QED
    BY <1>4, <2>1, Constants
<1>6. Opening(s, at) \in Seq(Events) /\ Opened(s) \in Subscriptions
  BY <1>5, OpeningTyped, OpenedTyped, SecondsTyped DEF TypeOK
<1>7. /\ subs' \in Seq(Subscriptions) /\ Len(subs') = i /\ subs'[i] = Opened(s)
      /\ \A k \in 1 .. Len(subs) : subs'[k] = subs[k]
  BY <1>4, <1>6, AppendProperties DEF Pay
<1>8. ToldInOrder' /\ RowInOrder'
  <2>1. Tells(Opening(s, at), i, Opened(s), at)
    BY OpeningTells
  <2>2. i \in Nat /\ Len(subs) <= i /\ i # 0
    BY <1>4
  <2>3. UNCHANGED <<row, plan, recorded>> /\ ToldInOrder /\ RowInOrder
    BY <1>2 DEF Pay, database, SettledInv
  <2> HIDE DEF i
  <2> QED
    BY <1>1, <1>2, <1>6, <1>7, <2>1, <2>2, <2>3, TellingMore
<1>9. OneAtATime'
  BY <1>2, <1>4, <1>7 DEF OneAtATime, Live
<1> QED
  BY <1>8, <1>9

LEMMA ChangeSettled ==
  ASSUME TypeOK, SettledInv, NEW i \in 1 .. Len(subs), Change(i), Plain'
  PROVE  OneAtATime' /\ ToldInOrder' /\ RowInOrder'
<1>1. PICK p \in Prices, st \in Statuses, at \in Seconds :
        LET sub == [subs[i] EXCEPT !.price = p, !.status = st]
        IN  subs' = [subs EXCEPT ![i] = sub] /\ Emit(Telling(i, sub, at)) /\ Happens(Tie(at))
  BY DEF Change
<1> DEFINE sub == [subs[i] EXCEPT !.price = p, !.status = st]
<1>2. subs' = [subs EXCEPT ![i] = sub] /\ Emit(Telling(i, sub, at)) /\ Happens(Tie(at))
  BY <1>1
<1>3. sub \in Subscriptions /\ i \in Ids /\ Len(subs) \in Nat /\ subs \in Seq(Subscriptions)
  <2>1. subs[i] \in Subscriptions /\ i \in Ids /\ Len(subs) \in Nat
    BY Lengths
  <2> QED
    BY <2>1 DEF Subscriptions, TypeOK
<1> HIDE DEF sub
<1>4. Plain /\ at # LastSecond
  BY <1>2 DEF Change, database, Plain, Happens, Tie
\* It is the last subscription, the others have ended.
<1>5. i = Len(subs)
  BY <1>4 DEF Change, SettledInv, OneAtATime
<1>6. /\ subs' \in Seq(Subscriptions) /\ Len(subs') = i /\ subs'[i] = sub
      /\ \A k \in 1 .. Len(subs) : k # i => subs'[k] = subs[k]
  BY <1>2, <1>3, <1>5, ExceptSeq DEF TypeOK
<1>7. ToldInOrder' /\ RowInOrder'
  <2>1. Tells(Telling(i, sub, at), i, sub, at)
    BY TellingTells
  <2>2. i \in Nat /\ Len(subs) <= i /\ i # 0
    BY <1>3, <1>5
  <2>3. UNCHANGED <<row, plan, recorded>> /\ ToldInOrder /\ RowInOrder
    BY <1>4 DEF Change, database, SettledInv
  <2>4. Telling(i, sub, at) \in Seq(Events)
    BY <1>3, TellingTyped, SecondsTyped
  <2> QED
    BY <1>2, <1>4, <1>6, <2>1, <2>2, <2>3, <2>4, TellingMore
<1>8. OneAtATime'
  BY <1>4, <1>5, <1>6 DEF OneAtATime, Live, SettledInv
<1> QED
  BY <1>7, <1>8

LEMMA MirroredSub ==
  ASSUME NEW e \in Events, NEW r \in Rows
  PROVE  Mirrored(e, r).sub \in {e.sub, r.sub} /\ Mirrored(e, r).at \in {e.created, r.at}
  BY DEF Mirrored, Events, Rows, OfSubscription

\* The last event of a subscription is never stale, unless its end is skipped.
LEMMA CommitSettled ==
  ASSUME TypeOK, QuietInv, SettledInv, NEW h \in Handlers, Commit(h), Plain'
  PROVE  RowInOrder'
<1> DEFINE e == Event(h)
           r == IF row = NoRow THEN FreshRow ELSE row
           n == EventId(h)
           last == Len(events)
<1>1. Plain /\ Quiet /\ ToldInOrder /\ RowInOrder
  BY DEF Commit, Happens, Plain, Quiet, SettledInv
<1>2. /\ exists /\ e \in Events /\ e = events[n] /\ n \in 1 .. last
      /\ recorded' = recorded \cup {n}
      /\ plan' = PlanAfter(e, r, plan)
      /\ row' = IF e.type = "failed" THEN row ELSE Mirrored(e, r)
  BY <1>1, QuietCommit
<1>3. e.type # "failed" => SkippedEnd(e, r) = {}
  <2>1. h \in Busy /\ handler[h].pc = "commit" /\ Happens(SkippedEnd(e, RowRead(h)))
    BY DEF Commit, Busy
  <2>2. e.type # "failed" => RowRead(h) = r
    BY <1>1, <1>2, <2>1, QuietNow DEF Current, RowRead
  <2> QED
    BY <2>1, <2>2 DEF Happens, Plain, SkippedEnd
<1>4. r \in Rows /\ Mirrored(e, r) \in Rows /\ \A x \in Rows : x.sub \in Nat /\ x.at \in Nat
  <2>1. r \in Rows
    BY Constants DEF TypeOK, FreshRow, Rows
  <2> QED
    BY <1>2, <2>1, MirroredTyped, Constants DEF Rows
<1>5. /\ events' = events /\ subs' = subs /\ LastSecond' = LastSecond
      /\ LastSecond \in Nat /\ Len(subs) \in Nat /\ last \in Nat /\ DOMAIN events = 1 .. last
  BY Lengths, LastSecondTyped, LenProperties DEF Commit, provider, LastSecond, TypeOK
<1>6. r.sub <= Len(subs) /\ r.at <= LastSecond
  BY <1>1, <1>5 DEF RowInOrder, FreshRow, None
<1>7. /\ e.sub <= Len(subs) /\ e.created <= LastSecond /\ e.sub \in Nat /\ e.created \in Nat
      /\ n # last /\ OfSubscription(e) => e.created < LastSecond
      /\ n = last => OfSubscription(e) /\ e.sub = Len(subs) /\ e.created = LastSecond
  <2>1. events # <<>>
    BY <1>2, <1>5
  <2> QED
    BY <1>1, <1>2, <1>5, <2>1, LastSecondTyped DEF ToldInOrder
<1> HIDE DEF e, r, n, last
<1>8. row' # NoRow => row'.sub <= Len(subs) /\ row'.at <= LastSecond
  <2>1. CASE e.type = "failed"
    BY <1>1, <1>2, <2>1 DEF RowInOrder
  <2>2. CASE e.type # "failed"
    <3>1. row' = Mirrored(e, r)
      BY <1>2, <2>2
    <3> QED
      BY <1>2, <1>4, <1>6, <1>7, <3>1, MirroredSub
  <2> QED
    BY <2>1, <2>2
<1>9. ASSUME last \in recorded'
      PROVE  row' # NoRow /\ row'.at = LastSecond /\ plan' = Effective(events[last])
  <2>1. CASE n = last
    <3>1. OfSubscription(e) /\ e.type # "failed" /\ e.created = LastSecond /\ e.sub = Len(subs)
      BY <1>7, <2>1 DEF OfSubscription
    <3>2. ~(e.created < r.at)
      BY <1>4, <1>5, <1>6, <3>1
    <3>3. ~(e.type = "deleted" /\ r.sub # None /\ e.sub # r.sub)
      <4>1. e.sub # r.sub => e.sub > r.sub
        BY <1>4, <1>5, <1>6, <3>1
      <4> QED
        BY <1>3, <3>1, <4>1 DEF SkippedEnd
    <3>4. ~Stale(e, r)
      BY <3>2, <3>3 DEF Stale
    <3>5. row' = Mirrored(e, r) /\ row'.at = e.created
      BY <1>2, <1>4, <3>1, <3>4, MirroredTyped
    <3> QED
      BY <1>2, <1>4, <2>1, <3>1, <3>4, <3>5, Constants DEF PlanAfter
  <2>2. CASE n # last
    <3>1. row # NoRow /\ row.at = LastSecond /\ plan = Effective(events[last]) /\ r = row
      BY <1>1, <1>2, <1>9, <2>2 DEF RowInOrder, last, r
    <3>2. OfSubscription(e) => Stale(e, r)
      BY <1>7, <2>2, <3>1 DEF Stale
    <3>3. plan' = plan
      BY <1>2, <3>2 DEF PlanAfter
    <3>4. Mirrored(e, r).at = r.at
      BY <1>2, <1>4, <3>2, MirroredTyped
    <3>5. row' # NoRow /\ row'.at = LastSecond
      BY <1>2, <1>4, <3>1, <3>4, Constants
    <3> QED
      BY <3>1, <3>3, <3>5
  <2> QED
    BY <2>1, <2>2
<1>10. (Len(events) \in recorded)' => last \in recorded'
  BY <1>5 DEF last
<1> QED
  BY <1>5, <1>8, <1>9, <1>10 DEF RowInOrder, last

\* What SettledInv is about stays.
LEMMA SettledElsewhere ==
  ASSUME SettledInv, UNCHANGED <<kind, subs, events>>, odd \subseteq odd',
         exists' => exists /\ plan' = plan /\ row' = row /\ recorded' = recorded
  PROVE  SettledInv'
<1> SUFFICES ASSUME Plain' PROVE (OneAtATime /\ ToldInOrder /\ RowInOrder)'
  BY DEF SettledInv
<1>1. Plain /\ UNCHANGED <<plan, row, recorded>>
  BY DEF Plain
<1>2. OneAtATime /\ ToldInOrder /\ RowInOrder
  BY <1>1 DEF SettledInv
<1> QED
  BY <1>1, <1>2 DEF OneAtATime, Live, ToldInOrder, RowInOrder, LastSecond

LEMMA SettledKept ==
  ASSUME TypeOK, QuietInv, SettledInv, Next
  PROVE  SettledInv'
<1>1. ASSUME Owner
      PROVE  SettledInv'
  <2>1. ASSUME NEW p \in PaidPlans, StartCheckout(p) PROVE SettledInv'
    BY <2>1, SettledElsewhere DEF StartCheckout, database
  <2>2. ASSUME NEW s \in sessions, Pay(s) PROVE SettledInv'
    BY <2>2, PaySettled DEF SettledInv
  <2>3. ASSUME NEW h \in Handlers, NEW s \in sessions, StandInPay(h, s) PROVE SettledInv'
    BY <2>3 DEF StandInPay, SettledInv, Plain
  <2>4. ASSUME NEW h \in Handlers, StandInPortal(h) PROVE SettledInv'
    BY <2>4 DEF StandInPortal, SettledInv, Plain
  <2>5. ASSUME DeleteOrg PROVE SettledInv'
    BY <2>5 DEF DeleteOrg, SettledInv, Plain
  <2> QED
    BY <1>1, <2>1, <2>2, <2>3, <2>4, <2>5 DEF Owner
<1>2. ASSUME NEW i \in 1 .. Len(subs), Change(i)
      PROVE  SettledInv'
  BY <1>2, ChangeSettled DEF SettledInv
<1>3. ASSUME NEW h \in Handlers, NEW e \in 1 .. Len(events), Deliver(h, e)
      PROVE  SettledInv'
  BY <1>3, SettledElsewhere DEF Deliver, database, provider, Happens
<1>4. ASSUME NEW h \in Handlers, Duplicate(h) \/ Record(h) \/ ReadRow(h) \/ CreateRow(h) \/ RollBack(h) \/ RequestFails(h)
      PROVE  SettledInv'
  BY <1>4, SettledElsewhere
  DEF Duplicate, Record, ReadRow, CreateRow, RollBack, RequestFails, database, provider, Happens
<1>5. ASSUME NEW h \in Handlers, Commit(h)
      PROVE  SettledInv'
  <2> SUFFICES ASSUME Plain' PROVE (OneAtATime /\ ToldInOrder /\ RowInOrder)'
    BY DEF SettledInv
  <2>1. Plain /\ OneAtATime /\ ToldInOrder
    BY <1>5 DEF Commit, Happens, Plain, SettledInv
  <2>2. OneAtATime' /\ ToldInOrder'
    BY <1>5, <2>1 DEF Commit, provider, OneAtATime, Live, ToldInOrder, LastSecond
  <2> QED
    BY <1>5, <2>2, CommitSettled
\* No organisation matches only when there is none.
<1>6. ASSUME NEW h \in Handlers, CommitUnmatched(h)
      PROVE  SettledInv'
  <2>1. h \in Busy /\ odd' = odd /\ exists' = exists /\ handler[h].pc = "unmatched"
    BY <1>6 DEF CommitUnmatched, Busy
  <2>2. Quiet => ~exists
    BY <2>1, QuietNow DEF Current
  <2>3. ~Plain'
    BY <2>1, <2>2 DEF Plain, Quiet
  <2> QED
    BY <2>3 DEF SettledInv
<1> QED
  BY <1>1, <1>2, <1>3, <1>4, <1>5, <1>6 DEF Next, Step

\* Nothing is recorded before something is told, and the plan comes from what is.
LEMMA AllDelivered == TypeOK /\ RowIsOneEvent /\ SettledInv => Settled
<1> SUFFICES ASSUME TypeOK, RowIsOneEvent, SettledInv, Plain, recorded = 1 .. Len(events)
             PROVE  plan = IF subs = <<>> THEN "free" ELSE Effective(subs[Len(subs)])
  BY DEF Settled, Plain
<1>1. ToldInOrder /\ RowInOrder /\ Quiet /\ exists
  BY DEF SettledInv, Plain, Quiet
<1>2. CASE subs = <<>>
  <2>1. recorded = {}
    <3>1. events = <<>> /\ Len(events) = 0
      BY <1>1, <1>2, EmptySeq DEF ToldInOrder
    <3> QED
      BY <3>1
  <2> QED
    BY <1>1, <1>2, <2>1 DEF RowIsOneEvent
<1>3. CASE subs # <<>>
  <2>1. events # <<>> /\ Len(events) \in recorded
    BY <1>1, <1>3, LastSecondTyped DEF ToldInOrder
  <2>2. plan = Effective(events[Len(events)])
    BY <1>1, <2>1 DEF RowInOrder
  <2>3. Effective(events[Len(events)]) = Effective(subs[Len(subs)])
    BY <1>1, <2>1 DEF ToldInOrder, Effective, PlanOf
  <2> QED
    BY <1>3, <2>2, <2>3
<1> QED
  BY <1>2, <1>3

\* When Stripe has delivered everything, in any order, however often and with
\* whatever failures, the plan is what the last subscription entitles to; except
\* after an overlap, a tie, two subscriptions at once or a skipped end.
THEOREM AllIsSettled == Spec => []Settled
<1>1. Init => SettledInv
  <2> SUFFICES ASSUME Init PROVE OneAtATime /\ ToldInOrder /\ RowInOrder
    BY DEF SettledInv
  <2>1. Len(<<>>) = 0 /\ DOMAIN <<>> = {}
    BY EmptySeq
  <2> QED
    BY <2>1 DEF Init, OneAtATime, Live, ToldInOrder, RowInOrder
<1>2. TypeOK /\ QuietInv /\ SettledInv /\ [Next]_vars => SettledInv'
  <2>1. SettledInv /\ UNCHANGED vars => SettledInv'
    BY SettledElsewhere DEF vars, database, provider
  <2> QED
    BY <2>1, SettledKept
<1> QED
  BY <1>1, <1>2, TypeCorrect, QuietHistory, AllDelivered, PTL DEF Spec
=============================================================================
