--------------------------- MODULE BillingWebhooks ---------------------------
(* The subscription of one organisation: its owner's checkout, what happens  *)
(* to the subscription at the provider (Stripe, or the stand-in that takes   *)
(* its place in development), the webhook events that tell of it, and the    *)
(* transactions that apply them to org_billing and organizations.plan.       *)
(*                                                                           *)
(* Stripe delivers an event until it is acknowledged, at any time, in any    *)
(* order and possibly again.  The stand-in has no state of its own: its      *)
(* pages build events from the row and hand them to the same handler, in the *)
(* same request.  cancel_at_period_end and current_period_end are written    *)
(* with plan and status and read by nothing here; they are left out.         *)
EXTENDS Integers, Sequences, FiniteSets

CONSTANTS
  Handlers,       \* requests that can run at the same time
  Kinds,          \* the providers to start with: "stripe", "stand-in"
  Prices,         \* "team", "business", and prices that no plan has
  NoRow,          \* org_billing has no row for the organisation
  MaxCheckouts,   \* bound: checkout sessions
  MaxEvents,      \* bound: events
  MaxFaults       \* bound: ties, overlaps, repeats, failures and a deletion, together

PaidPlans == {"team", "business"}
Plans == PaidPlans \cup {"free"}
Statuses == {"active", "past_due", "unpaid", "canceled"}
EntitledStatuses == {"active", "past_due"}
None == 0        \* no customer, no subscription, no event yet
Ids == 0 .. MaxEvents

Rows == [customer : Ids, sub : Ids, plan : Plans, status : Statuses \cup {"none"}, at : Ids]
Sessions == [plan : PaidPlans, customer : Ids]
Subscriptions == [price : Prices, meta : PaidPlans, status : Statuses, customer : Ids]
Events == [type : {"checkout", "changed", "deleted", "failed"}, sub : Ids, customer : Ids,
           price : Prices, meta : PaidPlans, status : Statuses, created : Ids \ {0}]
\* A request, the events it has yet to send through process_webhook, what it has read.
Requests == [pc : {"idle", "record", "read", "create", "commit", "unmatched"},
             todo : Seq(Ids \ {0}), plan : Plans, row : Rows \cup {NoRow}]

ASSUME KindAssumption == Kinds \subseteq {"stripe", "stand-in"}
ASSUME BoundAssumption == MaxEvents \in Nat
ASSUME PriceAssumption == PaidPlans \subseteq Prices
ASSUME RowAssumption == NoRow \notin Rows

VARIABLES
  kind,       \* the provider
  exists,     \* the organisation has not been deleted
  plan,       \* organizations.plan
  row,        \* its row of org_billing
  recorded,   \* the events in billing_events
  sessions,   \* checkout sessions that can be paid
  subs,       \* the provider's subscriptions, by id
  events,     \* what the provider has to tell, by id
  handler,    \* the requests
  spent,      \* history: the checkouts and what MaxFaults bounds, so far
  applied,    \* history: how often an event's outcome was committed
  odd         \* history: the unusual things that have happened

vars == <<kind, exists, plan, row, recorded, sessions, subs, events, handler, spent, applied, odd>>
provider == <<sessions, subs, events>>
database == <<exists, plan, row, recorded, applied>>

Idle == [pc |-> "idle", todo |-> <<>>, plan |-> "free", row |-> NoRow]

Init ==
  /\ kind \in Kinds
  /\ exists = TRUE /\ plan = "free" /\ row = NoRow /\ recorded = {}
  /\ sessions = {} /\ subs = <<>> /\ events = <<>>
  /\ handler = [h \in Handlers |-> Idle]
  /\ spent = [checkouts |-> 0, faults |-> 0]
  /\ applied = [e \in Ids \ {0} |-> 0]
  /\ odd = {}
------------------------------------------------------------------------------
(* The provider.                                                             *)

HasActiveSubscription(r) == r # NoRow /\ r.sub # None /\ r.status \in EntitledStatuses

\* start_checkout: refused while our row has an active subscription.
StartCheckout(p) ==
  /\ exists /\ spent.checkouts < MaxCheckouts
  /\ ~HasActiveSubscription(row)
  /\ sessions' = sessions \cup {[plan |-> p, customer |-> IF row = NoRow THEN None ELSE row.customer]}
  /\ spent' = [spent EXCEPT !.checkouts = @ + 1]
  /\ UNCHANGED <<kind, database, subs, events, handler, odd>>

\* Things happen in the second of the last event, or in a later one.
LastSecond == IF events = <<>> THEN 0 ELSE events[Len(events)].created
Seconds == {LastSecond, LastSecond + 1} \cap (Ids \ {0})

\* The event that tells the state `sub` of subscription i.
Tell(type, i, sub, at) ==
  [type |-> type, sub |-> i, customer |-> sub.customer, price |-> sub.price,
   meta |-> sub.meta, status |-> sub.status, created |-> at]

OfSubscription(e) == e.type \in {"changed", "deleted"}

\* Unusual things happen; those of MaxFaults can happen so many times.
Happens(strange) ==
  /\ odd' = odd \cup strange
  /\ IF strange \subseteq {"parallel", "skipped"}
     THEN UNCHANGED spent
     ELSE /\ spent.faults < MaxFaults
          /\ spent' = [spent EXCEPT !.faults = @ + 1]
Tie(at) == IF at = LastSecond THEN {"tie"} ELSE {}

\* The provider tells `told`, after all it told before or in the same second,
\* so that `created` does not give their order.
Emit(told) ==
  /\ Len(events) + Len(told) <= MaxEvents
  /\ events' = events \o told

\* What a paid session makes: a subscription tagged with our plan, and two events.
Opened(s) ==
  [price |-> s.plan, meta |-> s.plan, status |-> "active",
   customer |-> IF s.customer = None THEN Len(subs) + 1 ELSE s.customer]
Opening(s, at) ==
  LET i == Len(subs) + 1
  IN <<Tell("checkout", i, Opened(s), at), Tell("changed", i, Opened(s), at)>>

Live == {i \in 1 .. Len(subs) : subs[i].status # "canceled"}

\* The owner pays on Stripe's page; a session can be paid once.
Pay(s) ==
  /\ kind = "stripe"
  /\ \E at \in Seconds :
       /\ Emit(Opening(s, at))
       /\ Happens(Tie(at) \cup IF Live = {} THEN {} ELSE {"parallel"})
  /\ subs' = Append(subs, Opened(s))
  /\ sessions' = sessions \ {s}
  /\ UNCHANGED <<kind, database, handler>>

\* A failed payment is told of twice, by the invoice and by the subscription.
Telling(i, sub, at) ==
  (IF sub.status = "past_due" THEN <<Tell("failed", i, sub, at)>> ELSE <<>>)
  \o <<Tell(IF sub.status = "canceled" THEN "deleted" ELSE "changed", i, sub, at)>>

\* A subscription changes at Stripe: its price in the portal, its status by
\* payments and their failure, its end by the owner or by Stripe.
Change(i) ==
  /\ kind = "stripe"
  /\ i \in Live
  /\ \E p \in Prices, st \in Statuses, at \in Seconds :
       LET sub == [subs[i] EXCEPT !.price = p, !.status = st]
       IN /\ sub # subs[i]
          /\ p = subs[i].price \/ st = subs[i].status
          /\ subs' = [subs EXCEPT ![i] = sub]
          /\ Emit(Telling(i, sub, at))
          /\ Happens(Tie(at))
  /\ UNCHANGED <<kind, database, sessions, handler>>
------------------------------------------------------------------------------
(* A request to the webhook, or to a page of the stand-in.                   *)

Busy == {h \in Handlers : handler[h].pc # "idle"}
Overlap(h) == IF Busy \ {h} = {} THEN {} ELSE {"overlap"}
Starts(h, todo) == handler' = [handler EXCEPT ![h] = [Idle EXCEPT !.pc = "record", !.todo = todo]]

\* Stripe delivers an event that we have not acknowledged, or one that we have.
Deliver(h, e) ==
  /\ kind = "stripe" /\ handler[h].pc = "idle"
  /\ Starts(h, <<e>>)
  /\ Happens(Overlap(h) \cup IF e \in recorded THEN {"repeat"} ELSE {})
  /\ UNCHANGED <<kind, database, provider>>

\* dev_checkout_complete: the link can be followed again, but not while our row
\* has an active subscription.
StandInPay(h, s) ==
  /\ kind = "stand-in" /\ handler[h].pc = "idle"
  /\ ~HasActiveSubscription(row)
  /\ \E at \in Seconds : Emit(Opening(s, at)) /\ Happens(Tie(at) \cup Overlap(h))
  /\ subs' = Append(subs, Opened(s))
  /\ Starts(h, <<Len(events) + 1, Len(events) + 2>>)
  /\ UNCHANGED <<kind, database, sessions>>

\* The portal's buttons: what each makes of the state in the row.
PortalStates ==
  LET state(p, st) == [price |-> p, meta |-> p, status |-> st, customer |-> row.customer]
  IN {state(p, row.status) : p \in PaidPlans}
     \cup {state(row.plan, st) : st \in {"canceled", "past_due", "active"}}

\* dev_portal_action: nothing without an active subscription.
StandInPortal(h) ==
  /\ kind = "stand-in" /\ handler[h].pc = "idle"
  /\ HasActiveSubscription(row)
  /\ \E sub \in PortalStates, at \in Seconds :
       LET told == Telling(row.sub, sub, at)
       IN /\ Emit(told)
          /\ Happens(Tie(at) \cup Overlap(h))
          /\ Starts(h, [k \in 1 .. Len(told) |-> Len(events) + k])
  /\ UNCHANGED <<kind, database, sessions, subs>>
------------------------------------------------------------------------------
(* apply_event: one transaction per event.                                   *)

EventId(h) == handler[h].todo[1]
Event(h) == events[EventId(h)]
Goto(h, pc) == handler' = [handler EXCEPT ![h].pc = pc]
InTransaction(h) == handler[h].pc \notin {"idle", "record"}

\* The request acknowledges its event, or goes on with the stand-in's next one.
Done(h) ==
  handler' = [handler EXCEPT ![h] =
    IF Len(@.todo) = 1 THEN Idle
    ELSE [Idle EXCEPT !.pc = "record", !.todo = Tail(handler[h].todo)]]

\* Mutant of Unrecorded: the event id is not unique.
NoUniqueId(e) == TRUE
Unrecorded(e) == e \notin recorded

Duplicate(h) ==
  /\ handler[h].pc = "record"
  /\ ~Unrecorded(EventId(h))
  /\ Done(h)
  /\ UNCHANGED <<kind, database, provider, spent, odd>>

\* The event id is inserted, which waits for an uncommitted insert of the same
\* id; then the organisation is looked up by the tag on the event.
Record(h) ==
  /\ handler[h].pc = "record"
  /\ Unrecorded(EventId(h))
  /\ \A g \in Handlers \ {h} : InTransaction(g) => EventId(g) # EventId(h)
  /\ handler' = [handler EXCEPT ![h].plan = plan, ![h].pc =
       IF ~exists THEN "unmatched" ELSE IF Event(h).type = "failed" THEN "commit" ELSE "read"]
  /\ UNCHANGED <<kind, database, provider, spent, odd>>

ReadRow(h) ==
  /\ handler[h].pc = "read"
  /\ handler' = [handler EXCEPT ![h].row = row, ![h].pc = IF row = NoRow THEN "create" ELSE "commit"]
  /\ UNCHANGED <<kind, database, provider, spent, odd>>

\* h has inserted the organisation's first row and not committed it.
Creating(h) == handler[h].pc = "commit" /\ Event(h).type # "failed" /\ handler[h].row = NoRow

\* _get_or_create inserts, which waits for an uncommitted insert of the same row.
CreateRow(h) ==
  /\ handler[h].pc = "create"
  /\ exists /\ row = NoRow
  /\ \A g \in Handlers : ~Creating(g)
  /\ Goto(h, "commit")
  /\ UNCHANGED <<kind, database, provider, spent, odd>>

FreshRow == [customer |-> None, sub |-> None, plan |-> "free", status |-> "none", at |-> None]
RowRead(h) == IF handler[h].row = NoRow THEN FreshRow ELSE handler[h].row

\* plan_for_price, else the plan the subscription was tagged with.
PlanOf(e) == IF e.price \in PaidPlans THEN e.price ELSE e.meta

\* Mutant of Stale: an event is applied whatever its age.
StaleIfOther(e, r) == e.type = "deleted" /\ r.sub # None /\ e.sub # r.sub
Stale(e, r) == e.created < r.at \/ (e.type = "deleted" /\ r.sub # None /\ e.sub # r.sub)

\* Mutant of Mirrored: a completed checkout counts as an active subscription.
MirroredAtCheckout(e, r) ==
  IF e.type = "checkout" THEN [r EXCEPT !.customer = e.customer, !.sub = e.sub, !.status = "active"]
  ELSE r
\* What the row and the plan become by an event.
Mirrored(e, r) ==
  CASE e.type = "checkout" -> [r EXCEPT !.customer = e.customer, !.sub = e.sub]
    [] OfSubscription(e) /\ ~Stale(e, r) ->
         [customer |-> IF r.customer = None THEN e.customer ELSE r.customer, sub |-> e.sub,
          plan |-> PlanOf(e), status |-> e.status, at |-> e.created]
    [] OTHER -> r
Effective(e) == IF e.status \in EntitledStatuses THEN PlanOf(e) ELSE "free"
\* Mutant of PlanAfter: the plan is set before the event is known to be stale.
PlanAtOnce(e, r, p) == IF OfSubscription(e) THEN Effective(e) ELSE p
PlanAfter(e, r, p) == IF OfSubscription(e) /\ ~Stale(e, r) THEN Effective(e) ELSE p

\* An UPDATE writes the columns that differ from what was read, and no others.
Updated(was, new) ==
  IF row = NoRow THEN new ELSE [c \in DOMAIN row |-> IF new[c] # was[c] THEN new[c] ELSE row[c]]

\* The end of a subscription is skipped although the row names an earlier one.
SkippedEnd(e, r) ==
  IF e.type = "deleted" /\ r.sub # None /\ e.sub > r.sub THEN {"skipped"} ELSE {}

Recorded(h) ==
  /\ recorded' = recorded \cup {EventId(h)}
  /\ applied' = [applied EXCEPT ![EventId(h)] = @ + 1]
  /\ Done(h)

Commit(h) ==
  /\ handler[h].pc = "commit"
  /\ exists
  /\ LET e == Event(h)
         was == RowRead(h)
         after == PlanAfter(e, was, handler[h].plan)
     IN /\ row' = IF e.type = "failed" THEN row ELSE Updated(was, Mirrored(e, was))
        /\ plan' = IF after # handler[h].plan THEN after ELSE plan
        /\ Happens(SkippedEnd(e, was))
  /\ Recorded(h)
  /\ UNCHANGED <<kind, exists, provider>>

\* No organisation matches: the event is recorded all the same.
CommitUnmatched(h) ==
  /\ handler[h].pc = "unmatched"
  /\ Recorded(h)
  /\ UNCHANGED <<kind, exists, plan, row, provider, spent, odd>>

\* A constraint refuses the first row, or a write for a deleted organisation:
\* the transaction is rolled back and the request fails.
RollBack(h) ==
  /\ \/ handler[h].pc = "create" /\ (row # NoRow \/ ~exists)
     \/ handler[h].pc = "commit" /\ ~exists
  /\ handler' = [handler EXCEPT ![h] = Idle]
  /\ UNCHANGED <<kind, database, provider, spent, odd>>

\* The process, its connection or the database fails: what is not committed is gone.
RequestFails(h) ==
  /\ handler[h].pc # "idle"
  /\ Happens({"failure"})
  /\ handler' = [handler EXCEPT ![h] = Idle]
  /\ UNCHANGED <<kind, database, provider>>

\* delete_org; the row goes with it.  It waits for an uncommitted first row.
DeleteOrg ==
  /\ exists
  /\ \A h \in Handlers : ~Creating(h)
  /\ exists' = FALSE /\ row' = NoRow
  /\ Happens({"deletion"})
  /\ UNCHANGED <<kind, plan, recorded, applied, provider, handler>>

Owner ==
  \/ \E p \in PaidPlans : StartCheckout(p)
  \/ \E s \in sessions : Pay(s)
  \/ \E h \in Handlers, s \in sessions : StandInPay(h, s)
  \/ \E h \in Handlers : StandInPortal(h)
  \/ DeleteOrg
Step(h) ==
  Duplicate(h) \/ Record(h) \/ ReadRow(h) \/ CreateRow(h) \/ Commit(h) \/ CommitUnmatched(h) \/ RollBack(h)
Next ==
  \/ Owner
  \/ \E i \in 1 .. Len(subs) : Change(i)
  \/ \E h \in Handlers : Step(h) \/ RequestFails(h) \/ \E e \in 1 .. Len(events) : Deliver(h, e)

Spec == Init /\ [][Next]_vars
------------------------------------------------------------------------------
(* Properties.                                                               *)

\* Every variable has its type; an active row has a paid plan, which the
\* stand-in's portal relies on.
TypeOK ==
  /\ kind \in {"stripe", "stand-in"}
  /\ exists \in BOOLEAN /\ plan \in Plans
  /\ row \in Rows \cup {NoRow}
  /\ HasActiveSubscription(row) => row.plan \in PaidPlans
  /\ recorded \subseteq 1 .. Len(events)
  /\ sessions \subseteq Sessions
  /\ subs \in Seq(Subscriptions) /\ Len(subs) <= Len(events)
  /\ events \in Seq(Events) /\ Len(events) <= MaxEvents
  /\ handler \in [Handlers -> Requests]
  /\ \A h \in Busy : handler[h].todo # <<>> /\ \A k \in DOMAIN handler[h].todo : handler[h].todo[k] <= Len(events)
  /\ applied \in [Ids \ {0} -> Nat]

\* An event takes effect at most once, and it does if and only if it is
\* recorded, however often it is delivered and whatever fails on the way:
\* effect and record are one transaction (apply_event).
AppliedOnce ==
  \A e \in Ids \ {0} : applied[e] = IF e \in recorded THEN 1 ELSE 0

Quiet == "overlap" \notin odd

\* While requests do not overlap: the row is what one recorded event told, the
\* event of its last_event_at, and organizations.plan is what that event
\* entitles to.  Several transactions write the row, in pieces (apply_event).
RowIsOneEvent ==
  Quiet /\ exists =>
    \/ (row = NoRow \/ row.at = None) /\ plan = "free"
    \/ row # NoRow /\ \E e \in recorded :
         /\ OfSubscription(events[e]) /\ events[e].created = row.at
         /\ row.plan = PlanOf(events[e]) /\ row.status = events[e].status
         /\ plan = Effective(events[e])

\* While requests do not overlap: no change that was ever taken in is newer than
\* the row, in whatever order events came (_subscription_changed's first guard).
NewestWins ==
  Quiet /\ exists =>
    \A e \in recorded : events[e].type = "changed" => row # NoRow /\ events[e].created <= row.at

\* When Stripe has delivered everything, in any order, the organisation has the
\* plan that its last subscription entitles to: unless requests overlapped, two
\* events had the same second, two subscriptions ran side by side, or the end of
\* a subscription was skipped while the row named an earlier one.
Settled ==
  (/\ odd \subseteq {"repeat", "failure"}
   /\ kind = "stripe" /\ exists /\ recorded = 1 .. Len(events)) =>
    plan = IF subs = <<>> THEN "free" ELSE Effective(subs[Len(subs)])

\* billing_service.py:8-10, "events can arrive out of order ... an old
\* subscription's cancellation can't end a newer one", with the comment at 199:
\* what is skipped is "an earlier subscription ending".  So the order of arrival
\* makes no difference: Settled also when an end was skipped.
OrderSafe ==
  (/\ odd \subseteq {"skipped"}
   /\ kind = "stripe" /\ exists /\ recorded = 1 .. Len(events)) =>
    plan = IF subs = <<>> THEN "free" ELSE Effective(subs[Len(subs)])
------------------------------------------------------------------------------
(* What they rest on.                                                        *)

\* A row that tells of a subscription has a paid plan, and keeps one.
Paid(r) == r # NoRow /\ r.plan # "free"
PaidInv ==
  /\ row # NoRow /\ row.status # "none" => Paid(row)
  /\ \A h \in Handlers : LET r == handler[h].row IN
       /\ r # NoRow /\ r.status # "none" => Paid(r)
       /\ exists /\ Paid(r) => Paid(row)

\* An event that is being applied is not recorded, and is applied by one request.
OnceInv ==
  /\ AppliedOnce
  /\ \A g, h \in Handlers : InTransaction(g) =>
       /\ EventId(g) \notin recorded
       /\ InTransaction(h) /\ EventId(g) = EventId(h) => g = h

\* While requests do not overlap, what the only one has read is how things are.
QuietInv ==
  Quiet =>
    /\ \A g, h \in Busy : g = h
    /\ exists => \A h \in Busy :
         /\ handler[h].pc # "unmatched"
         /\ InTransaction(h) => handler[h].plan = plan
         /\ handler[h].pc \in {"create", "commit"} /\ Event(h).type # "failed" => handler[h].row = row

\* While nothing happens but repeats and failures: one subscription at a time, the
\* last event tells what the last one is like, the row names none that is newer,
\* and the last event, once taken in, is where the row and the plan come from.
Plain == odd \subseteq {"repeat", "failure"} /\ kind = "stripe" /\ exists
OneAtATime == Live \subseteq {Len(subs)}
ToldInOrder ==
  /\ subs = <<>> <=> events = <<>>
  /\ \A k \in DOMAIN events :
       /\ events[k].sub <= Len(subs) /\ events[k].created <= LastSecond
       /\ k # Len(events) /\ OfSubscription(events[k]) => events[k].created < LastSecond
  /\ events # <<>> =>
       LET last == events[Len(events)] sub == subs[Len(subs)]
       IN  /\ OfSubscription(last) /\ last.sub = Len(subs)
           /\ last.price = sub.price /\ last.meta = sub.meta /\ last.status = sub.status
RowInOrder ==
  /\ row # NoRow => row.sub <= Len(subs) /\ row.at <= LastSecond
  /\ Len(events) \in recorded =>
       row # NoRow /\ row.at = LastSecond /\ plan = Effective(events[Len(events)])
SettledInv == Plain => OneAtATime /\ ToldInOrder /\ RowInOrder
=============================================================================
