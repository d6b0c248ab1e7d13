------------------------------ MODULE DmmTimer ------------------------------
(***************************************************************************)
(* Timers (dmm_timer.c): the list of registered timers in trigger order,   *)
(* the loop of dmm_timers_trigger over it, and the commands with which the *)
(* handlers of triggers create, set, subscribe to and remove timers while  *)
(* the loop is at work.  A timer is an event, with the subscribers of      *)
(* DmmEvent.                                                               *)
(*                                                                         *)
(* Time counts in ticks of half a millisecond, so that Coalesce = 2 is the *)
(* code's coalesce_interval and the millisecond to which the main loop     *)
(* rounds its timeout is two ticks as well.                                *)
(***************************************************************************)
EXTENDS DmmEvent

CONSTANTS
  Interval,  \* the intervals that TIMERSET is called with, 0 for one-shot
  Delay,     \* and its times to the first trigger, 0 for "after interval"
  AbsTime,   \* and its absolute times
  Coalesce,  \* coalesce_interval
  MaxTime    \* bound on the clock

Timer == Event
NoTimer == NoEvent

ASSUME TimerAssumption ==
  /\ Interval \subseteq Nat /\ Delay \subseteq Nat
  /\ AbsTime \subseteq Nat \ {0}
  /\ Coalesce \in Nat \ {0} /\ MaxTime \in Nat \ {0}

VARIABLES
  tm_next, tm_interval, \* as in struct dmm_timer
  queue,   \* timer_trigger_list, earliest timer first
  clock,   \* CLOCK_REALTIME
  loop,    \* "idle", "check" (loop head), "send" (subscribers of tm)
  tm,      \* the timer being triggered
  tmptm,   \* the timer saved to be next
  limit,   \* now + coalesce_interval, as read when the loop began
  force,   \* force_trigger
  armed    \* history: TIMERSET has succeeded, and no trigger begun since

timers == <<tm_next, tm_interval, queue>>
cursor == <<loop, tm, tmptm, limit, force>>
vars == <<eventVars, timers, cursor, clock, armed>>

TypeOK ==
  /\ EventTypeOK
  /\ tm_next \in [Timer -> Nat] /\ tm_interval \in [Timer -> Interval \cup {0}]
  /\ queue \in Seq(Timer)
  /\ clock \in 1..MaxTime /\ limit \in Nat
  /\ loop \in {"idle", "check", "send"}
  /\ tm \in Timer \cup {NoTimer} /\ tmptm \in Timer \cup {NoTimer}
  /\ force \in BOOLEAN
  /\ armed \in [Timer -> BOOLEAN]

Registered(t) == t \in Members(queue)
-----------------------------------------------------------------------------
(* dmm_timer_register.                                                     *)

\* A variant that always inserts at the head.
PlaceFirst(q, t, when) == <<t>> \o q

\* t goes before the first timer that triggers later, or at the tail.
Place(q, t, when) ==
  LET later == {i \in DOMAIN q : when[q[i]] > when[t]}
      k == IF later = {} THEN Len(q) + 1 ELSE CHOOSE i \in later : \A j \in later : i <= j
  IN  SubSeq(q, 1, k - 1) \o <<t>> \o SubSeq(q, k, Len(q))

\* The timer leaves the list if it is in it and enters it at its new time.
Requeue(t, when) == queue' = Place(Without(queue, t), t, when)

\* A variant of dmm_timer_set that registers without having deregistered.
RefsAgain(t) == [ev_refs EXCEPT ![t] = @ + 1]

\* Membership in the list is one reference.
Refs(t) == IF Registered(t) THEN ev_refs ELSE [ev_refs EXCEPT ![t] = @ + 1]
-----------------------------------------------------------------------------
(* Commands of the handlers, which run while subscribers are sent to or,    *)
(* for other messages of the wave, before the loop.                        *)

Handling == InHandler /\ loop # "check"

\* DMM_MSG_TIMERCREATE.
TimerCreate(t) ==
  /\ Handling /\ ev_state[t] = "unborn"
  /\ ev_state' = [ev_state EXCEPT ![t] = "valid"]
  /\ ev_refs' = [ev_refs EXCEPT ![t] = 1]
  /\ tm_next' = [tm_next EXCEPT ![t] = 0] /\ tm_interval' = [tm_interval EXCEPT ![t] = 0]
  /\ UNCHANGED <<subscriptions, nd_state, nd_refs, delivery, queue, cursor, clock, armed>>

\* dmm_timer_set once it has computed the next trigger.
Set(t, when, interval) ==
  /\ tm_next' = [tm_next EXCEPT ![t] = when]
  /\ tm_interval' = [tm_interval EXCEPT ![t] = interval]
  /\ Requeue(t, tm_next')
  /\ ev_refs' = Refs(t)
  /\ armed' = [armed EXCEPT ![t] = TRUE]
  /\ UNCHANGED <<subscriptions, nd_state, nd_refs, ev_state, delivery, cursor, clock>>

\* DMM_MSG_TIMERSET of an existing timer, relative to the current time.
TimerSet(t, delay, interval) ==
  /\ Handling /\ ev_state[t] = "valid"
  /\ delay # 0 \/ interval # 0   \* EINVAL otherwise
  /\ Set(t, clock + (IF delay = 0 THEN interval ELSE delay), interval)

\* With DMM_TIMERSET_ABS: any time, the past included.
TimerSetAbs(t, when, interval) ==
  /\ Handling /\ ev_state[t] = "valid"
  /\ Set(t, when, interval)

\* With DMM_TIMERSET_CHANGEINTERVALONLY and no time.  A timer that was never
\* set fails the assertion of dmm_timer_register: callers set it before.
TimerSetInterval(t, interval) ==
  /\ Handling /\ ev_state[t] = "valid" /\ interval # 0 /\ tm_next[t] # 0
  /\ Set(t, tm_next[t], interval)

\* DMM_MSG_TIMERSUBSCRIBE (dmm_event_checkedsubscribe).
TimerSubscribe(t, n) ==
  /\ Handling /\ nd_state[n] = "valid" /\ ev_state[t] = "valid" /\ ~Subscribed(t, n)
  /\ Subscribe(t, n)
  /\ ev_refs' = [ev_refs EXCEPT ![t] = @ + 1]
  /\ UNCHANGED <<nd_state, ev_state, delivery, timers, cursor, clock, armed>>

\* DMM_MSG_TIMERUNSUBSCRIBE.
TimerUnsubscribe(t, n) ==
  LET pairs == {<<t, n>>}
  IN  /\ Handling /\ ev_state[t] = "valid" /\ Subscribed(t, n) /\ MayRemove(pairs)
      /\ CellsRemoved(pairs)
      /\ Release(EventRefsWithout(pairs), NodeRefsWithout(pairs), ev_state, nd_state)
      /\ UNCHANGED <<delivery, timers, cursor, clock, armed>>

\* DMM_MSG_TIMERRM (dmm_timer_rm): invalid, out of the list, no subscribers,
\* and without its first reference.  The loop may hold it.
TimerRemove(t) ==
  LET pairs == SubscribersOf(t)
      refs  == EventRefsWithout(pairs)
      gone  == IF Registered(t) THEN 2 ELSE 1
  IN  /\ Handling /\ ev_state[t] = "valid"
      /\ MayRemove(pairs) /\ (RemoveNext \/ t # tmptm)
      /\ CellsRemoved(pairs)
      /\ Release([refs EXCEPT ![t] = @ - gone], NodeRefsWithout(pairs),
                 [ev_state EXCEPT ![t] = "invalid"], nd_state)
      /\ queue' = Without(queue, t)
      /\ armed' = [armed EXCEPT ![t] = FALSE]
      /\ UNCHANGED <<delivery, tm_next, tm_interval, cursor, clock>>

\* DMM_MSG_NODERM.
NodeRm(n) == loop # "check" /\ NodeRemove(n) /\ UNCHANGED <<timers, cursor, clock, armed>>
-----------------------------------------------------------------------------
(* The main loop and dmm_timers_trigger.                                   *)

Tick ==
  /\ clock < MaxTime /\ clock' = clock + 1
  /\ UNCHANGED <<eventVars, timers, cursor, armed>>

\* A variant that does not set a negative timeout to 0: epoll_wait then waits
\* for ever.
TimedOutUnclamped ==
  /\ queue # <<>> /\ tm_next[queue[1]] < clock + Coalesce
  /\ clock < tm_next[queue[1]] + Coalesce

\* dmm_main_loop computes a timeout for the first timer, rounding to whole
\* milliseconds: up or down, as the subtraction of nanoseconds falls.
TimedOut == queue # <<>> /\ tm_next[queue[1]] < clock + Coalesce

\* epoll_wait returns, at the timeout (f) or before, for a socket;
\* dmm_timers_trigger reads the clock and the head of the list.
Wave(f) ==
  /\ loop = "idle" /\ (f => TimedOut)
  /\ loop' = "check" /\ force' = f /\ limit' = clock + Coalesce
  /\ tmptm' = FirstOf(queue, NoTimer) /\ UNCHANGED tm
  /\ UNCHANGED <<eventVars, timers, clock, armed>>

\* A variant that triggers the whole list.
ToTriggerAny == tmptm # NoTimer

\* The loop head: is there a timer, and is it to be triggered?
ToTrigger == tmptm # NoTimer /\ (force \/ tm_next[tmptm] <= limit)

\* DMM_TIMER_REF and dmm_timer_trigger.
Trigger ==
  /\ loop = "check" /\ ToTrigger
  /\ loop' = "send" /\ tm' = tmptm /\ tmptm' = NextOf(queue, tmptm, NoTimer)
  /\ ev_refs' = [ev_refs EXCEPT ![tmptm] = @ + 1]
  /\ SendStart(tmptm)
  /\ armed' = [armed EXCEPT ![tmptm] = FALSE]
  /\ UNCHANGED <<subscriptions, nd_state, nd_refs, ev_state, timers, limit, force, clock>>

\* Two variants: every timer is registered again, or only those that are
\* not triggered by force.
AgainAlways(t) == TRUE
AgainUnlessForced(t) == tm_interval[t] # 0 /\ ~force

\* Not one-shot: to be registered again after the trigger.
Again(t) == tm_interval[t] # 0

\* All subscribers have been sent to.  A timer that is still valid leaves the
\* list, and enters it again if it is periodic; then DMM_TIMER_UNREF.
Triggered ==
  /\ loop = "send" /\ SendDone
  /\ LET valid == ev_state[tm] = "valid"
         again == valid /\ Again(tm)
         gone  == IF valid /\ ~again /\ Registered(tm) THEN 2 ELSE 1
     IN  /\ tm_next' = IF again THEN [tm_next EXCEPT ![tm] = @ + tm_interval[tm]] ELSE tm_next
         /\ IF again THEN Requeue(tm, tm_next')
            ELSE queue' = IF valid THEN Without(queue, tm) ELSE queue
         /\ Release([ev_refs EXCEPT ![tm] = @ - gone], nd_refs, ev_state, nd_state)
  /\ loop' = "check" /\ tm' = NoTimer /\ force' = FALSE
  /\ sending' = NoEvent /\ UNCHANGED <<running, next>>
  /\ UNCHANGED <<subscriptions, tm_interval, tmptm, limit, clock, armed>>

\* The loop ends; the main loop goes back to epoll_wait.
WaveEnd ==
  /\ loop = "check" /\ ~ToTrigger
  /\ loop' = "idle" /\ tmptm' = NoTimer /\ limit' = 0 /\ force' = FALSE
  /\ UNCHANGED <<eventVars, timers, tm, clock, armed>>

Send    == SendStep /\ UNCHANGED <<timers, cursor, clock, armed>>
Returns == HandlerReturns /\ UNCHANGED <<timers, cursor, clock, armed>>
-----------------------------------------------------------------------------
Init ==
  /\ EventInit
  /\ tm_next = [t \in Timer |-> 0] /\ tm_interval = [t \in Timer |-> 0]
  /\ queue = <<>> /\ clock = 1
  /\ loop = "idle" /\ tm = NoTimer /\ tmptm = NoTimer /\ limit = 0 /\ force = FALSE
  /\ armed = [t \in Timer |-> FALSE]

Command ==
  \/ \E n \in Node : NodeRm(n)
  \/ \E t \in Timer :
       \/ TimerCreate(t)
       \/ TimerRemove(t)
       \/ \E n \in Node : TimerSubscribe(t, n) \/ TimerUnsubscribe(t, n)
       \/ \E interval \in Interval :
            \/ TimerSetInterval(t, interval)
            \/ \E delay \in Delay : TimerSet(t, delay, interval)
            \/ \E when \in AbsTime : TimerSetAbs(t, when, interval)

Loop == Trigger \/ Triggered \/ WaveEnd \/ Send \/ Returns

Next == Tick \/ Command \/ Loop \/ \E f \in BOOLEAN : Wave(f)

\* One thread runs the main loop: it goes on as long as it has something to
\* do, epoll_wait returns when its timeout is over, and handlers return.
Fairness == WF_vars(Loop) /\ WF_vars(Wave(TRUE))

Spec == Init /\ [][Next]_vars /\ Fairness
-----------------------------------------------------------------------------
\* A timer is referenced from TIMERCREATE to TIMERRM, by the trigger list, by
\* its subscribers and by the loop while it is triggered.
TimerRefsExact ==
  \A t \in Timer :
    ev_refs[t] = (IF ev_state[t] = "valid" THEN 1 ELSE 0) + Len(ev_nodes[t])
                 + (IF Registered(t) THEN 1 ELSE 0) + (IF tm = t THEN 1 ELSE 0)

\* "Contains registered timer in trigger order (earliest timer first)":
\* dmm_timers_next and the early exit of dmm_timers_trigger rely on it.
QueueSorted ==
  /\ \A i, j \in DOMAIN queue : i < j => tm_next[queue[i]] <= tm_next[queue[j]]
  /\ Cardinality(Members(queue)) = Len(queue)

\* TIMERRM leaves nothing that could trigger: no place in the list and no
\* subscriber, though a loop may still hold the timer.
RemovedIsDetached ==
  \A t \in Timer : ev_state[t] # "valid" =>
    /\ ~Registered(t) /\ ev_nodes[t] = <<>>
    /\ ev_state[t] = "invalid" => tm = t

\* The timer that LIST_FOREACH_SAFE has saved is still in the list.
TimerCursorSafe == tmptm # NoTimer => Registered(tmptm)

\* A periodic timer never drops out of the list, whatever its own handlers
\* and others do to it between its triggers and during them.
PeriodicStaysRegistered ==
  \A t \in Timer : ev_state[t] = "valid" /\ tm_interval[t] # 0 => Registered(t)

\* A one-shot timer triggers once for each time it is set.
OneShotOnce ==
  \A t \in Timer : ~armed[t] /\ tm_interval[t] = 0 /\ tm # t => ~Registered(t)

\* Subscriptions are two cells that know of each other, between a valid node
\* and a timer that has not been removed.
SubscriptionsSound == SubscriptionsMutual /\ SubscriptionsAlive /\ RemovedIsDetached

\* Nothing is released while it is in use, and nothing is kept after that.
RefsExact == NodeRefsExact /\ TimerRefsExact

\* The trigger list holds what TIMERSET asked for: periodic timers always,
\* one-shot timers until they trigger.
RegisteredAsSet == PeriodicStaysRegistered /\ OneShotOnce

\* "time when the timer will trigger": a timer that is set stays registered
\* until it triggers.  The code breaks this for a timer set by the handler
\* of its own trigger.
SetIsKept == \A t \in Timer : armed[t] => Registered(t)

\* No trigger comes more than coalesce_interval before its time, forced by a
\* timeout or not.
NeverEarly == [][Trigger => tm_next[tmptm] <= clock + Coalesce]_vars

\* A timer whose time has come triggers, unless it is set anew or removed:
\* no timer is forgotten behind others of its wave.
Due(t) == Registered(t) /\ tm_next[t] <= clock
DueTriggers == \A t \in Timer : Due(t) ~> tm = t \/ ~Due(t)
=============================================================================
