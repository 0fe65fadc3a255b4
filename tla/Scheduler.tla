----------------------------- MODULE Scheduler -----------------------------
(***************************************************************************)
(* One scheduler's event queue: wan-env/WANScheduler.cpp, which follows    *)
(* the wall clock, and sim-env/Simulator.cpp, which makes its own time.    *)
(*                                                                         *)
(* Both execute the event on top of the queue and pop the top afterwards:  *)
(* the event raises others, among them itself, while it is still queued.   *)
(* An event is an entry of the queue and the timer it is for; entries with *)
(* one firing time lie in the heap in an order nobody promises.  Bounds:   *)
(* the entries, the delays, the clock.                                     *)
(***************************************************************************)
EXTENDS Integers

CONSTANTS
    Entry,      \* SEvent objects
    Timer,      \* events that are raised; a timer is raised again and again
    MaxDelay,   \* bound of the delays
    MaxTime     \* bound of the clock

VARIABLES
    conf,       \* is time simulated, and is the wall clock ever put back
    time,       \* the clock, and the time events are processed till
    queue,      \* m_Queue: the timer and the firing time of its entries
    running,    \* the entry whose event executes, if there is one, and whether it does anything
    seen        \* the timers that are cancelled, and how often each entry was executed

vars == <<conf, time, queue, running, seen>>

Firing == [timer : Timer, time : Nat]
Idle == [busy |-> FALSE]

TypeOK ==
    /\ conf \in [simulated : BOOLEAN, putBack : BOOLEAN]
    /\ time \in [clock : Nat, limit : Nat]
    /\ DOMAIN queue \subseteq Entry /\ queue \in [DOMAIN queue -> Firing]
    /\ running \in {Idle} \cup [busy : {TRUE}, entry : Entry, firing : Firing, fires : BOOLEAN]
    /\ seen \in [cancelled : SUBSET Timer, raised : SUBSET Entry, cleared : SUBSET Entry, runs : [Entry -> Nat]]

Init ==
    /\ conf \in {c \in [simulated : BOOLEAN, putBack : BOOLEAN] : ~(c.simulated /\ c.putBack)}
    /\ time = [clock |-> 0, limit |-> 0]
    /\ queue = [e \in {} |-> Idle]
    /\ running = Idle
    /\ seen = [cancelled |-> {}, raised |-> {}, cleared |-> {}, runs |-> [e \in Entry |-> 0]]

-----------------------------------------------------------------------------

\* Faulty: an event climbs over those that fire at the same time.
ClimbsTies(new, old) == new <= old

\* less_SEvent: does an event that is pushed climb over one with that firing time?
Climbs(new, old) == new < old

\* Top: none of the others fires before it.
Tops == {e \in DOMAIN queue : \A q \in DOMAIN queue : queue[e].time <= queue[q].time}

\* The queue with one entry more, which is a new object.
With(e, firing) == [q \in DOMAIN queue \cup {e} |-> IF q = e THEN firing ELSE queue[q]]
Without(q, e) == [x \in DOMAIN q \ {e} |-> q[x]]

\* What is on top after an event was executed: the event, or one that it raised and that
\* climbed over it.
TopAfter(q, r) ==
    LET over == {e \in DOMAIN q \ {r.entry} : Climbs(q[e].time, r.firing.time)}
    IN  IF over # {} THEN {e \in over : \A x \in over : q[e].time <= q[x].time} ELSE {r.entry}

\* TimeNow: the wall clock is read into the variable that ProcessTill is given as its limit.
TimeNow(t) == IF conf.simulated THEN t ELSE [t EXCEPT !.limit = t.clock]

\* RaiseEvent, by an event or from outside.
RaiseEvent(e, tm, d) ==
    /\ running.busy => running.fires
    /\ e \notin seen.raised /\ time.clock + d <= MaxTime
    /\ queue' = With(e, [timer |-> tm, time |-> time.clock + d])
    /\ seen' = [seen EXCEPT !.raised = @ \cup {e}]
    /\ time' = TimeNow(time)
    /\ UNCHANGED <<conf, running>>

\* The simulator's ProcessFor; and ProcessTill of the WANScheduler with the limit its callers
\* give, the time it is.  Its ProcessFor, which has no callers, is left out: with a limit in
\* the future, events run before their time.
ProcessTill(d) ==
    /\ ~running.busy
    /\ time' = IF conf.simulated THEN [time EXCEPT !.limit = time.clock + d] ELSE TimeNow(time)
    /\ time'.limit <= MaxTime
    /\ UNCHANGED <<conf, queue, running, seen>>

\* ProcessTill and Timer::Execute: the timer does not fire if it is cancelled.
Execute(e) ==
    /\ ~running.busy /\ e \in Tops /\ queue[e].time <= time.limit
    /\ running' = [busy |-> TRUE, entry |-> e, firing |-> queue[e], fires |-> queue[e].timer \notin seen.cancelled]
    /\ time' = IF conf.simulated THEN [time EXCEPT !.clock = queue[e].time] ELSE TimeNow(time)
    /\ seen' = [seen EXCEPT !.runs[e] = @ + 1]
    /\ UNCHANGED <<conf, queue>>

\* OnTimeout is over, no delay is set, and the top goes.
Pop ==
    /\ running.busy
    /\ \E t \in TopAfter(queue, running) : queue' = Without(queue, t)
    /\ running' = Idle
    /\ UNCHANGED <<conf, time, seen>>

\* OnTimeout has called _RescheduleTimer with a delay: the timer raises itself, then the top goes.
Reschedule(e, d) ==
    /\ running.busy /\ running.fires /\ d > 0
    /\ e \notin seen.raised /\ time.clock + d <= MaxTime
    /\ LET q == With(e, [timer |-> running.firing.timer, time |-> time.clock + d])
       IN  \E t \in TopAfter(q, running) : queue' = Without(q, t)
    /\ seen' = [seen EXCEPT !.raised = @ \cup {e}]
    /\ time' = TimeNow(time)
    /\ running' = Idle
    /\ UNCHANGED conf

\* Timer::Cancel
Cancel(tm) ==
    /\ running.busy => running.fires
    /\ seen' = [seen EXCEPT !.cancelled = @ \cup {tm}]
    /\ UNCHANGED <<conf, time, queue, running>>

\* WANScheduler::Reset, when the node shuts down: not from an event
Reset ==
    /\ ~running.busy /\ ~conf.simulated /\ queue # [e \in {} |-> Idle]
    /\ seen' = [seen EXCEPT !.cleared = @ \cup DOMAIN queue]
    /\ queue' = [e \in {} |-> Idle]
    /\ UNCHANGED <<conf, time, running>>

\* The wall clock goes on, or is put back.
Tick ==
    /\ ~conf.simulated
    /\ \E c \in 0..MaxTime : c > time.clock /\ time' = [time EXCEPT !.clock = c]
    /\ UNCHANGED <<conf, queue, running, seen>>

PutBack ==
    /\ conf.putBack /\ ~conf.simulated
    /\ \E c \in 0..MaxTime : c < time.clock /\ time' = [time EXCEPT !.clock = c]
    /\ UNCHANGED <<conf, queue, running, seen>>

Next ==
    \/ \E e \in Entry, tm \in Timer, d \in 0..MaxDelay : RaiseEvent(e, tm, d)
    \/ \E d \in 0..MaxDelay : ProcessTill(d)
    \/ \E e \in Entry : Execute(e)
    \/ Pop
    \/ \E e \in Entry, d \in 0..MaxDelay : Reschedule(e, d)
    \/ \E tm \in Timer : Cancel(tm)
    \/ Reset \/ Tick \/ PutBack

Spec == Init /\ [][Next]_vars

-----------------------------------------------------------------------------

\* Every entry that was raised is executed once and then goes, though events are executed before
\* they are popped (WANScheduler.cpp:60-70, Simulator.cpp:80-92).  Only a wall clock that is put
\* back lets an event raise one that climbs over it: that one goes, and the first runs again.
RunsOnce ==
    ~conf.putBack =>
        \A e \in Entry :
            LET gone == e \in seen.raised \ (DOMAIN queue \cup seen.cleared)
                now == running.busy /\ e = running.entry
            IN  seen.runs[e] = IF gone \/ now THEN 1 ELSE 0
=============================================================================
