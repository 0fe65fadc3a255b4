--------------------------- MODULE MercuryProofs ---------------------------
(***************************************************************************)
(* The proofs about the scheduler and about the network layer; then, that  *)
(* what is proved of each part holds of the parts put together: the        *)
(* properties as the runs check them.  While a part runs, the steps of the *)
(* whole are its own, and no other part ever runs.                         *)
(***************************************************************************)
EXTENDS Mercury, WellFoundedInduction, TLAPS

-----------------------------------------------------------------------------
(***************************************************************************)
(* The scheduler: every event that is raised is executed once, for any     *)
(* entries, timers, delays and any bound of the clock.                     *)
(***************************************************************************)

\* The scheduler's variables.
conf == v1
time == v2
queue == v3
running == v4
seen == v5

USE DEF conf, time, queue, running, seen

\* What is queued was raised and not cleared.
Queued ==
    /\ DOMAIN queue \subseteq seen.raised
    /\ seen.cleared \subseteq seen.raised
    /\ seen.cleared \cap DOMAIN queue = {}

\* The running entry is still queued.
StillQueued ==
    running.busy => running.entry \in DOMAIN queue /\ queue[running.entry] = running.firing

\* Nothing that is queued fires before the running entry, nor will anything that is raised now.
Least ==
    running.busy =>
        /\ running.firing.time <= time.clock
        /\ \A q \in DOMAIN queue : running.firing.time <= queue[q].time

\* The wall clock is not behind the limit that was read from it.
Behind == ~conf.simulated => time.limit <= time.clock

TimersInv ==
    /\ Timers!TypeOK
    /\ Queued
    /\ StillQueued
    /\ ~conf.putBack => Least /\ Behind
    /\ Timers!RunsOnce

-----------------------------------------------------------------------------

\* Nothing is raised at first, and nothing executes.
LEMMA TimersInit == Timers!Init => TimersInv
<1>1. SUFFICES ASSUME Timers!Init PROVE TimersInv
  OBVIOUS
<1>2. Timers!TypeOK
  BY <1>1 DEF Timers!Init, Timers!TypeOK, Timers!Idle, Timers!Firing
<1>3. running.busy = FALSE /\ DOMAIN queue = {} /\ seen.raised = {} /\ seen.cleared = {}
  BY <1>1 DEF Timers!Init, Timers!Idle
<1>4. Queued /\ StillQueued /\ Least
  BY <1>3 DEF Queued, StillQueued, Least
<1>5. Behind
  BY <1>1 DEF Timers!Init, Behind
<1>6. Timers!RunsOnce
  BY <1>1, <1>3 DEF Timers!Init, Timers!RunsOnce
<1> QED
  BY <1>2, <1>4, <1>5, <1>6 DEF TimersInv

\* The running entry is the one that goes, when nothing climbs over it.
LEMMA TopIsRunning ==
  ASSUME NEW q, NEW t \in Timers!TopAfter(q, running),
         \A x \in DOMAIN q : q[x].time \in Nat /\ running.firing.time <= q[x].time,
         running.firing.time \in Nat
  PROVE  t = running.entry
<1>1. {x \in DOMAIN q \ {running.entry} : Timers!Climbs(q[x].time, running.firing.time)} = {}
  BY DEF Timers!Climbs
<1> QED
  BY <1>1 DEF Timers!TopAfter

\* What is on top is queued, or it is the running entry.
LEMMA TopIsQueued ==
  ASSUME NEW q, NEW t \in Timers!TopAfter(q, running)
  PROVE  t \in DOMAIN q \cup {running.entry}
BY DEF Timers!TopAfter

\* An executing event is an entry with a firing time.
LEMMA BusyIs ==
  ASSUME Timers!TypeOK, running.busy
  PROVE  /\ running.entry \in EventEntry /\ running.firing \in Timers!Firing /\ running.fires \in BOOLEAN
         /\ running.firing.time \in Nat /\ running.firing.timer \in Timer
<1>1. running \notin {Timers!Idle}
  BY DEF Timers!Idle
<1> QED
  BY <1>1 DEF Timers!TypeOK, Timers!Firing

\* What is raised while an entry executes fires after it.
LEMMA RaiseEventInv ==
  ASSUME TimersInv, NEW e \in EventEntry, NEW tm \in Timer, NEW d \in 0..MaxDelay, Timers!RaiseEvent(e, tm, d)
  PROVE  TimersInv'
<1> DEFINE f == [timer |-> tm, time |-> time.clock + d]
<1>t. /\ Timers!TypeOK /\ Queued /\ StillQueued /\ Timers!RunsOnce
      /\ ~conf.putBack => Least /\ Behind
  BY DEF TimersInv
<1>d. d \in Nat /\ time.clock \in Nat /\ time.limit \in Nat /\ time = [clock |-> time.clock, limit |-> time.limit]
  BY <1>t DEF Timers!TypeOK
<1>a. /\ e \notin seen.raised
      /\ queue' = Timers!With(e, f)
      /\ seen' = [seen EXCEPT !.raised = @ \cup {e}]
      /\ time' = Timers!TimeNow(time)
      /\ conf' = conf /\ running' = running
  BY DEF Timers!RaiseEvent
<1>f. f \in Timers!Firing /\ f.time = time.clock + d
  BY <1>d DEF Timers!Firing
<1>q. /\ DOMAIN queue' = DOMAIN queue \cup {e} /\ queue'[e] = f
      /\ \A q \in DOMAIN queue : q # e /\ queue'[q] = queue[q]
  <2>1. e \notin DOMAIN queue
    BY <1>t, <1>a DEF Queued
  <2> HIDE DEF f
  <2>2. queue' = Timers!With(e, f)
    BY <1>a
  <2>3. /\ DOMAIN queue' = DOMAIN queue \cup {e}
        /\ queue'[e] = f
        /\ \A q \in DOMAIN queue \ {e} : queue'[q] = queue[q]
    BY <2>2 DEF Timers!With
  <2> QED
    BY <2>1, <2>3
<1>s. /\ seen'.raised = seen.raised \cup {e} /\ seen'.cleared = seen.cleared
      /\ seen'.runs = seen.runs /\ seen'.cancelled = seen.cancelled
      /\ seen' \in [cancelled : SUBSET Timer, raised : SUBSET EventEntry, cleared : SUBSET EventEntry, runs : [EventEntry -> Nat]]
  BY <1>t, <1>a DEF Timers!TypeOK
<1>c. time'.clock = time.clock /\ time'.limit \in {time.limit, time.clock} /\ time' \in [clock : Nat, limit : Nat]
  BY <1>a, <1>d DEF Timers!TimeNow
<1>1. Timers!TypeOK'
  <2>1. queue' \in [DOMAIN queue' -> Timers!Firing] /\ DOMAIN queue' \subseteq EventEntry
    <3>1. queue' = [q \in DOMAIN queue' |-> queue'[q]]
      BY <1>a DEF Timers!With
    <3>2. \A q \in DOMAIN queue' : queue'[q] \in Timers!Firing
      BY <1>q, <1>f, <1>t DEF Timers!TypeOK
    <3> QED
      BY <3>1, <3>2, <1>q, <1>t DEF Timers!TypeOK
  <2> QED
    BY <2>1, <1>t, <1>a, <1>s, <1>c DEF Timers!TypeOK
<1>2. Queued'
  BY <1>t, <1>a, <1>q, <1>s DEF Queued
<1>3. StillQueued'
  BY <1>t, <1>a, <1>q DEF StillQueued
<1>4. ASSUME ~conf'.putBack PROVE Least' /\ Behind'
  <2>1. Behind'
    BY <1>4, <1>t, <1>a, <1>c, <1>d DEF Behind
  <2>2. Least'
    <3> SUFFICES ASSUME running'.busy
                 PROVE  /\ running'.firing.time <= time'.clock
                        /\ \A q \in DOMAIN queue' : running'.firing.time <= queue'[q].time
      BY DEF Least
    <3>1. running.firing.time \in Nat /\ running.firing.time <= time.clock
      BY <1>4, <1>t, <1>a, BusyIs DEF Least
    <3>2. running.firing.time <= f.time
      BY <3>1, <1>d, <1>f
    <3>3. \A q \in DOMAIN queue : running.firing.time <= queue[q].time
      BY <1>4, <1>t, <1>a DEF Least
    <3> HIDE DEF f
    <3> QED
      BY <3>1, <3>2, <3>3, <1>a, <1>c, <1>q
  <2> QED
    BY <2>1, <2>2
<1>5. Timers!RunsOnce'
  BY <1>t, <1>a, <1>q, <1>s DEF Timers!RunsOnce, StillQueued, Queued
<1> QED
  BY <1>1, <1>2, <1>3, <1>4, <1>5 DEF TimersInv

\* The entry that executes is counted once, and is still in the queue.
LEMMA ExecuteInv ==
  ASSUME TimersInv, NEW e \in EventEntry, Timers!Execute(e)
  PROVE  TimersInv'
<1>t. /\ Timers!TypeOK /\ Queued /\ Timers!RunsOnce
      /\ ~conf.putBack => Behind
  BY DEF TimersInv
<1>a. /\ running.busy = FALSE /\ e \in DOMAIN queue
      /\ \A q \in DOMAIN queue : queue[e].time <= queue[q].time
      /\ queue[e].time <= time.limit
      /\ running' = [busy |-> TRUE, entry |-> e, firing |-> queue[e], fires |-> queue[e].timer \notin seen.cancelled]
      /\ time' = IF conf.simulated THEN [time EXCEPT !.clock = queue[e].time] ELSE Timers!TimeNow(time)
      /\ seen' = [seen EXCEPT !.runs[e] = @ + 1]
      /\ conf' = conf /\ queue' = queue
  <2>1. CASE running \in {Timers!Idle}
    BY <2>1 DEF Timers!Execute, Timers!Tops, Timers!Idle
  <2>2. CASE running \notin {Timers!Idle}
    BY <2>2, <1>t DEF Timers!Execute, Timers!Tops, Timers!TypeOK
  <2> QED
    BY <2>1, <2>2
<1>d. /\ time.clock \in Nat /\ time.limit \in Nat /\ queue[e] \in Timers!Firing /\ queue[e].time \in Nat
      /\ time = [clock |-> time.clock, limit |-> time.limit]
  BY <1>t, <1>a DEF Timers!TypeOK, Timers!Firing
<1>s. /\ seen'.raised = seen.raised /\ seen'.cleared = seen.cleared /\ seen'.cancelled = seen.cancelled
      /\ seen'.runs = [seen.runs EXCEPT ![e] = @ + 1] /\ seen.runs \in [EventEntry -> Nat]
      /\ seen' \in [cancelled : SUBSET Timer, raised : SUBSET EventEntry, cleared : SUBSET EventEntry, runs : [EventEntry -> Nat]]
  BY <1>t, <1>a DEF Timers!TypeOK
<1>1. Timers!TypeOK'
  <2>1. running' \in [busy : {TRUE}, entry : EventEntry, firing : Timers!Firing, fires : BOOLEAN]
    BY <1>a, <1>d
  <2>2. time' \in [clock : Nat, limit : Nat]
    BY <1>a, <1>d DEF Timers!TimeNow
  <2> QED
    BY <2>1, <2>2, <1>t, <1>a, <1>s DEF Timers!TypeOK
<1>2. Queued'
  BY <1>t, <1>a, <1>s DEF Queued
<1>3. StillQueued'
  BY <1>a DEF StillQueued
<1>4. ASSUME ~conf'.putBack PROVE Least' /\ Behind'
  <2>1. Behind /\ ~conf.putBack
    BY <1>4, <1>t, <1>a
  <2>2. queue[e].time <= time'.clock
    BY <2>1, <1>a, <1>d DEF Behind, Timers!TimeNow
  <2>3. Behind'
    BY <2>1, <1>a, <1>d DEF Behind, Timers!TimeNow
  <2> QED
    BY <2>2, <2>3, <1>a DEF Least
<1>5. Timers!RunsOnce'
  BY <1>t, <1>a, <1>s DEF Timers!RunsOnce, Queued
<1> QED
  BY <1>1, <1>2, <1>3, <1>4, <1>5 DEF TimersInv

\* The entry that is popped is the one that was executed.
LEMMA PopInv ==
  ASSUME TimersInv, Timers!Pop
  PROVE  TimersInv'
<1>t. /\ Timers!TypeOK /\ Queued /\ StillQueued /\ Timers!RunsOnce
      /\ ~conf.putBack => Least /\ Behind
  BY DEF TimersInv
<1>p. PICK t \in Timers!TopAfter(queue, running) : queue' = Timers!Without(queue, t)
  BY DEF Timers!Pop
<1>a. /\ running.busy /\ running' = Timers!Idle
      /\ conf' = conf /\ time' = time /\ seen' = seen
  BY DEF Timers!Pop
<1>b. running.entry \in DOMAIN queue /\ queue[running.entry] = running.firing /\ running.firing.time \in Nat
  BY <1>t, <1>a, BusyIs DEF StillQueued
<1>c. t \in DOMAIN queue
  BY <1>b, <1>p, TopIsQueued
<1>q. /\ DOMAIN queue' = DOMAIN queue \ {t} /\ \A x \in DOMAIN queue' : queue'[x] = queue[x]
      /\ queue' = [x \in DOMAIN queue' |-> queue'[x]]
  BY <1>p DEF Timers!Without
<1>i. running'.busy = FALSE
  BY <1>a DEF Timers!Idle
<1>1. Timers!TypeOK'
  <2>1. queue' \in [DOMAIN queue' -> Timers!Firing] /\ DOMAIN queue' \subseteq EventEntry
    BY <1>q, <1>t DEF Timers!TypeOK
  <2> QED
    BY <2>1, <1>t, <1>a DEF Timers!TypeOK
<1>2. Queued'
  BY <1>t, <1>a, <1>q DEF Queued
<1>3. StillQueued' /\ Least'
  BY <1>i DEF StillQueued, Least
<1>4. ~conf'.putBack => Behind'
  BY <1>t, <1>a DEF Behind
<1>5. Timers!RunsOnce'
  <2> SUFFICES ASSUME ~conf.putBack PROVE Timers!RunsOnce'
    BY <1>a DEF Timers!RunsOnce
  <2>1. \A x \in DOMAIN queue : queue[x].time \in Nat /\ running.firing.time <= queue[x].time
    BY <1>t, <1>a DEF Least, Timers!TypeOK, Timers!Firing
  <2>2. t = running.entry
    BY <2>1, <1>b, <1>p, TopIsRunning
  <2> QED
    BY <2>2, <1>t, <1>a, <1>i, <1>q, <1>b DEF Timers!RunsOnce, Queued
<1> QED
  BY <1>1, <1>2, <1>3, <1>4, <1>5 DEF TimersInv

\* A timer is queued again as an entry of its own.
LEMMA RescheduleInv ==
  ASSUME TimersInv, NEW e \in EventEntry, NEW d \in 0..MaxDelay, Timers!Reschedule(e, d)
  PROVE  TimersInv'
<1> DEFINE f == [timer |-> running.firing.timer, time |-> time.clock + d]
<1>t. /\ Timers!TypeOK /\ Queued /\ StillQueued /\ Timers!RunsOnce
      /\ ~conf.putBack => Least /\ Behind
  BY DEF TimersInv
<1>d. d \in Nat /\ time.clock \in Nat /\ time.limit \in Nat /\ time = [clock |-> time.clock, limit |-> time.limit]
  BY <1>t DEF Timers!TypeOK
<1>a. /\ running.busy /\ running' = Timers!Idle
      /\ e \notin seen.raised
      /\ seen' = [seen EXCEPT !.raised = @ \cup {e}]
      /\ time' = Timers!TimeNow(time)
      /\ conf' = conf
  BY DEF Timers!Reschedule
<1>p. PICK t \in Timers!TopAfter(Timers!With(e, f), running) : queue' = Timers!Without(Timers!With(e, f), t)
  BY DEF Timers!Reschedule
<1>b. /\ running.entry \in DOMAIN queue /\ queue[running.entry] = running.firing
      /\ running.firing.time \in Nat /\ running.firing.timer \in Timer
  BY <1>t, <1>a, BusyIs DEF StillQueued
<1>f. f \in Timers!Firing /\ f.time = time.clock + d /\ f.time \in Nat
  BY <1>d, <1>b DEF Timers!Firing
<1> HIDE DEF f
<1>n. e \notin DOMAIN queue
  BY <1>t, <1>a DEF Queued
<1>w. /\ DOMAIN Timers!With(e, f) = DOMAIN queue \cup {e} /\ Timers!With(e, f)[e] = f
      /\ \A q \in DOMAIN queue : Timers!With(e, f)[q] = queue[q]
  BY <1>n DEF Timers!With
<1>c. t \in DOMAIN queue \cup {e}
  BY <1>b, <1>p, <1>w, TopIsQueued
<1>q. /\ DOMAIN queue' = (DOMAIN queue \cup {e}) \ {t}
      /\ \A x \in DOMAIN queue' : queue'[x] = Timers!With(e, f)[x]
      /\ queue' = [x \in DOMAIN queue' |-> queue'[x]]
  BY <1>p, <1>w DEF Timers!Without
<1>s. /\ seen'.raised = seen.raised \cup {e} /\ seen'.cleared = seen.cleared /\ seen'.runs = seen.runs
      /\ seen' \in [cancelled : SUBSET Timer, raised : SUBSET EventEntry, cleared : SUBSET EventEntry, runs : [EventEntry -> Nat]]
  BY <1>t, <1>a DEF Timers!TypeOK
<1>m. time'.clock = time.clock /\ time'.limit \in {time.limit, time.clock} /\ time' \in [clock : Nat, limit : Nat]
  BY <1>a, <1>d DEF Timers!TimeNow
<1>i. running'.busy = FALSE
  BY <1>a DEF Timers!Idle
<1>1. Timers!TypeOK'
  <2>1. \A x \in DOMAIN queue' : queue'[x] \in Timers!Firing
    BY <1>q, <1>w, <1>f, <1>t DEF Timers!TypeOK
  <2>2. queue' \in [DOMAIN queue' -> Timers!Firing] /\ DOMAIN queue' \subseteq EventEntry
    BY <2>1, <1>q, <1>t DEF Timers!TypeOK
  <2> QED
    BY <2>2, <1>t, <1>a, <1>s, <1>m DEF Timers!TypeOK
<1>2. Queued'
  BY <1>t, <1>a, <1>q, <1>s DEF Queued
<1>3. StillQueued' /\ Least'
  BY <1>i DEF StillQueued, Least
<1>4. ~conf'.putBack => Behind'
  BY <1>t, <1>a, <1>m, <1>d DEF Behind
<1>5. Timers!RunsOnce'
  <2> SUFFICES ASSUME ~conf.putBack PROVE Timers!RunsOnce'
    BY <1>a DEF Timers!RunsOnce
  <2>1. running.firing.time <= time.clock /\ \A x \in DOMAIN queue : running.firing.time <= queue[x].time
    BY <1>t, <1>a DEF Least
  <2>2. \A x \in DOMAIN queue : queue[x].time \in Nat
    BY <1>t DEF Timers!TypeOK, Timers!Firing
  <2>3. running.firing.time <= f.time
    BY <2>1, <1>f, <1>d, <1>b
  <2>4. \A x \in DOMAIN Timers!With(e, f) : Timers!With(e, f)[x].time \in Nat /\ running.firing.time <= Timers!With(e, f)[x].time
    BY <2>1, <2>2, <2>3, <1>w, <1>f
  <2>5. t = running.entry
    BY <2>4, <1>b, <1>p, TopIsRunning
  <2> QED
    BY <2>5, <1>t, <1>a, <1>i, <1>q, <1>b, <1>s, <1>n DEF Timers!RunsOnce, Queued
<1> QED
  BY <1>1, <1>2, <1>3, <1>4, <1>5 DEF TimersInv

\* The steps that change the clock, the limit or the cancelled timers only.
LEMMA CancelInv ==
  ASSUME TimersInv, NEW tm \in Timer, Timers!Cancel(tm)
  PROVE  TimersInv'
<1>t. /\ Timers!TypeOK /\ Queued /\ StillQueued /\ Timers!RunsOnce
      /\ ~conf.putBack => Least /\ Behind
  BY DEF TimersInv
<1>a. seen' = [seen EXCEPT !.cancelled = @ \cup {tm}] /\ conf' = conf /\ time' = time /\ queue' = queue /\ running' = running
  BY DEF Timers!Cancel
<1>s. /\ seen'.raised = seen.raised /\ seen'.cleared = seen.cleared /\ seen'.runs = seen.runs
      /\ seen' \in [cancelled : SUBSET Timer, raised : SUBSET EventEntry, cleared : SUBSET EventEntry, runs : [EventEntry -> Nat]]
  BY <1>t, <1>a DEF Timers!TypeOK
<1>1. Timers!TypeOK'
  BY <1>t, <1>a, <1>s DEF Timers!TypeOK
<1>2. Queued' /\ StillQueued' /\ Timers!RunsOnce'
  BY <1>t, <1>a, <1>s DEF Queued, StillQueued, Timers!RunsOnce
<1>3. ~conf'.putBack => Least' /\ Behind'
  BY <1>t, <1>a DEF Least, Behind
<1> QED
  BY <1>1, <1>2, <1>3 DEF TimersInv

\* Time passes between events, and is never put back but in a scenario for it.
LEMMA TimeInv ==
  ASSUME TimersInv, (\E d \in 0..MaxDelay : Timers!ProcessTill(d)) \/ Timers!Tick \/ Timers!PutBack
  PROVE  TimersInv'
<1>t. /\ Timers!TypeOK /\ Queued /\ StillQueued /\ Timers!RunsOnce
      /\ ~conf.putBack => Least /\ Behind
  BY DEF TimersInv
<1>d. time.clock \in Nat /\ time.limit \in Nat /\ time = [clock |-> time.clock, limit |-> time.limit]
  BY <1>t DEF Timers!TypeOK
<1>a. conf' = conf /\ queue' = queue /\ running' = running /\ seen' = seen
  BY DEF Timers!ProcessTill, Timers!Tick, Timers!PutBack
<1>m. /\ time' \in [clock : Nat, limit : Nat]
      /\ ~conf.putBack => time.clock <= time'.clock
      /\ Behind => Behind' \/ conf.putBack
  <2>1. CASE \E d \in 0..MaxDelay : Timers!ProcessTill(d)
    BY <2>1, <1>d, <1>a DEF Timers!ProcessTill, Timers!TimeNow, Behind
  <2>2. CASE Timers!Tick
    <3>1. PICK c \in 0..MaxTime : c > time.clock /\ time' = [time EXCEPT !.clock = c]
      BY <2>2 DEF Timers!Tick
    <3>2. c \in Nat /\ time'.clock = c /\ time'.limit = time.limit /\ time' \in [clock : Nat, limit : Nat]
      BY <3>1, <1>d
    <3> QED
      BY <3>1, <3>2, <1>d, <1>a DEF Behind
  <2>3. CASE Timers!PutBack
    <3>1. PICK c \in 0..MaxTime : time' = [time EXCEPT !.clock = c]
      BY <2>3 DEF Timers!PutBack
    <3> QED
      BY <2>3, <3>1, <1>d DEF Timers!PutBack
  <2> QED
    BY <2>1, <2>2, <2>3
<1>1. Timers!TypeOK'
  BY <1>t, <1>a, <1>m DEF Timers!TypeOK
<1>2. Queued' /\ StillQueued' /\ Timers!RunsOnce'
  BY <1>t, <1>a DEF Queued, StillQueued, Timers!RunsOnce
<1>3. ASSUME ~conf'.putBack PROVE Least' /\ Behind'
  <2>1. Behind'
    BY <1>3, <1>t, <1>a, <1>m
  <2>2. time'.clock \in Nat /\ time.clock <= time'.clock
    BY <1>3, <1>a, <1>m
  <2>3. running.busy => running.firing.time \in Nat
    BY <1>t, BusyIs
  <2>4. Least'
    BY <1>3, <1>t, <1>a, <1>d, <2>2, <2>3 DEF Least
  <2> QED
    BY <2>1, <2>4
<1> QED
  BY <1>1, <1>2, <1>3 DEF TimersInv

\* A reset clears the queue, and what it clears is not to run.
LEMMA ResetInv ==
  ASSUME TimersInv, Timers!Reset
  PROVE  TimersInv'
<1>t. /\ Timers!TypeOK /\ Queued /\ StillQueued /\ Timers!RunsOnce
      /\ ~conf.putBack => Least /\ Behind
  BY DEF TimersInv
<1>a. /\ ~running.busy /\ conf' = conf /\ time' = time /\ running' = running
      /\ seen' = [seen EXCEPT !.cleared = @ \cup DOMAIN queue]
      /\ queue' = [e \in {} |-> Timers!Idle] /\ DOMAIN queue' = {}
  BY DEF Timers!Reset
<1>s. /\ seen'.raised = seen.raised /\ seen'.cleared = seen.cleared \cup DOMAIN queue /\ seen'.runs = seen.runs
      /\ seen' \in [cancelled : SUBSET Timer, raised : SUBSET EventEntry, cleared : SUBSET EventEntry, runs : [EventEntry -> Nat]]
  BY <1>t, <1>a DEF Timers!TypeOK
<1>1. Timers!TypeOK'
  BY <1>t, <1>a, <1>s DEF Timers!TypeOK
<1>2. Queued' /\ StillQueued' /\ Timers!RunsOnce'
  BY <1>t, <1>a, <1>s DEF Queued, StillQueued, Timers!RunsOnce
<1>3. ~conf'.putBack => Least' /\ Behind'
  BY <1>t, <1>a DEF Least, Behind
<1> QED
  BY <1>1, <1>2, <1>3 DEF TimersInv

-----------------------------------------------------------------------------

\* Every step preserves the invariant.
LEMMA TimersStep == TimersInv /\ [Timers!Next]_Timers!vars => TimersInv'
<1>1. SUFFICES ASSUME TimersInv, [Timers!Next]_Timers!vars PROVE TimersInv'
  OBVIOUS
<1>2. CASE UNCHANGED Timers!vars
  BY <1>1, <1>2 DEF Timers!vars, TimersInv, Timers!TypeOK, Queued, StillQueued, Least, Behind, Timers!RunsOnce
<1>3. CASE Timers!Next
  <2>1. CASE \E e \in EventEntry, tm \in Timer, d \in 0..MaxDelay : Timers!RaiseEvent(e, tm, d)
    BY <1>1, <2>1, RaiseEventInv
  <2>2. CASE \E e \in EventEntry : Timers!Execute(e)
    BY <1>1, <2>2, ExecuteInv
  <2>3. CASE Timers!Pop
    BY <1>1, <2>3, PopInv
  <2>4. CASE \E e \in EventEntry, d \in 0..MaxDelay : Timers!Reschedule(e, d)
    BY <1>1, <2>4, RescheduleInv
  <2>5. CASE \E tm \in Timer : Timers!Cancel(tm)
    BY <1>1, <2>5, CancelInv
  <2>6. CASE (\E d \in 0..MaxDelay : Timers!ProcessTill(d)) \/ Timers!Tick \/ Timers!PutBack
    BY <1>1, <2>6, TimeInv
  <2>7. CASE Timers!Reset
    BY <1>1, <2>7, ResetInv
  <2> QED
    BY <1>3, <2>1, <2>2, <2>3, <2>4, <2>5, <2>6, <2>7 DEF Timers!Next
<1> QED
  BY <1>1, <1>2, <1>3

\* Every event that was raised is executed once and then goes, whatever the events raise and cancel
\* while they execute, unless the wall clock is put back: the queue's top is still the event that
\* was executed when it is popped (WANScheduler.cpp:60-70, Simulator.cpp:80-92).
THEOREM EveryEventRunsOnce == Timers!Spec => []Timers!RunsOnce
<1>1. TimersInv => Timers!RunsOnce
  BY DEF TimersInv
<1> QED
  BY <1>1, TimersInit, TimersStep, PTL DEF Timers!Spec

-----------------------------------------------------------------------------
(***************************************************************************)
(* The network layer: the bandwidth it tells, for any transports, packets, *)
(* buckets and windows.                                                    *)
(***************************************************************************)

\* The network layer's variables, where they are not named like the scheduler's.
now == v2
window == v4
past == v5

USE DEF now, window, past

Measured == [time : Nat, size : Nat]

Ways == {"in", "out"}

\* What there may be in a queue, and where.
Item(c) == c.items
Waiting(c) == [Proto -> [kernel : Seq(Item(c)), ready : Seq(Item(c)), left : Nat, open : BOOLEAN]]

\* Measurements are made in the order of time.
Ascending(w) ==
    /\ \A i, j \in 1 .. Len(w) : i <= j => w[i].time <= w[j].time
    /\ \A i \in 1 .. Len(w) : w[i].time <= now

\* Since any moment no more was measured than there came; and since any moment of the
\* window, no less than there came but for a bucket.
Fits(w, p) ==
    /\ \A t \in Int : Layer!Since(w, t) <= Layer!Since(p, t)
    /\ \A t \in Int : t >= now - conf.window =>
          Layer!Since(p, t + BucketSize - 1) <= Layer!Since(w, t)

LayerInv ==
    /\ conf \in NetScenarios /\ now \in Nat
    /\ queue \in Waiting(conf)
    /\ window \in [Ways -> Seq(Measured)] /\ past \in [Ways -> Seq(Measured)]
    /\ \A dir \in Ways : Ascending(window[dir]) /\ Fits(window[dir], past[dir])

-----------------------------------------------------------------------------

\* A set of numbers that is not empty has a least one.
LEMMA LeastOf ==
    ASSUME NEW T \in SUBSET Nat, T # {}
    PROVE  \E n \in T : \A m \in T : n <= m
<1>. DEFINE R == OpToRel(<, Nat)
<1>1. IsWellFoundedOn(R, Nat)
  BY NatLessThanWellFounded
<1>2. \A m, n \in Nat : <<m, n>> \in R <=> m < n
  BY DEF OpToRel
<1>. HIDE DEF R
<1>3. PICK n \in T : \A m \in T : ~(<<m, n>> \in R)
  BY <1>1, WFMin, Zenon
<1>4. \A m \in T : ~(m < n)
  BY <1>2, <1>3
<1>. QED  BY <1>4

\* What holds at first, and of a number if of the one before, holds of all.
LEMMA EveryStep ==
    ASSUME NEW n \in Nat, NEW P, 0 \in P, \A i \in 1 .. n : i - 1 \in P => i \in P
    PROVE  \A i \in 0 .. n : i \in P
<1>. DEFINE T == {i \in 0 .. n : i \notin P}
<1>. SUFFICES ASSUME T # {} PROVE FALSE
  OBVIOUS
<1>1. PICK m \in T : \A i \in T : m <= i
  <2>1. T \in SUBSET Nat
    OBVIOUS
  <2>. HIDE DEF T
  <2>. QED  BY <2>1, LeastOf
<1>2. m \in 1 .. n /\ m - 1 \in 0 .. n
  BY <1>1
<1>3. m - 1 \in P
  BY <1>1, <1>2
<1>. QED  BY <1>1, <1>2, <1>3

\* u is what there is of w after each measurement.
Sums(w, u) ==
    /\ u \in [0 .. Len(w) -> Nat] /\ u[0] = 0
    /\ \A i \in 1 .. Len(w) : u[i] = u[i - 1] + w[i].size
    /\ Layer!Used(w) = u[Len(w)]

\* The loop that adds up the measurements has a value.
LEMMA UsedIs ==
    ASSUME NEW w \in Seq(Measured)
    PROVE  \E u : Sums(w, u)
<1>. DEFINE n == Len(w)
            Whole(f) == f = [i \in 0 .. n |-> IF i = 0 THEN 0 ELSE f[i - 1] + w[i].size]
<1>1. n \in Nat /\ \A i \in 1 .. n : w[i].size \in Nat
  <2>1. n \in Nat /\ \A i \in 1 .. n : w[i] \in Measured
    OBVIOUS
  <2>. HIDE DEF n
  <2>. QED  BY <2>1 DEF Measured
<1>2. Layer!Used(w) = (CHOOSE f : Whole(f))[n]
  BY Zenon DEF Layer!Used
<1>3. \E f \in [0 .. n -> Nat] : f[0] = 0 /\ \A i \in 1 .. n : f[i] = f[i - 1] + w[i].size
  <2>. DEFINE Done(f, m) == f[0] = 0 /\ \A i \in 1 .. m : f[i] = f[i - 1] + w[i].size
              P == {m \in 0 .. n : \E f \in [0 .. m -> Nat] : Done(f, m)}
  <2>0. n \in Nat
    BY <1>1
  <2>1. 0 \in P
    <3>. DEFINE f == [i \in 0 .. 0 |-> 0]
    <3>1. f \in [0 .. 0 -> Nat] /\ Done(f, 0)
      OBVIOUS
    <3>2. 0 \in 0 .. n
      BY <2>0
    <3>. HIDE DEF f, Done, n
    <3>. QED  BY <3>1, <3>2, Zenon
  <2>2. ASSUME NEW m \in 1 .. n, m - 1 \in P PROVE m \in P
    <3>1. PICK f \in [0 .. m - 1 -> Nat] : Done(f, m - 1)
      BY <2>2
    <3>. DEFINE g == [i \in 0 .. m |-> IF i = m THEN f[m - 1] + w[m].size ELSE f[i]]
    <3>2. f[m - 1] \in Nat /\ f[m - 1] + w[m].size \in Nat
      BY <1>1, <2>0, <3>1
    <3>3. g \in [0 .. m -> Nat]
      BY <2>0, <3>1, <3>2
    <3>4. Done(g, m)
      <4>1. g[0] = 0
        BY <2>0, <3>1
      <4>2. ASSUME NEW i \in 1 .. m PROVE g[i] = g[i - 1] + w[i].size
        <5>1. CASE i = m
          BY <2>0, <5>1
        <5>2. CASE i # m
          BY <2>0, <5>2, <3>1
        <5>. QED  BY <5>1, <5>2
      <4>. HIDE DEF g
      <4>. QED  BY <4>1, <4>2
    <3>5. m \in 0 .. n
      BY <2>0
    <3>. HIDE DEF g, Done, n
    <3>. QED  BY <3>3, <3>4, <3>5, Zenon
  <2>. HIDE DEF P, n
  <2>3. \A m \in 0 .. n : m \in P
    BY <2>0, <2>1, <2>2, EveryStep
  <2>4. n \in P
    BY <2>0, <2>3
  <2>. QED  BY <2>4 DEF P
<1>4. \E f : Whole(f)
  <2>1. PICK f \in [0 .. n -> Nat] : f[0] = 0 /\ \A i \in 1 .. n : f[i] = f[i - 1] + w[i].size
    BY <1>3
  <2>2. \A i \in 0 .. n : f[i] = IF i = 0 THEN 0 ELSE f[i - 1] + w[i].size
    BY <1>1, <2>1
  <2>3. Whole(f)
    BY <2>1, <2>2
  <2>. HIDE DEF Whole
  <2>. QED  BY <2>3
<1>. DEFINE u == CHOOSE f : Whole(f)
<1>5. Whole(u)
  <2>. HIDE DEF Whole
  <2>. QED  BY <1>4
<1>. HIDE DEF u, n
<1>6. u[0] = 0 /\ \A i \in 1 .. n : u[i] = u[i - 1] + w[i].size
  BY <1>1, <1>5
<1>7. \A i \in 0 .. n : u[i] \in Nat
  <2>. DEFINE P == {i \in 0 .. n : u[i] \in Nat}
  <2>1. 0 \in P
    BY <1>1, <1>6
  <2>2. \A i \in 1 .. n : i - 1 \in P => i \in P
    BY <1>1, <1>6
  <2>. HIDE DEF P
  <2>3. \A i \in 0 .. n : i \in P
    BY <1>1, <2>1, <2>2, EveryStep
  <2>. QED  BY <2>3 DEF P
<1>8. u \in [0 .. n -> Nat]
  BY <1>5, <1>7
<1>9. Layer!Used(w) = u[n]
  BY <1>2 DEF u
<1>. QED  BY <1>6, <1>8, <1>9 DEF Sums, n

\* Measurements of the same sizes up to one add up to the same.
LEMMA SumsAgree ==
    ASSUME NEW w \in Seq(Measured), NEW v \in Seq(Measured), NEW a, NEW b, Sums(w, a), Sums(v, b),
           NEW k \in Nat, k <= Len(w), k <= Len(v), \A i \in 1 .. k : w[i].size = v[i].size
    PROVE  a[k] = b[k]
<1>. DEFINE P == {i \in 0 .. k : a[i] = b[i]}
<1>1. 0 \in P
  BY DEF Sums
<1>2. ASSUME NEW i \in 1 .. k, i - 1 \in P PROVE i \in P
  <2>1. i \in 1 .. Len(w) /\ i \in 1 .. Len(v)
    OBVIOUS
  <2>2. a[i] = a[i - 1] + w[i].size /\ b[i] = b[i - 1] + v[i].size
    BY <2>1 DEF Sums
  <2>. QED  BY <1>2, <2>2
<1>. HIDE DEF P
<1>3. \A i \in 0 .. k : i \in P
  BY <1>1, <1>2, EveryStep
<1>. QED  BY <1>3 DEF P

\* What is measured adds up to a number.
LEMMA UsedNat ==
    ASSUME NEW w \in Seq(Measured)
    PROVE  Layer!Used(w) \in Nat
<1>1. PICK u : Sums(w, u)
  BY UsedIs
<1>. QED  BY <1>1 DEF Sums

\* A measurement at the end adds its size.
LEMMA UsedAppend ==
    ASSUME NEW w \in Seq(Measured), NEW m \in Measured
    PROVE  Layer!Used(Append(w, m)) = Layer!Used(w) + m.size
<1>. DEFINE v == Append(w, m)
<1>1. v \in Seq(Measured) /\ Len(v) = Len(w) + 1 /\ v[Len(w) + 1] = m
      /\ \A i \in 1 .. Len(w) : w[i] = v[i]
  OBVIOUS
<1>. HIDE DEF v
<1>2. PICK a : Sums(w, a)
  BY UsedIs
<1>3. PICK b : Sums(v, b)
  BY <1>1, UsedIs
<1>4. Len(w) \in Nat
  OBVIOUS
<1>5. a[Len(w)] = b[Len(w)]
  <2>1. \A i \in 1 .. Len(w) : w[i].size = v[i].size
    BY <1>1
  <2>2. Len(w) <= Len(v)
    BY <1>1, <1>4
  <2>. QED  BY <1>1, <1>2, <1>3, <1>4, <2>1, <2>2, SumsAgree
<1>6. Layer!Used(v) = b[Len(w) + 1] /\ b[Len(w) + 1] = b[Len(w)] + m.size
  BY <1>1, <1>3, <1>4 DEF Sums
<1>7. Layer!Used(w) = a[Len(w)]
  BY <1>2 DEF Sums
<1>. QED  BY <1>5, <1>6, <1>7 DEF v

\* The last measurement may grow.
LEMMA UsedGrows ==
    ASSUME NEW w \in Seq(Measured), NEW v \in Seq(Measured), NEW s \in Nat,
           Len(w) > 0, Len(v) = Len(w), v[Len(w)].size = w[Len(w)].size + s,
           \A i \in 1 .. Len(w) - 1 : v[i].size = w[i].size
    PROVE  Layer!Used(v) = Layer!Used(w) + s
<1>. DEFINE k == Len(w) - 1
<1>1. PICK a : Sums(w, a)
  BY UsedIs
<1>2. PICK b : Sums(v, b)
  BY UsedIs
<1>3. k \in Nat /\ Len(w) = k + 1
  OBVIOUS
<1>. HIDE DEF k
<1>4. a[k] = b[k]
  <2>1. \A i \in 1 .. k : w[i].size = v[i].size
    BY <1>3
  <2>. QED  BY <1>1, <1>2, <1>3, <2>1, SumsAgree
<1>5. a[k + 1] = a[k] + w[k + 1].size /\ Layer!Used(w) = a[k + 1] /\ a[k] \in Nat
  BY <1>1, <1>3 DEF Sums
<1>6. b[k + 1] = b[k] + v[k + 1].size /\ Layer!Used(v) = b[k + 1]
  BY <1>2, <1>3 DEF Sums
<1>7. w[k + 1].size \in Nat
  <2>1. w[k + 1] \in Measured
    BY <1>3
  <2>. QED  BY <2>1 DEF Measured
<1>. QED  BY <1>3, <1>4, <1>5, <1>6, <1>7

\* What is dropped from the front counts no more, if it counted at all.
LEMMA UsedDropped ==
    ASSUME NEW w \in Seq(Measured), NEW k \in 1 .. Len(w) + 1
    PROVE  /\ SubSeq(w, k, Len(w)) \in Seq(Measured)
           /\ Layer!Used(SubSeq(w, k, Len(w))) <= Layer!Used(w)
           /\ (\A i \in 1 .. k - 1 : w[i].size = 0)
                 => Layer!Used(SubSeq(w, k, Len(w))) = Layer!Used(w)
<1>. DEFINE v == SubSeq(w, k, Len(w))
            n == Len(w)
            l == n + 1 - k
<1>0. k \in Nat /\ n \in Nat /\ l \in Nat /\ k >= 1 /\ k <= n + 1 /\ l = (n + 1) - k
  OBVIOUS
<1>1. v \in Seq(Measured) /\ Len(v) = l /\ \A i \in 1 .. l : v[i] = w[i + k - 1]
  OBVIOUS
<1>. HIDE DEF v, n, l
<1>2. PICK a : Sums(w, a)
  BY UsedIs
<1>3. PICK b : Sums(v, b)
  BY <1>1, UsedIs
<1>a. /\ a \in [0 .. n -> Nat] /\ a[0] = 0 /\ Layer!Used(w) = a[n]
      /\ \A i \in 1 .. n : a[i] = a[i - 1] + w[i].size
  BY <1>2 DEF Sums, n
<1>b. /\ b \in [0 .. l -> Nat] /\ b[0] = 0 /\ Layer!Used(v) = b[l]
      /\ \A i \in 1 .. l : b[i] = b[i - 1] + v[i].size
  BY <1>1, <1>3 DEF Sums
<1>4. \A i \in 0 .. l : a[i + (k - 1)] = b[i] + a[k - 1]
  <2>. DEFINE P == {i \in 0 .. l : a[i + (k - 1)] = b[i] + a[k - 1]}
  <2>1. 0 \in P
    <3>1. k - 1 \in 0 .. n /\ a[k - 1] \in Nat /\ 0 + (k - 1) = k - 1
      BY <1>0, <1>a
    <3>. QED  BY <3>1, <1>0, <1>b
  <2>2. ASSUME NEW i \in 1 .. l, i - 1 \in P PROVE i \in P
    <3>1. i + (k - 1) \in 1 .. n /\ (i + (k - 1)) - 1 = (i - 1) + (k - 1) /\ i + k - 1 = i + (k - 1)
      BY <1>0
    <3>2. a[i + (k - 1)] = a[(i - 1) + (k - 1)] + w[i + (k - 1)].size
      BY <1>a, <3>1
    <3>3. b[i] = b[i - 1] + w[i + (k - 1)].size
      BY <1>1, <1>b, <3>1
    <3>4. a[(i - 1) + (k - 1)] = b[i - 1] + a[k - 1]
      BY <2>2
    <3>5. w[i + (k - 1)].size \in Nat /\ b[i - 1] \in Nat /\ a[k - 1] \in Nat
      <4>1. w[i + (k - 1)] \in Measured
        BY <3>1 DEF n
      <4>2. i - 1 \in 0 .. l /\ k - 1 \in 0 .. n
        BY <1>0
      <4>. QED  BY <4>1, <4>2, <1>a, <1>b DEF Measured
    <3>6. a[i + (k - 1)] = b[i] + a[k - 1]
      BY <3>2, <3>3, <3>4, <3>5
    <3>. QED  BY <1>0, <3>6
  <2>. HIDE DEF P
  <2>3. \A i \in 0 .. l : i \in P
    BY <1>0, <2>1, <2>2, EveryStep
  <2>. QED  BY <2>3 DEF P
<1>5. a[n] = b[l] + a[k - 1] /\ a[k - 1] \in Nat /\ b[l] \in Nat /\ a[n] \in Nat
  <2>1. l \in 0 .. l /\ l + (k - 1) = n /\ k - 1 \in 0 .. n /\ n \in 0 .. n
    BY <1>0
  <2>2. a[l + (k - 1)] = b[l] + a[k - 1]
    BY <1>4, <2>1
  <2>. QED  BY <2>1, <2>2, <1>a, <1>b
<1>6. ASSUME \A i \in 1 .. k - 1 : w[i].size = 0 PROVE a[k - 1] = 0
  <2>. DEFINE P == {i \in 0 .. k - 1 : a[i] = 0}
  <2>1. 0 \in P
    BY <1>0, <1>a
  <2>2. \A i \in 1 .. k - 1 : i - 1 \in P => i \in P
    BY <1>0, <1>6, <1>a
  <2>. HIDE DEF P
  <2>3. k - 1 \in Nat
    BY <1>0
  <2>4. \A i \in 0 .. k - 1 : i \in P
    BY <2>1, <2>2, <2>3, EveryStep
  <2>. QED  BY <1>0, <2>4 DEF P
<1>7. b[l] <= a[n] /\ (a[k - 1] = 0 => b[l] = a[n])
  BY <1>5
<1>. QED  BY <1>1, <1>6, <1>7, <1>a, <1>b DEF v, n

-----------------------------------------------------------------------------

\* What of w counts since t.
Counts(w, t) == [i \in 1 .. Len(w) |-> [w[i] EXCEPT !.size = IF w[i].time < t THEN 0 ELSE @]]

\* What counts since t adds up to a number.
LEMMA SinceIs ==
    ASSUME NEW w \in Seq(Measured), NEW t \in Int
    PROVE  /\ Layer!Since(w, t) = Layer!Used(Counts(w, t))
           /\ Counts(w, t) \in Seq(Measured) /\ Len(Counts(w, t)) = Len(w)
           /\ \A i \in 1 .. Len(w) : /\ Counts(w, t)[i].size = IF w[i].time < t THEN 0 ELSE w[i].size
                                     /\ Counts(w, t)[i].time = w[i].time
           /\ Layer!Since(w, t) \in Nat
<1>1. DOMAIN w = 1 .. Len(w)
  OBVIOUS
<1>2. Layer!Since(w, t) = Layer!Used(Counts(w, t))
  BY <1>1 DEF Layer!Since, Counts
<1>3. ASSUME NEW i \in 1 .. Len(w)
      PROVE  /\ [w[i] EXCEPT !.size = IF w[i].time < t THEN 0 ELSE @] \in Measured
             /\ Counts(w, t)[i].size = IF w[i].time < t THEN 0 ELSE w[i].size
             /\ Counts(w, t)[i].time = w[i].time
  <2>1. w[i] \in Measured
    OBVIOUS
  <2>. QED  BY <2>1 DEF Measured, Counts
<1>4. Counts(w, t) \in Seq(Measured) /\ Len(Counts(w, t)) = Len(w)
  <2>1. Counts(w, t) \in [1 .. Len(w) -> Measured]
    BY <1>3 DEF Counts
  <2>2. Len(w) \in Nat
    OBVIOUS
  <2>. QED  BY <2>1, <2>2
<1>5. Layer!Since(w, t) \in Nat
  BY <1>2, <1>4, UsedNat
<1>. QED  BY <1>2, <1>3, <1>4, <1>5

\* A measurement at the end counts, unless it is too old.
LEMMA SinceAppend ==
    ASSUME NEW w \in Seq(Measured), NEW m \in Measured, NEW t \in Int
    PROVE  Layer!Since(Append(w, m), t) = Layer!Since(w, t) + (IF m.time < t THEN 0 ELSE m.size)
<1>. DEFINE v == Append(w, m)
            c == [m EXCEPT !.size = IF m.time < t THEN 0 ELSE @]
<1>1. v \in Seq(Measured) /\ Len(v) = Len(w) + 1 /\ Len(w) \in Nat
      /\ v[Len(w) + 1] = m /\ \A i \in 1 .. Len(w) : v[i] = w[i]
  OBVIOUS
<1>2. c \in Measured /\ c.size = IF m.time < t THEN 0 ELSE m.size
  BY DEF Measured
<1>. HIDE DEF v, c
<1>3. Counts(v, t) = Append(Counts(w, t), c)
  <2>0. Counts(w, t) \in Seq(Measured) /\ Len(Counts(w, t)) = Len(w)
    BY SinceIs
  <2>. DEFINE p == Counts(w, t)
              q == Counts(v, t)
              a == Append(p, c)
  <2>1. p \in Seq(Measured) /\ Len(p) = Len(w)
    BY <2>0
  <2>2. q \in Seq(Measured) /\ Len(q) = Len(w) + 1
    BY <1>1, SinceIs
  <2>3. ASSUME NEW i \in 1 .. Len(w) PROVE q[i] = p[i]
    <3>1. i \in 1 .. Len(v) /\ v[i] = w[i]
      BY <1>1
    <3>2. q[i] = [v[i] EXCEPT !.size = IF v[i].time < t THEN 0 ELSE @]
      BY <3>1, Zenon DEF Counts
    <3>3. p[i] = [w[i] EXCEPT !.size = IF w[i].time < t THEN 0 ELSE @]
      BY Zenon DEF Counts
    <3>. QED  BY <3>1, <3>2, <3>3, Zenon
  <2>4. q[Len(w) + 1] = c
    BY <1>1 DEF Counts, c
  <2>. HIDE DEF p, q
  <2>5. a \in Seq(Measured) /\ Len(a) = Len(w) + 1 /\ a[Len(w) + 1] = c
        /\ \A i \in 1 .. Len(w) : a[i] = p[i]
    <3>1. a \in Seq(Measured) /\ Len(a) = Len(p) + 1 /\ a[Len(p) + 1] = c
          /\ \A i \in 1 .. Len(p) : a[i] = p[i]
      BY <1>2, <2>1
    <3>2. Len(p) = Len(w)
      BY <2>1
    <3>. HIDE DEF a
    <3>. QED  BY <3>1, <3>2
  <2>. HIDE DEF a
  <2>6. \A i \in 1 .. Len(w) + 1 : a[i] = q[i]
    BY <1>1, <2>3, <2>4, <2>5
  <2>7. a = q
    BY <2>2, <2>5, <2>6
  <2>. QED  BY <2>7 DEF a, p, q
<1>4. Layer!Used(Append(Counts(w, t), c)) = Layer!Used(Counts(w, t)) + c.size
  BY <1>2, SinceIs, UsedAppend
<1>5. Layer!Since(v, t) = Layer!Used(Counts(v, t)) /\ Layer!Since(w, t) = Layer!Used(Counts(w, t))
  BY <1>1, SinceIs
<1>. QED  BY <1>2, <1>3, <1>4, <1>5 DEF v

\* A packet that is added to the last measurement counts as one of that moment.
LEMMA SinceGrows ==
    ASSUME NEW w \in Seq(Measured), NEW s \in Nat, NEW t \in Int, w # <<>>
    PROVE  LET v == [w EXCEPT ![Len(w)].size = @ + s]
           IN  /\ v \in Seq(Measured) /\ Len(v) = Len(w)
               /\ \A i \in 1 .. Len(w) : v[i].time = w[i].time
               /\ Layer!Since(v, t) = Layer!Since(w, t) + (IF w[Len(w)].time < t THEN 0 ELSE s)
<1>. DEFINE v == [w EXCEPT ![Len(w)].size = @ + s]
            n == Len(w)
<1>1. n \in Nat /\ n > 0 /\ n \in 1 .. n /\ w \in [1 .. n -> Measured]
  OBVIOUS
<1>2. [w[n] EXCEPT !.size = @ + s] \in Measured /\ [w[n] EXCEPT !.size = @ + s].time = w[n].time
      /\ [w[n] EXCEPT !.size = @ + s].size = w[n].size + s /\ w[n].size \in Nat
  <2>1. w[n] \in Measured
    BY <1>1
  <2>2. ASSUME NEW m \in Measured
        PROVE  /\ [m EXCEPT !.size = @ + s] \in Measured /\ [m EXCEPT !.size = @ + s].time = m.time
               /\ [m EXCEPT !.size = @ + s].size = m.size + s /\ m.size \in Nat
    BY DEF Measured
  <2>. HIDE DEF n
  <2>. QED  BY <2>1, <2>2
<1>3. v = [w EXCEPT ![n] = [w[n] EXCEPT !.size = @ + s]]
  BY <1>1
<1>4. v \in Seq(Measured) /\ Len(v) = n /\ v[n] = [w[n] EXCEPT !.size = @ + s]
      /\ \A i \in 1 .. n : i # n => v[i] = w[i]
  <2>. HIDE DEF v
  <2>. QED  BY <1>1, <1>2, <1>3
<1>5. \A i \in 1 .. n : v[i].time = w[i].time
  BY <1>2, <1>4
<1>. HIDE DEF v, n
<1>6. /\ Counts(w, t) \in Seq(Measured) /\ Counts(v, t) \in Seq(Measured)
      /\ Len(Counts(w, t)) = n /\ Len(Counts(v, t)) = n
      /\ \A i \in 1 .. n : Counts(w, t)[i].size = IF w[i].time < t THEN 0 ELSE w[i].size
      /\ \A i \in 1 .. n : Counts(v, t)[i].size = IF v[i].time < t THEN 0 ELSE v[i].size
      /\ Layer!Since(v, t) = Layer!Used(Counts(v, t)) /\ Layer!Since(w, t) = Layer!Used(Counts(w, t))
      /\ Layer!Since(w, t) \in Nat
  BY <1>4, SinceIs DEF n
<1>7. \A i \in 1 .. n - 1 : Counts(v, t)[i].size = Counts(w, t)[i].size
  BY <1>1, <1>4, <1>6
<1>8. CASE w[n].time < t
  <2>1. Counts(v, t)[n].size = Counts(w, t)[n].size + 0
    BY <1>1, <1>5, <1>6, <1>8
  <2>2. Layer!Used(Counts(v, t)) = Layer!Used(Counts(w, t)) + 0
    BY <1>1, <1>6, <1>7, <2>1, UsedGrows
  <2>. QED  BY <1>4, <1>5, <1>6, <1>8, <2>2 DEF v, n
<1>9. CASE ~(w[n].time < t)
  <2>1. Counts(v, t)[n].size = Counts(w, t)[n].size + s
    BY <1>1, <1>2, <1>4, <1>5, <1>6, <1>9
  <2>2. Layer!Used(Counts(v, t)) = Layer!Used(Counts(w, t)) + s
    BY <1>1, <1>6, <1>7, <2>1, UsedGrows
  <2>. QED  BY <1>4, <1>5, <1>6, <1>9, <2>2 DEF v, n
<1>. QED  BY <1>8, <1>9

\* What GetOutboundUsage drops is older than the window; what is left adds up to what was
\* measured in the window.
LEMMA RecentIs ==
    ASSUME NEW w \in Seq(Measured), Ascending(w), now \in Nat, conf.window \in Nat
    PROVE  /\ Layer!Recent(w) \in Seq(Measured) /\ Ascending(Layer!Recent(w))
           /\ Layer!Used(Layer!Recent(w)) = Layer!Since(w, now - conf.window)
           /\ \A t \in Int : /\ Layer!Since(Layer!Recent(w), t) <= Layer!Since(w, t)
                             /\ t >= now - conf.window => Layer!Since(Layer!Recent(w), t) = Layer!Since(w, t)
<1>. DEFINE n == Len(w)
            from == now - conf.window
            recent == {i \in DOMAIN w : w[i].time + conf.window >= now}
            k == IF recent = {} THEN n + 1 ELSE Layer!Min(recent)
            v == SubSeq(w, k, n)
<1>1. n \in Nat /\ from \in Int /\ \A i \in 1 .. n : w[i].time \in Nat /\ w[i].size \in Nat
  <2>1. n \in Nat /\ from \in Int /\ \A i \in 1 .. n : w[i] \in Measured
    OBVIOUS
  <2>. HIDE DEF n, from
  <2>. QED  BY <2>1 DEF Measured
<1>2. k \in 1 .. n + 1 /\ \A i \in 1 .. n : i < k <=> w[i].time < from
  <2>1. recent \subseteq 1 .. n /\ \A i \in 1 .. n : i \in recent <=> ~(w[i].time < from)
    BY <1>1
  <2>2. CASE recent = {}
    BY <1>1, <2>1, <2>2
  <2>3. CASE recent # {}
    <3>. HIDE DEF recent, n, from
    <3>1. recent \in SUBSET Nat
      BY <2>1, <1>1
    <3>2. \E i \in recent : \A j \in recent : i <= j
      BY <2>3, <3>1, LeastOf
    <3>3. Layer!Min(recent) \in recent /\ \A j \in recent : Layer!Min(recent) <= j
      BY <3>2, Zenon DEF Layer!Min
    <3>4. k \in recent /\ \A j \in recent : k <= j
      BY <2>3, <3>3
    <3>. HIDE DEF k
    <3>5. k \in 1 .. n
      BY <2>1, <3>4
    <3>6. ASSUME NEW i \in 1 .. n, i >= k PROVE ~(w[i].time < from)
      <4>1. w[k].time <= w[i].time
        BY <3>5, <3>6 DEF Ascending, n
      <4>2. ~(w[k].time < from)
        BY <2>1, <3>4
      <4>. QED  BY <1>1, <3>5, <4>1, <4>2
    <3>. QED  BY <1>1, <2>1, <3>4, <3>5, <3>6
  <2>. QED  BY <2>2, <2>3
<1>3. Layer!Recent(w) = v
  BY Zenon DEF Layer!Recent
<1>. HIDE DEF k, from, recent
<1>4. v \in Seq(Measured) /\ Len(v) = n + 1 - k /\ \A i \in 1 .. Len(v) : v[i] = w[i + k - 1]
  BY <1>1, <1>2
<1>. HIDE DEF v, n
<1>5. Ascending(v)
  <2>1. \A i \in 1 .. Len(v) : i + k - 1 \in 1 .. n
    BY <1>1, <1>2, <1>4
  <2>2. \A i, j \in 1 .. Len(v) : i <= j => i + k - 1 <= j + k - 1
    BY <1>1, <1>2, <1>4
  <2>. QED  BY <1>4, <2>1, <2>2 DEF Ascending, n
<1>6. ASSUME NEW t \in Int
      PROVE  /\ Layer!Since(v, t) <= Layer!Since(w, t)
             /\ t >= from => Layer!Since(v, t) = Layer!Since(w, t)
  <2>. DEFINE c == Counts(w, t)
  <2>1. /\ c \in Seq(Measured) /\ Len(c) = n /\ Layer!Since(w, t) = Layer!Used(c)
        /\ \A i \in 1 .. n : c[i].size = IF w[i].time < t THEN 0 ELSE w[i].size
    BY SinceIs DEF n
  <2>2. Counts(v, t) = SubSeq(c, k, n)
    <3>1. SubSeq(c, k, n) \in Seq(Measured) /\ Len(SubSeq(c, k, n)) = Len(v)
          /\ \A i \in 1 .. Len(v) : SubSeq(c, k, n)[i] = c[i + k - 1]
      <4>. HIDE DEF c
      <4>. QED  BY <1>1, <1>2, <1>4, <2>1
    <3>2. Counts(v, t) \in Seq(Measured) /\ Len(Counts(v, t)) = Len(v)
      BY <1>4, SinceIs
    <3>3. \A i \in 1 .. Len(v) : Counts(v, t)[i] = c[i + k - 1]
      <4>1. \A i \in 1 .. Len(v) : i + k - 1 \in 1 .. n
        BY <1>1, <1>2, <1>4
      <4>. QED  BY <1>4, <4>1 DEF Counts, n
    <3>. DEFINE p == SubSeq(c, k, n)
                q == Counts(v, t)
    <3>4. p \in Seq(Measured) /\ q \in Seq(Measured) /\ Len(p) = Len(q)
          /\ \A i \in 1 .. Len(q) : p[i] = q[i]
      BY <3>1, <3>2, <3>3
    <3>. HIDE DEF p, q
    <3>5. p = q
      BY <3>4
    <3>. QED  BY <3>5 DEF p, q
  <2>3. Layer!Since(v, t) = Layer!Used(SubSeq(c, k, n))
    BY <1>4, <2>2, SinceIs
  <2>. HIDE DEF c
  <2>4. k \in 1 .. Len(c) + 1
    BY <1>2, <2>1
  <2>5. Layer!Used(SubSeq(c, k, n)) <= Layer!Used(c)
        /\ ((\A i \in 1 .. k - 1 : c[i].size = 0) => Layer!Used(SubSeq(c, k, n)) = Layer!Used(c))
    BY <2>1, <2>4, UsedDropped
  <2>6. ASSUME t >= from, NEW i \in 1 .. k - 1 PROVE c[i].size = 0
    <3>1. i \in 1 .. n /\ i < k
      BY <1>1, <1>2
    <3>2. w[i].time < from /\ w[i].time \in Nat
      BY <1>1, <1>2, <3>1
    <3>3. w[i].time < t
      BY <1>1, <2>6, <3>2
    <3>. QED  BY <2>1, <3>1, <3>3
  <2>. QED  BY <2>1, <2>3, <2>5, <2>6
<1>7. Layer!Used(v) = Layer!Since(w, from)
  <2>1. Layer!Since(v, from) = Layer!Since(w, from)
    BY <1>1, <1>6
  <2>2. Counts(v, from) = v
    <3>1. \A i \in 1 .. Len(v) : ~(v[i].time < from)
      <4>1. \A i \in 1 .. Len(v) : i + k - 1 \in 1 .. n /\ ~(i + k - 1 < k)
        BY <1>1, <1>2, <1>4
      <4>. QED  BY <1>2, <1>4, <4>1
    <3>2. ASSUME NEW i \in 1 .. Len(v) PROVE Counts(v, from)[i] = v[i]
      <4>1. v[i] \in Measured
        BY <1>4
      <4>2. [v[i] EXCEPT !.size = v[i].size] = v[i]
        BY <4>1 DEF Measured
      <4>. QED  BY <3>1, <4>2 DEF Counts
    <3>3. Counts(v, from) \in Seq(Measured) /\ Len(Counts(v, from)) = Len(v)
      BY <1>1, <1>4, SinceIs
    <3>. QED  BY <1>4, <3>2, <3>3
  <2>3. Layer!Since(v, from) = Layer!Used(v)
    BY <1>1, <1>4, <2>2, SinceIs
  <2>. QED  BY <2>1, <2>3
<1>. QED  BY <1>3, <1>4, <1>5, <1>6, <1>7 DEF from

-----------------------------------------------------------------------------

\* A packet that is counted is measured; in a window a moment is measured with the ones of
\* its bucket.
LEMMA RecordIs ==
    ASSUME NEW w \in Seq(Measured), NEW s \in Nat, Ascending(w), now \in Nat, BucketSize \in Nat \ {0}
    PROVE  /\ Layer!Record(w, s) \in Seq(Measured) /\ Ascending(Layer!Record(w, s))
           /\ \E m \in Nat : /\ m <= now /\ now - m < BucketSize
                            /\ \A t \in Int : Layer!Since(Layer!Record(w, s), t)
                                                 = Layer!Since(w, t) + (IF m < t THEN 0 ELSE s)
<1>. DEFINE v == [w EXCEPT ![Len(w)].size = @ + s]
            m == [time |-> now, size |-> s]
            last == Layer!Last(w)
<1>1. m \in Measured /\ m.time = now /\ m.size = s
  BY DEF Measured
<1>2. Len(w) \in Nat /\ \A i \in 1 .. Len(w) : w[i].time \in Nat
  <2>1. \A i \in 1 .. Len(w) : w[i] \in Measured
    OBVIOUS
  <2>. QED  BY <2>1 DEF Measured
<1>3. CASE w # <<>> /\ now - last.time < BucketSize
  <2>1. Layer!Record(w, s) = v
    BY <1>3, Zenon DEF Layer!Record
  <2>2. /\ v \in Seq(Measured) /\ Len(v) = Len(w) /\ \A i \in 1 .. Len(w) : v[i].time = w[i].time
        /\ \A t \in Int : Layer!Since(v, t) = Layer!Since(w, t) + (IF w[Len(w)].time < t THEN 0 ELSE s)
    BY <1>3, SinceGrows
  <2>. HIDE DEF v
  <2>3. last = w[Len(w)]
    BY Zenon DEF Layer!Last
  <2>4. Len(w) \in 1 .. Len(w)
    BY <1>3
  <2>5. last.time \in Nat /\ last.time <= now
    BY <1>2, <2>3, <2>4 DEF Ascending
  <2>6. Ascending(v)
    BY <2>2 DEF Ascending
  <2>. HIDE DEF last
  <2>7. \A t \in Int : Layer!Since(v, t) = Layer!Since(w, t) + (IF last.time < t THEN 0 ELSE s)
    BY <2>2, <2>3
  <2>. QED  BY <1>3, <2>1, <2>2, <2>5, <2>6, <2>7
<1>4. CASE ~(w # <<>> /\ now - last.time < BucketSize)
  <2>1. Layer!Record(w, s) = Append(w, m)
    BY <1>4, Zenon DEF Layer!Record, Layer!Measurement
  <2>2. \A t \in Int : Layer!Since(Append(w, m), t) = Layer!Since(w, t) + (IF now < t THEN 0 ELSE s)
    BY <1>1, SinceAppend
  <2>3. Append(w, m) \in Seq(Measured) /\ Len(Append(w, m)) = Len(w) + 1
        /\ Append(w, m)[Len(w) + 1] = m /\ \A i \in 1 .. Len(w) : Append(w, m)[i] = w[i]
    BY <1>1
  <2>. DEFINE v2n == Append(w, m)
  <2>4. v2n \in Seq(Measured) /\ Len(v2n) = Len(w) + 1 /\ v2n[Len(w) + 1].time = now
        /\ \A i \in 1 .. Len(w) : v2n[i] = w[i]
    BY <1>1, <2>3
  <2>. HIDE DEF v2n, m
  <2>5. Ascending(v2n)
    BY <1>2, <2>4 DEF Ascending
  <2>6. now - now < BucketSize
    OBVIOUS
  <2>. QED  BY <2>1, <2>2, <2>3, <2>5, <2>6 DEF v2n
<1>. QED  BY <1>3, <1>4

\* Counting a packet keeps window and past fitting.
LEMMA CountedFits ==
    ASSUME NEW w \in Seq(Measured), NEW p \in Seq(Measured), NEW s \in Nat,
           now \in Nat, BucketSize \in Nat \ {0}, conf.window \in Nat, Ascending(w), Fits(w, p)
    PROVE  /\ Layer!Record(w, s) \in Seq(Measured) /\ Ascending(Layer!Record(w, s))
           /\ Append(p, Layer!Measurement(s)) \in Seq(Measured)
           /\ Fits(Layer!Record(w, s), Append(p, Layer!Measurement(s)))
<1>. DEFINE v == Layer!Record(w, s)
            q == Append(p, Layer!Measurement(s))
<1>1. Layer!Measurement(s) \in Measured /\ Layer!Measurement(s).time = now
      /\ Layer!Measurement(s).size = s
  BY DEF Measured, Layer!Measurement
<1>2. v \in Seq(Measured) /\ Ascending(v)
  BY RecordIs
<1>3. PICK m \in Nat : /\ m <= now /\ now - m < BucketSize
                       /\ \A t \in Int : Layer!Since(v, t) = Layer!Since(w, t) + (IF m < t THEN 0 ELSE s)
  BY RecordIs
<1>4. q \in Seq(Measured)
  BY <1>1
<1>5. \A t \in Int : Layer!Since(q, t) = Layer!Since(p, t) + (IF now < t THEN 0 ELSE s)
  BY <1>1, SinceAppend
<1>. HIDE DEF v, q
<1>6. \A t \in Int : Layer!Since(w, t) \in Nat /\ Layer!Since(p, t) \in Nat
  BY SinceIs
<1>7. ASSUME NEW t \in Int PROVE Layer!Since(v, t) <= Layer!Since(q, t)
  <2>1. Layer!Since(w, t) <= Layer!Since(p, t)
    BY DEF Fits
  <2>2. Layer!Since(v, t) = Layer!Since(w, t) + (IF m < t THEN 0 ELSE s)
        /\ Layer!Since(q, t) = Layer!Since(p, t) + (IF now < t THEN 0 ELSE s)
        /\ Layer!Since(w, t) \in Nat /\ Layer!Since(p, t) \in Nat
    BY <1>3, <1>5, <1>6
  <2>. QED  BY <1>3, <2>1, <2>2
<1>8. ASSUME NEW t \in Int, t >= now - conf.window
      PROVE  Layer!Since(q, t + BucketSize - 1) <= Layer!Since(v, t)
  <2>. DEFINE u == t + BucketSize - 1
  <2>1. u \in Int /\ Layer!Since(p, u) <= Layer!Since(w, t)
    BY <1>8 DEF Fits
  <2>2. now >= u => m >= t
    BY <1>3
  <2>. HIDE DEF u
  <2>3. Layer!Since(v, t) = Layer!Since(w, t) + (IF m < t THEN 0 ELSE s)
        /\ Layer!Since(q, u) = Layer!Since(p, u) + (IF now < u THEN 0 ELSE s)
        /\ Layer!Since(w, t) \in Nat /\ Layer!Since(p, u) \in Nat
    BY <1>3, <1>5, <1>6, <2>1
  <2>4. Layer!Since(q, u) <= Layer!Since(v, t)
    BY <1>3, <2>1, <2>2, <2>3
  <2>. QED  BY <2>4 DEF u
<1>9. Fits(v, q)
  BY <1>7, <1>8 DEF Fits
<1>. QED  BY <1>2, <1>4, <1>9 DEF v, q

\* Dropping what is too old keeps them fitting.
LEMMA RecentFits ==
    ASSUME NEW w \in Seq(Measured), NEW p \in Seq(Measured),
           now \in Nat, BucketSize \in Nat \ {0}, conf.window \in Nat, Ascending(w), Fits(w, p)
    PROVE  Fits(Layer!Recent(w), p)
<1>. DEFINE v == Layer!Recent(w)
<1>1. v \in Seq(Measured)
      /\ \A t \in Int : /\ Layer!Since(v, t) <= Layer!Since(w, t)
                        /\ t >= now - conf.window => Layer!Since(v, t) = Layer!Since(w, t)
  BY RecentIs
<1>2. \A t \in Int : Layer!Since(w, t) \in Nat /\ Layer!Since(p, t) \in Nat /\ Layer!Since(v, t) \in Nat
  BY <1>1, SinceIs
<1>. HIDE DEF v
<1>3. \A t \in Int : Layer!Since(v, t) <= Layer!Since(p, t)
  BY <1>1, <1>2 DEF Fits
<1>4. \A t \in Int : t >= now - conf.window => Layer!Since(p, t + BucketSize - 1) <= Layer!Since(v, t)
  BY <1>1 DEF Fits
<1>5. Fits(v, p)
  BY <1>3, <1>4 DEF Fits
<1>. QED  BY <1>5 DEF v

-----------------------------------------------------------------------------

\* Before anything is counted.
LEMMA LayerInit == Layer!RealNetAssumption /\ Layer!Init => LayerInv
<1>. SUFFICES ASSUME Layer!RealNetAssumption, Layer!Init PROVE LayerInv
  OBVIOUS
<1>1. conf \in NetScenarios /\ now = 0 /\ conf.few \in Nat
  BY DEF Layer!Init, Layer!RealNetAssumption
<1>2. queue \in Waiting(conf)
  <2>1. <<>> \in Seq(Item(conf))
    OBVIOUS
  <2>2. queue = [p \in Proto |-> [Layer!Nothing EXCEPT !.left = conf.few]]
    BY DEF Layer!Init
  <2>3. [Layer!Nothing EXCEPT !.left = conf.few]
            \in [kernel : Seq(Item(conf)), ready : Seq(Item(conf)), left : Nat, open : BOOLEAN]
    BY <1>1, <2>1 DEF Layer!Nothing
  <2>. QED  BY <2>2, <2>3 DEF Waiting
<1>3. /\ window \in [Ways -> Seq(Measured)] /\ past \in [Ways -> Seq(Measured)]
      /\ \A dir \in Ways : window[dir] = <<>> /\ past[dir] = <<>>
  <2>1. <<>> \in Seq(Measured)
    OBVIOUS
  <2>. DEFINE none == [in |-> <<>>, out |-> <<>>]
  <2>2. none \in [Ways -> Seq(Measured)] /\ \A dir \in Ways : none[dir] = <<>>
    <3>1. none = [dir \in {"in", "out"} |-> IF dir = "in" THEN <<>> ELSE <<>>]
      OBVIOUS
    <3>. HIDE DEF none
    <3>. QED  BY <2>1, <3>1 DEF Ways
  <2>3. window = none /\ past = none
    BY DEF Layer!Init
  <2>. HIDE DEF none
  <2>. QED  BY <2>2, <2>3
<1>4. ASSUME NEW dir \in Ways PROVE Ascending(window[dir]) /\ Fits(window[dir], past[dir])
  <2>1. <<>> \in Seq(Measured) /\ Len(<<>>) = 0
    OBVIOUS
  <2>2. ASSUME NEW t \in Int PROVE Layer!Since(<<>>, t) = 0
    <3>1. /\ Layer!Since(<<>>, t) = Layer!Used(Counts(<<>>, t))
          /\ Counts(<<>>, t) \in Seq(Measured) /\ Len(Counts(<<>>, t)) = 0
      BY <2>1, SinceIs
    <3>2. PICK u : Sums(Counts(<<>>, t), u)
      BY <3>1, UsedIs
    <3>. QED  BY <3>1, <3>2 DEF Sums
  <2>3. \A t \in Int : t + BucketSize - 1 \in Int
    BY DEF Layer!RealNetAssumption
  <2>4. Ascending(<<>>)
    BY <2>1 DEF Ascending
  <2>5. Fits(<<>>, <<>>)
    BY <2>2, <2>3 DEF Fits
  <2>. QED  BY <1>3, <2>4, <2>5
<1>. QED  BY <1>1, <1>2, <1>3, <1>4 DEF LayerInv

\* What a scenario gives.
LEMMA LayerConf ==
    ASSUME Layer!RealNetAssumption, LayerInv
    PROVE  /\ BucketSize \in Nat \ {0} /\ conf.window \in Nat /\ conf.minsz \in Nat
           /\ conf.sizes \subseteq Nat /\ conf.items \ {NetBroken, NetClosed} \subseteq Nat
<1>1. conf \in NetScenarios
  BY DEF LayerInv
<1>2. \A c \in NetScenarios : {c.window, c.minsz, c.few, c.until} \cup c.sizes \subseteq Nat
                            /\ c.items \ {NetBroken, NetClosed} \subseteq Nat
  BY DEF Layer!RealNetAssumption
<1>3. BucketSize \in Nat \ {0}
  BY DEF Layer!RealNetAssumption
<1>. QED  BY <1>1, <1>2, <1>3

\* The packets wait, or not, as they did.
LEMMA LayerCounted ==
    ASSUME Layer!RealNetAssumption, LayerInv, NEW dir \in Ways, NEW s \in Nat, Layer!Counted(dir, s),
           queue' \in Waiting(conf), UNCHANGED <<conf, now>>
    PROVE  LayerInv'
<1>1. /\ BucketSize \in Nat \ {0} /\ conf.window \in Nat /\ now \in Nat /\ conf \in NetScenarios
      /\ window \in [Ways -> Seq(Measured)] /\ past \in [Ways -> Seq(Measured)]
      /\ \A d \in Ways : Ascending(window[d]) /\ Fits(window[d], past[d])
  BY LayerConf DEF LayerInv
<1>2. CASE ~conf.record
  <2>1. window' = window /\ past' = past
    BY <1>2 DEF Layer!Counted
  <2>. QED  BY <1>1, <2>1 DEF LayerInv, Ascending, Fits
<1>3. CASE conf.record
  <2>. DEFINE w == window[dir]
              p == past[dir]
              v == Layer!Record(w, s)
              q == Append(p, Layer!Measurement(s))
  <2>1. window' = [window EXCEPT ![dir] = v] /\ past' = [past EXCEPT ![dir] = q]
    BY <1>3, Zenon DEF Layer!Counted
  <2>2. w \in Seq(Measured) /\ p \in Seq(Measured)
    BY <1>1
  <2>3. v \in Seq(Measured) /\ Ascending(v) /\ q \in Seq(Measured) /\ Fits(v, q)
    BY <1>1, <2>2, CountedFits
  <2>. HIDE DEF v, q
  <2>4. window' \in [Ways -> Seq(Measured)] /\ past' \in [Ways -> Seq(Measured)]
    BY <1>1, <2>1, <2>3
  <2>5. \A d \in Ways : /\ window'[d] = IF d = dir THEN v ELSE window[d]
                        /\ past'[d] = IF d = dir THEN q ELSE past[d]
    BY <1>1, <2>1
  <2>6. \A d \in Ways : Ascending(window'[d]) /\ Fits(window'[d], past'[d])
    BY <1>1, <2>3, <2>5
  <2>7. \A d \in Ways : Ascending(window[d])' /\ Fits(window[d], past[d])'
    BY <2>6 DEF Ascending, Fits
  <2>. QED  BY <1>1, <2>4, <2>7 DEF LayerInv
<1>. QED  BY <1>2, <1>3

\* Packets come and are read, and nothing is counted.
LEMMA LayerQuiet ==
    ASSUME LayerInv, queue' \in Waiting(conf), UNCHANGED <<conf, now, window, past>>
    PROVE  LayerInv'
BY DEF LayerInv, Ascending, Fits

\* What a transport holds, and that it may hold something else.
LEMMA LayerQueue ==
    ASSUME LayerInv, NEW p \in Proto
    PROVE  /\ queue[p].kernel \in Seq(Item(conf)) /\ queue[p].ready \in Seq(Item(conf))
           /\ queue[p].left \in Nat /\ queue[p].open \in BOOLEAN
           /\ queue[p] = [kernel |-> queue[p].kernel, ready |-> queue[p].ready,
                          left |-> queue[p].left, open |-> queue[p].open]
           /\ \A q \in [kernel : Seq(Item(conf)), ready : Seq(Item(conf)), left : Nat, open : BOOLEAN] :
                 [queue EXCEPT ![p] = q] \in Waiting(conf)
BY DEF LayerInv, Waiting

\* The datagrams beyond what the queue takes are dropped.
LEMMA LayerRead ==
    ASSUME Layer!RealNetAssumption, LayerInv, NEW p \in Proto, NEW n \in Nat, n <= Len(queue[p].kernel)
    PROVE  Layer!Read(p, n) \in [kernel : Seq(Item(conf)), ready : Seq(Item(conf)), left : Nat, open : BOOLEAN]
<1>. DEFINE q == queue[p]
            came == SubSeq(q.kernel, 1, n)
            ready == q.ready \o came
            drop == IF p = Datagram THEN Layer!Max({0, Len(ready) - (AppQueueSize + 1)}) ELSE 0
<1>1. /\ q.kernel \in Seq(Item(conf)) /\ q.ready \in Seq(Item(conf)) /\ q.left \in Nat /\ q.open \in BOOLEAN
      /\ q = [kernel |-> q.kernel, ready |-> q.ready, left |-> q.left, open |-> q.open]
  BY LayerQueue
<1>. HIDE DEF q
<1>2. came \in Seq(Item(conf)) /\ SubSeq(q.kernel, n + 1, Len(q.kernel)) \in Seq(Item(conf))
  <2>1. n <= Len(q.kernel)
    BY DEF q
  <2>. QED  BY <1>1, <2>1
<1>. HIDE DEF came
<1>3. ready \in Seq(Item(conf)) /\ Len(ready) \in Nat
  BY <1>1, <1>2
<1>. HIDE DEF ready
<1>4. drop \in Nat /\ drop <= Len(ready)
  <2>1. AppQueueSize \in Nat
    BY DEF Layer!RealNetAssumption
  <2>. DEFINE over == Len(ready) - (AppQueueSize + 1)
  <2>2. over \in Int /\ over <= Len(ready)
    BY <1>3, <2>1
  <2>. HIDE DEF over
  <2>3. \E x \in {0, over} : \A y \in {0, over} : x >= y
    BY <2>2
  <2>4. Layer!Max({0, over}) \in {0, over} /\ Layer!Max({0, over}) >= 0
    <3>1. Layer!Max({0, over}) = CHOOSE x \in {0, over} : \A y \in {0, over} : x >= y
      BY Zenon DEF Layer!Max
    <3>. QED  BY <2>3, <3>1
  <2>5. drop = IF p = Datagram THEN Layer!Max({0, over}) ELSE 0
    BY DEF over
  <2>. HIDE DEF drop
  <2>. QED  BY <1>3, <2>2, <2>4, <2>5
<1>5. Layer!Read(p, n) = [q EXCEPT !.kernel = SubSeq(@, n + 1, Len(@)),
                                   !.ready  = SubSeq(ready, drop + 1, Len(ready))]
  BY Zenon DEF Layer!Read, q, ready, came
<1>. HIDE DEF drop
<1>6. SubSeq(ready, drop + 1, Len(ready)) \in Seq(Item(conf))
  BY <1>3, <1>4
<1>. QED  BY <1>1, <1>2, <1>5, <1>6

\* A transport starts listening.
LEMMA StartListeningInv ==
    ASSUME LayerInv, NEW p \in Proto, Layer!StartListening(p)
    PROVE  LayerInv'
<1>. DEFINE r == queue[p]
<1>1. /\ r.kernel \in Seq(Item(conf)) /\ r.ready \in Seq(Item(conf)) /\ r.left \in Nat
      /\ r = [kernel |-> r.kernel, ready |-> r.ready, left |-> r.left, open |-> r.open]
  BY LayerQueue
<1>2. queue' = [queue EXCEPT ![p] = [r EXCEPT !.open = TRUE]] /\ UNCHANGED <<conf, now, window, past>>
  BY Zenon DEF Layer!StartListening
<1>. DEFINE q == [r EXCEPT !.open = TRUE]
<1>. HIDE DEF r
<1>3. q \in [kernel : Seq(Item(conf)), ready : Seq(Item(conf)), left : Nat, open : BOOLEAN]
  BY <1>1
<1>. HIDE DEF q
<1>4. queue' \in Waiting(conf)
  <2>1. [queue EXCEPT ![p] = q] \in Waiting(conf)
    BY <1>3, LayerQueue
  <2>. QED  BY <1>2, <2>1 DEF q
<1>. QED  BY <1>2, <1>4, LayerQuiet

\* A packet arrives.
LEMMA ArriveInv ==
    ASSUME LayerInv, NEW p \in Proto, NEW item \in conf.items, Layer!Arrive(p, item)
    PROVE  LayerInv'
<1>. DEFINE r == queue[p]
            kernel == Append(r.kernel, item)
            left == IF p = conf.stream THEN r.left ELSE r.left - 1
            q == [r EXCEPT !.kernel = Append(@, item),
                           !.left = IF p = conf.stream THEN @ ELSE @ - 1]
<1>1. /\ r.kernel \in Seq(Item(conf)) /\ r.ready \in Seq(Item(conf)) /\ r.left \in Nat
      /\ r.open \in BOOLEAN
      /\ r = [kernel |-> r.kernel, ready |-> r.ready, left |-> r.left, open |-> r.open]
  BY LayerQueue
<1>2. queue' = [queue EXCEPT ![p] = q] /\ UNCHANGED <<conf, now, window, past>>
  BY Zenon DEF Layer!Arrive
<1>3. p = conf.stream \/ r.left > 0
  BY DEF Layer!Arrive
<1>. HIDE DEF r
<1>4. kernel \in Seq(Item(conf))
  BY <1>1 DEF Item
<1>5. left \in Nat
  BY <1>1, <1>3
<1>6. q \in [kernel : Seq(Item(conf)), ready : Seq(Item(conf)), left : Nat, open : BOOLEAN]
  BY <1>1, <1>4, <1>5
<1>. HIDE DEF q, kernel, left
<1>7. queue' \in Waiting(conf)
  <2>1. [queue EXCEPT ![p] = q] \in Waiting(conf)
    BY <1>6, LayerQueue
  <2>. QED  BY <1>2, <2>1
<1>. QED  BY <1>2, <1>7, LayerQuiet

\* Every transport reads.
LEMMA DoWorkInv ==
    ASSUME Layer!RealNetAssumption, LayerInv, Layer!DoWork
    PROVE  LayerInv'
<1>1. PICK interrupted \in BOOLEAN, n \in 1 .. MaxPktsService :
          queue' = [p \in Proto |->
                       Layer!Read(p, IF p = Datagram THEN Layer!Min({n, Len(queue[p].kernel)})
                                     ELSE IF interrupted THEN 0 ELSE Layer!Min({1, Len(queue[p].kernel)}))]
  BY DEF Layer!DoWork
<1>2. UNCHANGED <<conf, now, window, past>>
  BY DEF Layer!DoWork
<1>3. ASSUME NEW a \in Nat, NEW b \in Nat
      PROVE  Layer!Min({a, b}) \in Nat /\ Layer!Min({a, b}) <= b
  <2>1. Layer!Min({a, b}) = CHOOSE x \in {a, b} : \A y \in {a, b} : x <= y
    BY Zenon DEF Layer!Min
  <2>2. \E x \in {a, b} : \A y \in {a, b} : x <= y
    OBVIOUS
  <2>. QED  BY <2>1, <2>2
<1>4. ASSUME NEW p \in Proto
      PROVE  queue'[p] \in [kernel : Seq(Item(conf)), ready : Seq(Item(conf)), left : Nat, open : BOOLEAN]
  <2>. DEFINE k == IF p = Datagram THEN Layer!Min({n, Len(queue[p].kernel)})
                   ELSE IF interrupted THEN 0 ELSE Layer!Min({1, Len(queue[p].kernel)})
  <2>1. Len(queue[p].kernel) \in Nat /\ n \in Nat
    BY LayerQueue
  <2>2. k \in Nat /\ k <= Len(queue[p].kernel)
    BY <1>3, <2>1
  <2>3. queue'[p] = Layer!Read(p, k)
    BY <1>1
  <2>. HIDE DEF k
  <2>. QED  BY <2>2, <2>3, LayerRead
<1>5. queue' \in Waiting(conf)
  <2>1. queue' = [p \in Proto |-> queue'[p]]
    BY <1>1
  <2>. QED  BY <1>4, <2>1 DEF Waiting
<1>. QED  BY <1>2, <1>5, LayerQuiet

\* A message is sent.
LEMMA SendMessageInv ==
    ASSUME Layer!RealNetAssumption, LayerInv, NEW p \in Proto, NEW len \in conf.sizes,
           Layer!SendMessage(p, len)
    PROVE  LayerInv'
<1>1. len \in Nat /\ conf.minsz \in Nat
  BY LayerConf
<1>2. Layer!Packed(len) \in Nat
  BY <1>1 DEF Layer!Packed, Layer!Compressed
<1>3. Layer!Counted("out", Layer!Packed(len)) /\ UNCHANGED <<conf, now, queue>>
  BY DEF Layer!SendMessage
<1>4. queue' \in Waiting(conf)
  BY <1>3 DEF LayerInv
<1>5. "out" \in Ways
  BY DEF Ways
<1>. HIDE DEF now
<1>. QED  BY <1>2, <1>3, <1>4, <1>5, LayerCounted

\* A message is handed over, whichever transport was tried first.
LEMMA GetNextMessageInv ==
    ASSUME Layer!RealNetAssumption, LayerInv, NEW order \in Layer!SetToSeqs(Proto),
           Layer!GetNextMessage(order)
    PROVE  LayerInv'
<1>1. PICK p \in Layer!Chosen(order) :
          /\ queue' = [queue EXCEPT ![p].ready = Tail(@)]
          /\ IF Head(queue[p].ready) \in {NetBroken, NetClosed} THEN UNCHANGED <<window, past>>
             ELSE Layer!Counted("in", Head(queue[p].ready))
          /\ UNCHANGED <<conf, now>>
  BY Zenon DEF Layer!GetNextMessage
<1>2. p \in Proto /\ queue[p].ready # <<>>
  <2>1. PICK i \in DOMAIN order : p = order[i] /\ queue[order[i]].ready # <<>>
    BY Zenon DEF Layer!Chosen
  <2>2. order \in [1 .. Layer!Cardinality(Proto) -> Proto]
    BY DEF Layer!SetToSeqs
  <2>3. order[i] \in Proto
    BY <2>1, <2>2
  <2>. QED  BY <2>1, <2>3
<1>. DEFINE r == queue[p]
<1>3. /\ r.kernel \in Seq(Item(conf)) /\ r.ready \in Seq(Item(conf)) /\ r.left \in Nat
      /\ r.open \in BOOLEAN
      /\ r = [kernel |-> r.kernel, ready |-> r.ready, left |-> r.left, open |-> r.open]
  BY <1>2, LayerQueue
<1>4. queue' = [queue EXCEPT ![p] = [r EXCEPT !.ready = Tail(@)]] /\ r.ready # <<>>
      /\ Head(queue[p].ready) = Head(r.ready)
  BY <1>1, <1>2
<1>. HIDE DEF r
<1>5. Tail(r.ready) \in Seq(Item(conf)) /\ Head(r.ready) \in conf.items
  BY <1>3, <1>4 DEF Item
<1>6. queue' \in Waiting(conf)
  <2>. DEFINE q == [r EXCEPT !.ready = Tail(@)]
  <2>1. q \in [kernel : Seq(Item(conf)), ready : Seq(Item(conf)), left : Nat, open : BOOLEAN]
    BY <1>3, <1>5
  <2>2. queue' = [queue EXCEPT ![p] = q]
    BY <1>4
  <2>. HIDE DEF q
  <2>3. [queue EXCEPT ![p] = q] \in Waiting(conf)
    BY <1>2, <2>1, LayerQueue
  <2>. QED  BY <2>2, <2>3
<1>7. UNCHANGED <<conf, now>>
  BY <1>1
<1>8. CASE Head(r.ready) \in {NetBroken, NetClosed}
  <2>1. UNCHANGED <<conf, now, window, past>>
    BY <1>1, <1>4, <1>7, <1>8
  <2>. QED  BY <1>6, <2>1, LayerQuiet
<1>9. CASE Head(r.ready) \notin {NetBroken, NetClosed}
  <2>1. Head(r.ready) \in Nat
    BY <1>5, <1>9, LayerConf
  <2>2. Layer!Counted("in", Head(r.ready))
    BY <1>1, <1>4, <1>9
  <2>3. "in" \in Ways
    BY DEF Ways
  <2>. DEFINE size == Head(r.ready)
  <2>4. size \in Nat /\ Layer!Counted("in", size)
    BY <2>1, <2>2
  <2>. HIDE DEF size
  <2>. HIDE DEF now
  <2>. QED  BY <1>6, <1>7, <2>3, <2>4, LayerCounted
<1>. QED  BY <1>8, <1>9

\* The bandwidth is asked for.
LEMMA GetUsageInv ==
    ASSUME Layer!RealNetAssumption, LayerInv, NEW dir \in Ways, Layer!GetUsage(dir)
    PROVE  LayerInv'
<1>1. /\ BucketSize \in Nat \ {0} /\ conf.window \in Nat /\ now \in Nat
      /\ window \in [Ways -> Seq(Measured)] /\ past \in [Ways -> Seq(Measured)]
      /\ \A d \in Ways : Ascending(window[d]) /\ Fits(window[d], past[d])
  BY LayerConf DEF LayerInv
<1>. DEFINE w == window[dir]
            v == Layer!Recent(w)
<1>2. window' = [window EXCEPT ![dir] = v] /\ UNCHANGED <<conf, now, queue, past>>
  BY Zenon DEF Layer!GetUsage
<1>3. w \in Seq(Measured) /\ past[dir] \in Seq(Measured)
  BY <1>1
<1>4. v \in Seq(Measured) /\ Ascending(v)
  BY <1>1, <1>3, RecentIs
<1>5. Fits(v, past[dir])
  BY <1>1, <1>3, RecentFits
<1>. HIDE DEF v
<1>6. window' \in [Ways -> Seq(Measured)]
  BY <1>1, <1>2, <1>4
<1>7. \A d \in Ways : window'[d] = IF d = dir THEN v ELSE window[d]
  BY <1>1, <1>2
<1>8. \A d \in Ways : Ascending(window'[d]) /\ Fits(window'[d], past[d])
  BY <1>1, <1>4, <1>5, <1>7
<1>9. \A d \in Ways : Ascending(window[d])' /\ Fits(window[d], past[d])'
  BY <1>2, <1>8 DEF Ascending, Fits
<1>. QED  BY <1>2, <1>6, <1>9 DEF LayerInv

\* Time passes.
LEMMA TickInv ==
    ASSUME Layer!RealNetAssumption, LayerInv, Layer!Tick
    PROVE  LayerInv'
<1>1. now' = now + 1 /\ UNCHANGED <<conf, queue, window, past>> /\ now \in Nat
  BY DEF Layer!Tick, LayerInv
<1>2. window \in [Ways -> Seq(Measured)] /\ past \in [Ways -> Seq(Measured)] /\ conf.window \in Nat
  BY LayerConf DEF LayerInv
<1>3. ASSUME NEW d \in Ways PROVE Ascending(window[d])' /\ Fits(window[d], past[d])'
  <2>. DEFINE w == window[d]
              p == past[d]
  <2>1. w \in Seq(Measured) /\ Ascending(w) /\ Fits(w, p)
    BY <1>2 DEF LayerInv
  <2>2. \A i \in 1 .. Len(w) : w[i].time \in Nat
    <3>1. \A i \in 1 .. Len(w) : w[i] \in Measured
      BY <2>1
    <3>. HIDE DEF w
    <3>. QED  BY <3>1 DEF Measured
  <2>3. w' = w /\ p' = p
    BY <1>1
  <2>. HIDE DEF w, p
  <2>4. Ascending(w)'
    BY <1>1, <2>1, <2>2, <2>3 DEF Ascending
  <2>5. /\ \A t \in Int : Layer!Since(w', t) <= Layer!Since(p', t)
        /\ \A t \in Int : t >= now' - conf'.window =>
              Layer!Since(p', t + BucketSize - 1) <= Layer!Since(w', t)
    <3>1. /\ \A t \in Int : Layer!Since(w, t) <= Layer!Since(p, t)
          /\ \A t \in Int : t >= now - conf.window =>
                Layer!Since(p, t + BucketSize - 1) <= Layer!Since(w, t)
      BY <2>1 DEF Fits
    <3>2. \A t \in Int : t >= now' - conf'.window => t >= now - conf.window
      BY <1>1, <1>2
    <3>. QED  BY <2>3, <3>1, <3>2
  <2>6. Fits(w, p)'
    BY <2>5 DEF Fits
  <2>. QED  BY <2>4, <2>6 DEF w, p
<1>. QED  BY <1>1, <1>3 DEF LayerInv

\* Every step of the layer keeps the window fitting what came.
LEMMA LayerStep == Layer!RealNetAssumption /\ LayerInv /\ [Layer!Next]_(Layer!vars) => LayerInv'
<1>. SUFFICES ASSUME Layer!RealNetAssumption, LayerInv, [Layer!Next]_(Layer!vars) PROVE LayerInv'
  OBVIOUS
<1>1. ASSUME NEW p \in Proto, Layer!StartListening(p) PROVE LayerInv'
  BY <1>1, StartListeningInv
<1>2. ASSUME NEW p \in Proto, NEW len \in conf.sizes, Layer!SendMessage(p, len) PROVE LayerInv'
  BY <1>2, SendMessageInv
<1>3. ASSUME NEW p \in Proto, NEW item \in conf.items, Layer!Arrive(p, item) PROVE LayerInv'
  BY <1>3, ArriveInv
<1>4. CASE Layer!DoWork
  BY <1>4, DoWorkInv
<1>5. ASSUME NEW order \in Layer!SetToSeqs(Proto), Layer!GetNextMessage(order) PROVE LayerInv'
  BY <1>5, GetNextMessageInv
<1>6. ASSUME NEW dir \in {"in", "out"}, Layer!GetUsage(dir) PROVE LayerInv'
  BY <1>6, GetUsageInv DEF Ways
<1>7. CASE Layer!Tick
  BY <1>7, TickInv
<1>8. CASE UNCHANGED Layer!vars
  <2>1. UNCHANGED <<conf, now, queue, window, past>>
    BY <1>8 DEF Layer!vars
  <2>. QED  BY <2>1 DEF LayerInv, Ascending, Fits
<1>. QED  BY <1>1, <1>2, <1>3, <1>4, <1>5, <1>6, <1>7, <1>8, Zenon DEF Layer!Next

\* What fits is told.
LEMMA LayerTells == Layer!RealNetAssumption /\ LayerInv => Layer!UsageTold
<1>. SUFFICES ASSUME Layer!RealNetAssumption, LayerInv, NEW dir \in Ways
              PROVE  LET used == Layer!Used(Layer!Recent(window[dir]))
                     IN  /\ used <= Layer!Since(past[dir], now - conf.window)
                         /\ used >= Layer!Since(past[dir], now - conf.window + BucketSize - 1)
  BY Zenon DEF Layer!UsageTold, Ways
<1>. DEFINE w == window[dir]
            p == past[dir]
            t == now - conf.window
<1>1. /\ BucketSize \in Nat \ {0} /\ conf.window \in Nat /\ now \in Nat
      /\ w \in Seq(Measured) /\ p \in Seq(Measured) /\ Ascending(w) /\ Fits(w, p)
  BY LayerConf DEF LayerInv
<1>2. t \in Int /\ t >= now - conf.window
  BY <1>1
<1>3. Layer!Used(Layer!Recent(w)) = Layer!Since(w, t)
  BY <1>1, RecentIs
<1>. HIDE DEF w, p, t
<1>4. Layer!Since(w, t) <= Layer!Since(p, t) /\ Layer!Since(p, t + BucketSize - 1) <= Layer!Since(w, t)
  BY <1>1, <1>2 DEF Fits
<1>5. Layer!Since(w, t) \in Nat /\ Layer!Since(p, t) \in Nat /\ Layer!Since(p, t + BucketSize - 1) \in Nat
  BY <1>1, <1>2, SinceIs
<1>6. /\ Layer!Used(Layer!Recent(w)) <= Layer!Since(p, t)
      /\ Layer!Used(Layer!Recent(w)) >= Layer!Since(p, t + BucketSize - 1)
  BY <1>3, <1>4, <1>5
<1>. QED  BY <1>6, Zenon DEF w, p, t

-----------------------------------------------------------------------------
(***************************************************************************)
(* The properties of the parts, as properties of all of them put together. *)
(***************************************************************************)

\* Joiners do not wait for one another to let them in (BootstrapNode.cpp:908, HubManager.cpp:236).
THEOREM JoinersLeadIn == Spec => []RepsLeadIn
<1>1. Booting!Init /\ [][Booting!Next]_Booting!vars => []Booting!RepsLeadIn
  BY MercuryAssumption, Booting!RepsLeadInHolds
<1>2. machine = "bootstrap" /\ Init => Booting!Init
  BY DEF Init
<1>3. machine = "bootstrap" /\ [Next]_vars => (machine = "bootstrap")' /\ [Booting!Next]_Booting!vars
  BY DEF Next, vars, Booting!vars
<1>4. ~(machine = "bootstrap") /\ [Next]_vars => (~(machine = "bootstrap"))'
  BY DEF Next, vars
<1>5. (~(machine = "bootstrap") \/ Booting!RepsLeadIn) <=> RepsLeadIn
  BY DEF RepsLeadIn
<1>. QED  BY <1>1, <1>2, <1>3, <1>4, <1>5, PTL DEF Spec

\* When the all clear is given, as many nodes as are expected are in (BootstrapNode.cpp:1017).
THEOREM AllClearIsTrue == Spec => []AllClear
<1>1. Booting!Init /\ [][Booting!Next]_Booting!vars => []Booting!AllClear
  BY MercuryAssumption, Booting!AllClearHolds
<1>2. machine = "bootstrap" /\ Init => Booting!Init
  BY DEF Init
<1>3. machine = "bootstrap" /\ [Next]_vars => (machine = "bootstrap")' /\ [Booting!Next]_Booting!vars
  BY DEF Next, vars, Booting!vars
<1>4. ~(machine = "bootstrap") /\ [Next]_vars => (~(machine = "bootstrap"))'
  BY DEF Next, vars
<1>5. (~(machine = "bootstrap") \/ Booting!AllClear) <=> AllClear
  BY DEF AllClear
<1>. QED  BY <1>1, <1>2, <1>3, <1>4, <1>5, PTL DEF Spec

\* One node makes a ring of its own, and the places of a static ring fit (BootstrapNode.cpp:247, 908).
THEOREM OneRingIsBuilt == Spec => []OneRingBuilt
<1>1. Booting!Init /\ [][Booting!Next]_Booting!vars => []Booting!OneRingBuilt
  BY MercuryAssumption, Booting!OneRingBuiltHolds
<1>2. machine = "bootstrap" /\ Init => Booting!Init
  BY DEF Init
<1>3. machine = "bootstrap" /\ [Next]_vars => (machine = "bootstrap")' /\ [Booting!Next]_Booting!vars
  BY DEF Next, vars, Booting!vars
<1>4. ~(machine = "bootstrap") /\ [Next]_vars => (~(machine = "bootstrap"))'
  BY DEF Next, vars
<1>5. (~(machine = "bootstrap") \/ Booting!OneRingBuilt) <=> OneRingBuilt
  BY DEF OneRingBuilt
<1>. QED  BY <1>1, <1>2, <1>3, <1>4, <1>5, PTL DEF Spec

\* Ranges that move stay a partition of the values, but for answers on their way
\* (HandleLocalLBRequest, HandleLocalLBResponse).
THEOREM RangesPartition == Spec => []Partition
<1>1. Balance!Spec => []Balance!Partition
  BY MercuryAssumption, Balance!PartitionHolds
<1>2. machine = "balance" /\ Init => Balance!Init
  BY DEF Init
<1>3. machine = "balance" /\ [Next]_vars => (machine = "balance")' /\ [Balance!Next]_Balance!vars
  BY DEF Next, vars, Balance!vars
<1>4. ~(machine = "balance") /\ [Next]_vars => (~(machine = "balance"))'
  BY DEF Next, vars
<1>5. (~(machine = "balance") \/ Balance!Partition) <=> Partition
  BY DEF Partition
<1>. QED  BY <1>1, <1>2, <1>3, <1>4, <1>5, PTL DEF Spec, Balance!Spec

\* Who is asked to leave does so alone, and does not wait for ever (LoadBalancer.cpp).
THEOREM LeaversLeaveAlone == Spec => []LeavesAlone
<1>1. Balance!Spec => []Balance!LeavesAlone
  BY MercuryAssumption, Balance!LeavesAloneHolds DEF Balance!WholeAssumption
<1>2. machine = "balance" /\ Init => Balance!Init
  BY DEF Init
<1>3. machine = "balance" /\ [Next]_vars => (machine = "balance")' /\ [Balance!Next]_Balance!vars
  BY DEF Next, vars, Balance!vars
<1>4. ~(machine = "balance") /\ [Next]_vars => (~(machine = "balance"))'
  BY DEF Next, vars
<1>5. (~(machine = "balance") \/ Balance!LeavesAlone) <=> LeavesAlone
  BY DEF LeavesAlone
<1>. QED  BY <1>1, <1>2, <1>3, <1>4, <1>5, PTL DEF Spec, Balance!Spec

\* Every entry that was raised is executed once and then goes (WANScheduler.cpp:60, Simulator.cpp:80).
THEOREM EventsRunOnce == Spec => []RunsOnce
<1>1. Timers!Spec => []Timers!RunsOnce
  BY EveryEventRunsOnce
<1>2. machine = "scheduler" /\ Init => Timers!Init
  BY DEF Init
<1>3. machine = "scheduler" /\ [Next]_vars => (machine = "scheduler")' /\ [Timers!Next]_Timers!vars
  BY DEF Next, vars, Timers!vars
<1>4. ~(machine = "scheduler") /\ [Next]_vars => (~(machine = "scheduler"))'
  BY DEF Next, vars
<1>5. (~(machine = "scheduler") \/ Timers!RunsOnce) <=> RunsOnce
  BY DEF RunsOnce
<1>. QED  BY <1>1, <1>2, <1>3, <1>4, <1>5, PTL DEF Spec, Timers!Spec

\* Every call returns the result that was sent back for it (the stubs of node and application).
THEOREM ResultsAreOwn == Spec => []OwnResult
<1>1. Remote!Spec => []Remote!OwnResult
  BY MercuryAssumption, Remote!EveryCallReturnsItsOwn
<1>2. machine = "calls" /\ Init => Remote!Init
  BY DEF Init
<1>3. machine = "calls" /\ [Next]_vars => (machine = "calls")' /\ [Remote!Next]_Remote!vars
  BY DEF Next, vars, Remote!vars
<1>4. ~(machine = "calls") /\ [Next]_vars => (~(machine = "calls"))'
  BY DEF Next, vars
<1>5. (~(machine = "calls") \/ Remote!OwnResult) <=> OwnResult
  BY DEF OwnResult
<1>. QED  BY <1>1, <1>2, <1>3, <1>4, <1>5, PTL DEF Spec, Remote!Spec

\* Messages over TCP are given whole, and in the order they were sent (PerformRead, GetConnection).
THEOREM StreamsWholeAndInOrder == Spec => []WholeAndInOrder
<1>1. Streams!Spec => []Streams!WholeAndInOrder
  BY MercuryAssumption, Streams!MessagesOverTCPWholeAndInOrder
<1>2. machine = "tcp" /\ Init => Streams!Init
  BY DEF Init
<1>3. machine = "tcp" /\ [Next]_vars => (machine = "tcp")' /\ [Streams!Next]_Streams!vars
  BY DEF Next, vars, Streams!vars
<1>4. ~(machine = "tcp") /\ [Next]_vars => (~(machine = "tcp"))'
  BY DEF Next, vars
<1>5. (~(machine = "tcp") \/ Streams!WholeAndInOrder) <=> WholeAndInOrder
  BY DEF WholeAndInOrder
<1>. QED  BY <1>1, <1>2, <1>3, <1>4, <1>5, PTL DEF Spec, Streams!Spec

\* While no process died, no message waits in a connection nobody reads (_RegisterNewTCPConnections).
THEOREM StreamsStrandNothing == Spec => []NothingStranded
<1>1. Streams!Spec => []Streams!NothingStranded
  BY MercuryAssumption, Streams!MessagesOverTCPNotStranded
<1>2. machine = "tcp" /\ Init => Streams!Init
  BY DEF Init
<1>3. machine = "tcp" /\ [Next]_vars => (machine = "tcp")' /\ [Streams!Next]_Streams!vars
  BY DEF Next, vars, Streams!vars
<1>4. ~(machine = "tcp") /\ [Next]_vars => (~(machine = "tcp"))'
  BY DEF Next, vars
<1>5. (~(machine = "tcp") \/ Streams!NothingStranded) <=> NothingStranded
  BY DEF NothingStranded
<1>. QED  BY <1>1, <1>2, <1>3, <1>4, <1>5, PTL DEF Spec, Streams!Spec

\* The usage told is that of the packets in the window, but for a bucket (RealNet.cpp:952-1015).
THEOREM UsageIsTold == Spec => []UsageTold
<1>1. Layer!RealNetAssumption
  BY MercuryAssumption
<1>2. machine = "net" /\ Init => LayerInv
  BY <1>1, LayerInit DEF Init
<1>3. machine = "net" /\ [Next]_vars => (machine = "net")' /\ [Layer!Next]_(Layer!vars)
  BY DEF Next, vars, Layer!vars
<1>4. ~(machine = "net") /\ [Next]_vars => (~(machine = "net"))'
  BY DEF Next, vars
<1>5. LayerInv /\ [Layer!Next]_(Layer!vars) => LayerInv'
  BY <1>1, LayerStep
<1>6. LayerInv => Layer!UsageTold
  BY <1>1, LayerTells
<1>7. (~(machine = "net") \/ Layer!UsageTold) <=> UsageTold
  BY DEF UsageTold
<1>. QED  BY <1>2, <1>3, <1>4, <1>5, <1>6, <1>7, PTL DEF Spec
=============================================================================
