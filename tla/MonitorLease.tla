---------------------------- MODULE MonitorLease ----------------------------
(***************************************************************************)
(* The embedded monitor loops and the database lease that lets one of them *)
(* run a cycle (monitor/background.py).  Every application process starts  *)
(* one loop with a fresh owner_id.                                         *)
(*                                                                         *)
(* Time is kept relative to now, as timers: `left` is lease_until - now,   *)
(* and age[w] is the time since worker w read the clock at the top of      *)
(* acquire_monitor_lease.  lease_until is computed from that reading, the  *)
(* comparison with the stored lease uses it too, and both happen later, in *)
(* the transaction that has to wait for the row lock.                      *)
(***************************************************************************)
EXTENDS Integers, FiniteSets

CONSTANTS
    Worker,      \* application processes
    Owner,       \* owner ids (uuid4 hex strings)
    NoOwner,     \* the blank owner_id of a new MonitorLease row
    Interval,    \* NotificationSettings.interval_seconds
    LeaseFloor,  \* the 60 of max(60, interval * 2)
    PauseFloor,  \* the 5 of max(5, interval)
    ErrorPause,  \* the interval used after an exception
    MaxDelay,    \* bound: longest wait between reading the clock and the row lock
    CycleLimit   \* bound: longest time from reading the clock to a cycle's end

ASSUME NoOwnerAssumption == NoOwner \notin Owner
ASSUME TimeAssumption ==
    /\ Interval \in Nat /\ LeaseFloor \in Nat \ {0} /\ PauseFloor \in Nat
    /\ ErrorPause \in Nat
    /\ MaxDelay \in Nat /\ CycleLimit \in Nat /\ MaxDelay <= CycleLimit

VARIABLES
    owner,   \* MonitorLease.owner_id
    left,    \* MonitorLease.lease_until, relative to now
    pc,      \* "down", "asleep", "stamped" (in acquire_monitor_lease), "cycle"
    id,      \* owner_id of the running loop
    age,     \* time since the loop read the clock
    sleep    \* what is left of time.sleep

vars == <<owner, left, pc, id, age, sleep>>

Max2(a, b) == IF a >= b THEN a ELSE b

LeaseLength == Max2(LeaseFloor, 2 * Interval)
Pause == Max2(PauseFloor, Interval)

Busy(w) == pc[w] \in {"stamped", "cycle"}

Init ==
    /\ owner = NoOwner
    /\ left = -MaxDelay
    /\ pc = [w \in Worker |-> "down"]
    /\ id = [w \in Worker |-> NoOwner]
    /\ age = [w \in Worker |-> 0]
    /\ sleep = [w \in Worker |-> 0]

\* start_monitor_thread: monitor_loop draws a uuid no other loop ever used.
\* Ids that no loop and no lease row holds any more are reused by the model.
Start(w) ==
    /\ pc[w] = "down"
    /\ \E o \in Owner \ ({owner} \cup {id[v] : v \in Worker}) :
         id' = [id EXCEPT ![w] = o]
    /\ pc' = [pc EXCEPT ![w] = "asleep"]
    /\ sleep' = [sleep EXCEPT ![w] = 0]
    /\ UNCHANGED <<owner, left, age>>

\* now = timezone.now(), before the transaction.
Stamp(w) ==
    /\ pc[w] = "asleep" /\ sleep[w] = 0
    /\ pc' = [pc EXCEPT ![w] = "stamped"]
    /\ age' = [age EXCEPT ![w] = 0]
    /\ UNCHANGED <<owner, left, id, sleep>>

GrantableAlways(w) == TRUE
GrantableNever(w) == owner \in {NoOwner, id[w]}
\* lease_until > now, with the `now` read before the row was locked.
Grantable(w) == owner \in {NoOwner, id[w]} \/ left + age[w] <= 0

Acquire(w) ==
    /\ pc[w] = "stamped" /\ Grantable(w)
    /\ owner' = id[w]
    /\ left' = LeaseLength - age[w]
    /\ pc' = [pc EXCEPT ![w] = "cycle"]
    /\ UNCHANGED <<id, age, sleep>>

GoToSleep(w, pause) ==
    /\ pc' = [pc EXCEPT ![w] = "asleep"]
    /\ age' = [age EXCEPT ![w] = 0]
    /\ sleep' = [sleep EXCEPT ![w] = pause]
    /\ UNCHANGED <<owner, left, id>>

Refuse(w) == pc[w] = "stamped" /\ ~Grantable(w) /\ GoToSleep(w, Pause)

\* run_monitor_cycle, maybe_send_weekly_report and cleanup_monitor_history are
\* done.  The lease is neither renewed during them nor released here.
FinishCycle(w) == pc[w] = "cycle" /\ GoToSleep(w, Pause)

\* An exception in the loop's body.
Fail(w) == Busy(w) /\ GoToSleep(w, ErrorPause)

\* The process is killed or restarted; the lease row stays as it is.
Crash(w) ==
    /\ pc[w] # "down"
    /\ pc' = [pc EXCEPT ![w] = "down"]
    /\ id' = [id EXCEPT ![w] = NoOwner]
    /\ age' = [age EXCEPT ![w] = 0]
    /\ sleep' = [sleep EXCEPT ![w] = 0]
    /\ UNCHANGED <<owner, left>>

\* Below -MaxDelay the lease is expired for every reading of the clock that a
\* transaction can still use, so the timer stops there.
SinceLeaseUnfloored == left - 1
SinceLease == Max2(left - 1, -MaxDelay)

Tick ==
    /\ \A w \in Worker : pc[w] = "stamped" => age[w] < MaxDelay
    /\ \A w \in Worker : pc[w] = "cycle" => age[w] < CycleLimit
    /\ left' = SinceLease
    /\ age' = [w \in Worker |-> IF Busy(w) THEN age[w] + 1 ELSE 0]
    /\ sleep' = [w \in Worker |-> Max2(sleep[w] - 1, 0)]
    /\ UNCHANGED <<owner, pc, id>>

Loop(w) == Start(w) \/ Stamp(w) \/ Acquire(w) \/ Refuse(w) \/ FinishCycle(w)

Next ==
    \/ \E w \in Worker : Loop(w) \/ Fail(w) \/ Crash(w)
    \/ Tick

Spec == Init /\ [][Next]_vars

\* gunicorn restarts workers, the loops run until the process dies, and time
\* goes on.
FairSpec == Spec /\ WF_vars(Tick) /\ \A w \in Worker : WF_vars(Loop(w))

-----------------------------------------------------------------------------
(* Properties.                                                             *)

TypeOK ==
    /\ owner \in Owner \cup {NoOwner}
    /\ left \in Int /\ -MaxDelay <= left /\ left <= LeaseLength
    /\ pc \in [Worker -> {"down", "asleep", "stamped", "cycle"}]
    /\ id \in [Worker -> Owner \cup {NoOwner}]
    /\ age \in [Worker -> Nat]
    /\ sleep \in [Worker -> Nat]

\* "the database lease ensures only one worker runs checks" (apps.py:12-14).
MutualExclusion ==
    \A v, w \in Worker : pc[v] = "cycle" /\ pc[w] = "cycle" => v = w

\* What the lease guarantees however long cycles take: of the workers inside a
\* cycle at most one is still within the lease_until it wrote, although the
\* expiry test compares with a clock reading taken before the row lock.
OneUnexpiredHolder ==
    \A v, w \in Worker :
        /\ pc[v] = "cycle" /\ age[v] < LeaseLength
        /\ pc[w] = "cycle" /\ age[w] < LeaseLength
        => v = w

\* No exception and no process exit in this step.
Healthy == \A w \in Worker : (Fail(w) => Loop(w)) /\ ~Crash(w)

\* A dead owner never blocks monitoring for good: once processes stop failing,
\* some worker runs a cycle again and again, whoever holds the row.
MonitoringResumes ==
    <>[][Healthy]_vars => []<>(\E w \in Worker : pc[w] = "cycle")
=============================================================================
