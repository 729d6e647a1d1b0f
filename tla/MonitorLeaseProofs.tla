------------------------- MODULE MonitorLeaseProofs -------------------------
(***************************************************************************)
(* Theorems about MonitorLease, for any set of workers and any durations.  *)
(***************************************************************************)
EXTENDS MonitorLease, TLAPS

LEMMA Lengths == LeaseLength \in Nat \ {0} /\ Pause \in Nat
  BY TimeAssumption DEF LeaseLength, Pause, Max2

\* The inductive invariant: a worker inside a cycle that has not outlasted its
\* lease still owns the row, and the row expires when that worker's lease does.
LeaseInv ==
    /\ TypeOK
    /\ \A w \in Worker : pc[w] # "down" => id[w] \in Owner
    /\ \A v, w \in Worker : id[v] = id[w] /\ id[v] # NoOwner => v = w
    /\ \A w \in Worker : pc[w] = "stamped" => age[w] <= MaxDelay
    /\ \A w \in Worker : pc[w] = "cycle" => age[w] <= CycleLimit
    /\ \A w \in Worker :
         pc[w] = "cycle" /\ age[w] < LeaseLength
           => owner = id[w] /\ left = LeaseLength - age[w]

LEMMA LeaseInit == Init => LeaseInv
  BY Lengths, TimeAssumption DEF Init, LeaseInv, TypeOK

LEMMA LeaseStep == LeaseInv /\ [Next]_vars => LeaseInv'
<1> SUFFICES ASSUME LeaseInv, [Next]_vars PROVE LeaseInv'
  OBVIOUS
<1> USE Lengths, TimeAssumption, NoOwnerAssumption DEF LeaseInv, TypeOK
<1>1. ASSUME NEW w \in Worker, Start(w)
      PROVE  LeaseInv'
  BY <1>1 DEF Start
<1>2. ASSUME NEW w \in Worker, Stamp(w)
      PROVE  LeaseInv'
  BY <1>2 DEF Stamp
<1>3. ASSUME NEW w \in Worker, Acquire(w)
      PROVE  LeaseInv'
  <2>1. age[w] \in Nat /\ age[w] <= MaxDelay /\ id[w] \in Owner
    BY <1>3 DEF Acquire
  <2>2. TypeOK'
    BY <1>3, <2>1 DEF Acquire
  \* Every other worker inside a cycle has outlasted its own lease.
  <2>3. ASSUME NEW v \in Worker, v # w, pc[v] = "cycle"
        PROVE  age[v] >= LeaseLength
    <3>1. SUFFICES ASSUME age[v] < LeaseLength PROVE FALSE
      BY <2>3
    <3>2. owner = id[v] /\ left = LeaseLength - age[v]
      BY <2>3, <3>1
    <3>3. id[v] \in Owner /\ id[v] # id[w]
      BY <2>1, <2>3
    <3>4. left + age[w] > 0
      BY <2>1, <3>1, <3>2
    <3>5. QED
      BY <1>3, <3>2, <3>3, <3>4 DEF Acquire, Grantable
  <2>4. QED
    BY <1>3, <2>1, <2>2, <2>3 DEF Acquire
<1>4. ASSUME NEW w \in Worker, Refuse(w) \/ FinishCycle(w) \/ Fail(w)
      PROVE  LeaseInv'
  <2>1. PICK pause \in Nat : GoToSleep(w, pause)
    BY <1>4 DEF Refuse, FinishCycle, Fail
  <2>2. pc[w] # "down"
    BY <1>4 DEF Refuse, FinishCycle, Fail, Busy
  <2>3. QED
    BY <2>1, <2>2 DEF GoToSleep
<1>5. ASSUME NEW w \in Worker, Crash(w)
      PROVE  LeaseInv'
  BY <1>5 DEF Crash
<1>6. CASE Tick
  <2>1. TypeOK'
    BY <1>6 DEF Tick, SinceLease, Max2, Busy
  <2>2. ASSUME NEW w \in Worker, pc[w] = "cycle", age[w] + 1 < LeaseLength
        PROVE  owner = id[w] /\ left' = LeaseLength - (age[w] + 1)
    <3>1. owner = id[w] /\ left = LeaseLength - age[w]
      BY <2>2
    <3>2. left - 1 > -MaxDelay
      BY <2>2, <3>1
    <3>3. QED
      BY <1>6, <3>1, <3>2 DEF Tick, SinceLease, Max2
  <2>3. QED
    BY <1>6, <2>1, <2>2 DEF Tick, Busy
<1>7. CASE UNCHANGED vars
  BY <1>7 DEF vars
<1>8. QED
  BY <1>1, <1>2, <1>3, <1>4, <1>5, <1>6, <1>7 DEF Next, Loop

LEMMA LeaseInvariant == Spec => []LeaseInv
<1>1. QED
  BY LeaseInit, LeaseStep, PTL DEF Spec

\* Type correctness of the lease row, the timers and the owner ids.
THEOREM LeaseTypeCorrect == Spec => []TypeOK
<1>1. LeaseInv => TypeOK
  BY DEF LeaseInv
<1>2. QED
  BY <1>1, LeaseInvariant, PTL

\* However long cycles take and however stale the clock reading is that the
\* expiry test uses, at most one worker in a cycle is within its lease.
THEOREM UnexpiredHolderUnique == Spec => []OneUnexpiredHolder
<1>1. LeaseInv => OneUnexpiredHolder
  BY NoOwnerAssumption DEF LeaseInv, OneUnexpiredHolder
<1>2. QED
  BY <1>1, LeaseInvariant, PTL

\* "Only one worker runs checks" (apps.py:12-14) for every deployment in which
\* a cycle, counted from the clock reading, ends before its lease does.
THEOREM CyclesExclusive ==
    ASSUME CycleLimit < LeaseLength
    PROVE  Spec => []MutualExclusion
<1>1. LeaseInv => MutualExclusion
  BY NoOwnerAssumption, TimeAssumption, Lengths
     DEF LeaseInv, TypeOK, MutualExclusion
<1>2. QED
  BY <1>1, LeaseInvariant, PTL
=============================================================================
