---------------------------- MODULE KillActionsProofs ----------------------------
(***************************************************************************)
(* Theorems about KillActions, for any number of processes, slots,         *)
(* operators and workers: what the audit log, the incident credits, the    *)
(* results and the cached partials say is what happened.                   *)
(***************************************************************************)
EXTENDS KillActions, TLAPS

-----------------------------------------------------------------------------
(* The invariant.                                                          *)

\* TypeOK up to the results of a request.
Types ==
    /\ use \in [Pid -> 1..MaxUse]
    /\ live \subseteq Pid /\ dying \subseteq live
    /\ DOMAIN slot \subseteq Slot
    /\ \A s \in DOMAIN slot : slot[s] \in live \cup {NoPid}
    /\ request \in [Operator -> Request]
    /\ cache \in [Worker -> [Partial -> Entry]]

PidsOf(S) == {e[1] : e \in S}

\* Before a request has done anything it has nothing to report.
Unstarted(r) ==
    /\ r.yes = {} /\ r.no = {} /\ r.hit = {} /\ r.logged = {} /\ r.denied = {} /\ r.credited = {}
    /\ ~r.fault

\* Each process terminated is among the successes, or a later result for its PID is told.
Told(hit, yes, no) ==
    \A e \in hit \ yes : \E last \in yes \cup no : last[1] = e[1] /\ last[2] >= e[2]

\* What a request has recorded, by stage: the results cover the PIDs it has gone through,
\* and tell of all that happened, until they are logged.
Recorded(r) ==
    /\ r.logged \subseteq r.hit /\ r.yes \subseteq r.hit
    /\ r.credited \subseteq PidsOf(r.hit)
    /\ r.stage \in {"check", "select", "drop", "terminate"} => Unstarted(r)
    /\ r.stage \in {"kill", "audit"} =>
          r.logged = {} /\ r.denied = {} /\ r.credited = {} /\ (~r.fault => Told(r.hit, r.yes, r.no))
    /\ r.stage \in {"credit", "invalidate", "done"} /\ ~r.fault => Told(r.hit, r.logged, r.denied)
    /\ r.stage \in {"select", "terminate", "drop"} => r.slots # {}
    /\ r.stage = "check" => r.todo = r.pids
    /\ r.stage = "kill" => r.todo \subseteq r.pids /\ PidsOf(r.yes \cup r.no) = r.pids \ r.todo
    /\ r.stage \in {"audit", "credit", "invalidate"} /\ r.slots = {} =>
          PidsOf(r.yes \cup r.no) \in {r.pids, {}}

\* What an action can have taken so far: slots, processes up to the last use of their
\* PID, and nothing of what is untouched.  It only grows.
Taken == {e \in Effect : (e[2] = 0 \/ e[2] <= use[e[1]]) /\ e \notin Untouched}

\* A PID was refused not later than now, and RefusedWereMissingOrProtected; uses,
\* running and senders stand for use, live and Walsenders.
Refused(r, uses, running, senders) ==
    \A e \in r.no :
        /\ e[2] <= uses[e[1]]
        /\ Postgres => \/ e[1] \notin running \/ uses[e[1]] # e[2]
                       \/ ~r.allow /\ e[1] \in senders

\* A snapshot that nothing has deleted since it was read shows no effect of a finished
\* request of its worker.
Shown(r, entries) ==
    r.stage = "done" /\ ~r.fault =>
        LET entry == entries[r.worker][CacheKey(r)] IN
        entry.phase # "absent" /\ ~entry.late => r.hit \cap entry.untouched = {}

\* What holds of a request r.
Good(r, uses, running, senders, taken, entries) ==
    /\ Recorded(r) /\ r.hit \subseteq taken
    /\ Refused(r, uses, running, senders) /\ Shown(r, entries)

KillInv == Types /\ \A o \in Operator : Good(request[o], use, live, Walsenders, Taken, cache)

-----------------------------------------------------------------------------
(* What a step of the server, of another request or of a partial may do to *)
(* a request that is waiting.                                              *)

Uses == [Pid -> 1..MaxUse]
Entries == [Worker -> [Partial -> Entry]]

\* PIDs are used again only after their process is gone, a process stops consuming
\* a slot only when it goes, and what was taken stays so.
Later(uses, running, senders, taken, uses2, running2, senders2, taken2) ==
    /\ \A p \in Pid : uses[p] <= uses2[p]
    /\ \A p \in Pid : p \in running2 => p \in running \/ uses[p] < uses2[p]
    /\ senders \cap running2 \subseteq senders2
    /\ taken \subseteq taken2

\* A snapshot shows what it showed, or nothing that was taken.
NotStaler(taken, entries, entries2) ==
    \A w \in Worker, k \in Partial :
        entries2[w][k].phase # "absent" /\ ~entries2[w][k].late =>
            \/ /\ entries[w][k].phase # "absent" /\ ~entries[w][k].late
               /\ entries2[w][k].untouched = entries[w][k].untouched
            \/ taken \cap entries2[w][k].untouched = {}

LEMMA RefusedStays ==
    ASSUME NEW r \in Request, NEW uses \in Uses, NEW uses2 \in Uses, NEW running, NEW running2,
           NEW senders, NEW senders2, NEW taken, NEW taken2,
           Later(uses, running, senders, taken, uses2, running2, senders2, taken2),
           Refused(r, uses, running, senders)
    PROVE  Refused(r, uses2, running2, senders2)
<1> SUFFICES ASSUME NEW e \in r.no
             PROVE  /\ e[2] <= uses2[e[1]]
                    /\ Postgres => \/ e[1] \notin running2 \/ uses2[e[1]] # e[2]
                                   \/ ~r.allow /\ e[1] \in senders2
    BY DEF Refused
<1>1. e[1] \in Pid /\ e[2] \in Nat
      BY ConstantsAssumption DEF Request, Process
<1>2. uses[e[1]] \in Nat /\ uses2[e[1]] \in Nat /\ uses[e[1]] <= uses2[e[1]]
      BY <1>1, ConstantsAssumption DEF Uses, Later
<1>3. e[2] <= uses[e[1]]
      BY DEF Refused
<1>4. SUFFICES ASSUME Postgres, e[1] \in running2, uses2[e[1]] = e[2]
               PROVE  ~r.allow /\ e[1] \in senders2
      BY <1>1, <1>2, <1>3
<1>5. uses[e[1]] = e[2] /\ e[1] \in running
      BY <1>1, <1>2, <1>3, <1>4 DEF Later
<1>6. ~r.allow /\ e[1] \in senders
      BY <1>4, <1>5 DEF Refused
<1> QED BY <1>4, <1>6 DEF Later

LEMMA ShownStays ==
    ASSUME NEW r \in Request, NEW taken, r.hit \subseteq taken, NEW entries \in Entries,
           NEW entries2 \in Entries, NotStaler(taken, entries, entries2), Shown(r, entries)
    PROVE  Shown(r, entries2)
<1>1. r.worker \in Worker /\ CacheKey(r) \in Partial
      BY DEF Request, CacheKey, Partial
<1> QED BY <1>1 DEF Shown, NotStaler

\* The step from the variables as they are to the next ones.
LaterNow == Later(use, live, Walsenders, Taken, use', live', Walsenders', Taken')
ShownNow == NotStaler(Taken, cache, cache')

LEMMA GoodStays ==
    ASSUME Types, Types', NEW o \in Operator, request'[o] = request[o],
           Good(request[o], use, live, Walsenders, Taken, cache), LaterNow, ShownNow
    PROVE  Good(request'[o], use', live', Walsenders', Taken', cache')
<1>1. request[o] \in Request /\ use \in Uses /\ use' \in Uses /\ cache \in Entries /\ cache' \in Entries
      BY DEF Types, Uses, Entries
<1>2. Refused(request'[o], use', live', Walsenders')
      BY <1>1, RefusedStays DEF Good, LaterNow
<1>3. Shown(request'[o], cache')
      BY <1>1, ShownStays DEF Good, ShownNow
<1> QED BY <1>2, <1>3 DEF Good, LaterNow, Later

-----------------------------------------------------------------------------
(* The server and the partials as the steps change them.                   *)

\* It is enough that nothing new is untouched that was taken before.
LEMMA TakenGrows ==
    ASSUME Types, Types', \A p \in Pid : use[p] <= use'[p], Taken \cap Untouched' = {}
    PROVE  Taken \subseteq Taken'
<1> SUFFICES ASSUME NEW e \in Effect, e[2] = 0 \/ e[2] <= use[e[1]], e \notin Untouched'
             PROVE  e[2] = 0 \/ e[2] <= use'[e[1]]
    BY DEF Taken
<1>1. CASE e[2] = 0
      BY <1>1
<1>2. CASE e[2] # 0
  <2>1. e[1] \in Pid /\ e[2] \in Nat
        BY <1>2, ConstantsAssumption DEF Effect, Process
  <2>2. use[e[1]] \in Nat /\ use'[e[1]] \in Nat
        BY <2>1, ConstantsAssumption DEF Types
  <2> QED BY <1>2, <2>1, <2>2
<1> QED BY <1>1, <1>2

LEMMA FewerUntouched ==
    ASSUME Types, Types', use' = use, Untouched' \subseteq Untouched
    PROVE  Taken \subseteq Taken'
<1>1. \A p \in Pid : use[p] \in Nat
      BY ConstantsAssumption DEF Types
<1> QED BY <1>1, TakenGrows DEF Taken

LEMMA SameTarget == ASSUME Types, UNCHANGED target PROVE LaterNow
<1>1. \A p \in Pid : use[p] \in Nat
      BY ConstantsAssumption DEF Types
<1>2. Taken' = Taken
      BY DEF target, Taken, Untouched, Now
<1> QED BY <1>1, <1>2 DEF target, LaterNow, Later, Walsenders

LEMMA ExitLater == ASSUME Types, Types', NEW p \in Pid, Exit(p) PROVE LaterNow
<1>1. \A q \in Pid : use[q] \in Nat
      BY ConstantsAssumption DEF Types
<1>2. Walsenders \cap live' \subseteq Walsenders'
  <2> SUFFICES ASSUME NEW q \in Walsenders, q \in live' PROVE q \in Walsenders'
      OBVIOUS
  <2>1. PICK s \in DOMAIN slot : slot[s] = q
        BY DEF Walsenders
  <2>2. q # p /\ q # NoPid
        BY DEF Exit, Walsenders
  <2>3. s \in DOMAIN slot' /\ slot'[s] = q
        BY <2>1, <2>2 DEF Exit
  <2> QED BY <2>2, <2>3 DEF Walsenders
<1>3. use' = use /\ Untouched' \subseteq Untouched
      BY DEF Exit, Untouched, Now
<1> QED BY <1>1, <1>2, <1>3, FewerUntouched DEF Exit, LaterNow, Later

\* A process is signalled: it is not untouched any more.
LEMMA SignalLater == ASSUME Types, Types', NEW p \in Pid, Signal(p) PROVE LaterNow
<1>1. \A q \in Pid : use[q] \in Nat
      BY ConstantsAssumption DEF Types
<1>2. use' = use /\ Untouched' \subseteq Untouched
      BY DEF Signal, Untouched, Now
<1> QED BY <1>1, <1>2, FewerUntouched DEF Signal, LaterNow, Later, Walsenders

\* A drop takes a slot that nobody consumes.
LEMMA DropLater ==
    ASSUME Types, Types', NEW s \in DOMAIN slot, slot[s] = NoPid,
           slot' = [x \in DOMAIN slot \ {s} |-> slot[x]], UNCHANGED <<use, live, dying>>
    PROVE  LaterNow /\ <<s, 0>> \in Taken'
<1>1. \A q \in Pid : use[q] \in Nat
      BY ConstantsAssumption DEF Types
<1>2. Walsenders \subseteq Walsenders'
  <2> SUFFICES ASSUME NEW q \in Walsenders PROVE q \in Walsenders'
      OBVIOUS
  <2>1. PICK x \in DOMAIN slot : slot[x] = q
        BY DEF Walsenders
  <2>2. q # NoPid /\ x # s
        BY <2>1 DEF Walsenders
  <2> QED BY <2>1, <2>2 DEF Walsenders
<1>3. DOMAIN slot' = DOMAIN slot \ {s}
      OBVIOUS
<1>4. Untouched' \subseteq Untouched
      BY <1>3 DEF Untouched, Now
<1>5. <<s, 0>> \in Effect
      BY DEF Types, Effect
<1>6. <<s, 0>> \notin Untouched'
  <2>1. \A q \in Pid : use[q] # 0
        BY ConstantsAssumption DEF Types
  <2>2. \A q \in live' : Now(q)' # <<s, 0>>
        BY <2>1 DEF Types, Now
  <2> QED BY <1>3, <2>2 DEF Untouched
<1>7. <<s, 0>> \in Taken'
      BY <1>5, <1>6 DEF Taken
<1> QED BY <1>1, <1>2, <1>4, <1>7, FewerUntouched DEF LaterNow, Later

LEMMA SameCache == ASSUME UNCHANGED cache PROVE ShownNow
BY DEF NotStaler, ShownNow

-----------------------------------------------------------------------------
(* Steps, put together from what they change.                              *)

LEMMA WaitingStay ==
    ASSUME KillInv, Types', UNCHANGED request, LaterNow, ShownNow
    PROVE  KillInv'
<1>1. \A q \in Operator : Good(request'[q], use', live', Walsenders', Taken', cache')
      BY GoodStays DEF KillInv
<1> QED BY <1>1 DEF KillInv

LEMMA RequestWritten ==
    ASSUME Types, NEW o \in Operator, NEW n \in Request, request' = [request EXCEPT ![o] = n]
    PROVE  /\ request' \in [Operator -> Request] /\ request'[o] = n
           /\ \A q \in Operator : q # o => request'[q] = request[q]
BY DEF Types

\* A step of operator o that makes its request n.
LEMMA OneMoves ==
    ASSUME KillInv, NEW o \in Operator, NEW n \in Request, request' = [request EXCEPT ![o] = n],
           Types', LaterNow, ShownNow, Good(n, use', live', Walsenders', Taken', cache')
    PROVE  KillInv'
<1>1. request'[o] = n /\ \A q \in Operator : q # o => request'[q] = request[q]
      BY RequestWritten DEF KillInv
<1>2. \A q \in Operator : q # o => Good(request'[q], use', live', Walsenders', Taken', cache')
      BY <1>1, GoodStays DEF KillInv
<1>3. \A q \in Operator : Good(request'[q], use', live', Walsenders', Taken', cache')
      BY <1>1, <1>2
<1> QED BY <1>3 DEF KillInv

\* One that touches neither the server nor a partial.
LEMMA OnlyRequestMoves ==
    ASSUME KillInv, NEW o \in Operator, NEW n \in Request, request' = [request EXCEPT ![o] = n],
           UNCHANGED <<target, cache>>, Good(n, use, live, Walsenders, Taken, cache)
    PROVE  KillInv'
<1>1. Types'
      BY RequestWritten DEF KillInv, Types, target
<1>2. LaterNow
      BY SameTarget DEF KillInv
<1>3. Good(n, use', live', Walsenders', Taken', cache')
      BY DEF target, Walsenders, Taken, Untouched, Now
<1> QED BY <1>1, <1>2, <1>3, SameCache, OneMoves

-----------------------------------------------------------------------------
(* The server, and the partials.                                           *)

LEMMA ServerKeeps ==
    ASSUME KillInv, NEW p \in Pid, Exit(p) \/ Start(p) \/ \E s \in Slot : Consume(s, p)
    PROVE  KillInv'
<1>1. Types /\ UNCHANGED <<request, cache>>
      BY DEF KillInv, Exit, Start, Consume
<1>2. \A q \in Pid : use[q] \in Nat /\ use[q] \in 1..MaxUse
      BY <1>1, ConstantsAssumption DEF Types
<1>3. CASE Exit(p)
  <2>1. Types'
        BY <1>1, <1>3 DEF Exit, Types
  <2> QED BY <1>1, <1>3, <2>1, ExitLater, SameCache, WaitingStay
<1>4. CASE Start(p)
  <2>1. use' \in [Pid -> 1..MaxUse] /\ live' = live \cup {p} /\ slot' = slot /\ dying' = dying
        BY <1>1, <1>2, <1>4, ConstantsAssumption DEF Start, Types
  <2>2. Types'
        BY <1>1, <1>4, <2>1 DEF Types
  <2>3. /\ \A q \in Pid : use[q] <= use'[q] /\ (q \in live' => q \in live \/ use[q] < use'[q])
        /\ use'[p] = use[p] + 1 /\ \A q \in Pid : q # p => use'[q] = use[q]
        BY <1>1, <1>2, <1>4 DEF Start, Types
  <2>4. Untouched' \subseteq Untouched \cup {<<p, use[p] + 1>>}
    <3> SUFFICES ASSUME NEW q \in live' \ dying' PROVE <<q, use'[q]>> \in Untouched \cup {<<p, use[p] + 1>>}
        BY <2>1 DEF Untouched, Now
    <3>1. CASE q = p
          BY <2>3, <3>1
    <3>2. CASE q # p
          BY <1>1, <2>1, <2>3, <3>2 DEF Types, Untouched, Now
    <3> QED BY <3>1, <3>2
  <2>5. <<p, use[p] + 1>> \notin Taken
        BY <1>2 DEF Taken
  <2>6. Taken \subseteq Taken'
        BY <1>1, <2>2, <2>3, <2>4, <2>5, TakenGrows DEF Taken
  <2>7. LaterNow
        BY <2>1, <2>3, <2>6 DEF LaterNow, Later, Walsenders
  <2> QED BY <1>1, <2>2, <2>7, SameCache, WaitingStay
<1>5. ASSUME NEW s \in Slot, Consume(s, p) PROVE KillInv'
  <2>1. Types' /\ UNCHANGED <<use, live, dying>> /\ DOMAIN slot' = DOMAIN slot
        BY <1>1, <1>5 DEF Consume, Types
  <2>2. Walsenders \subseteq Walsenders'
    <3> SUFFICES ASSUME NEW x \in DOMAIN slot, slot[x] # NoPid PROVE slot[x] \in Walsenders'
        BY DEF Walsenders
    <3>1. x # s
          BY <1>5 DEF Consume
    <3> QED BY <1>5, <3>1 DEF Consume, Walsenders
  <2>3. Taken' = Taken
        BY <2>1 DEF Taken, Untouched, Now
  <2>4. LaterNow
        BY <1>2, <2>1, <2>2, <2>3 DEF LaterNow, Later
  <2> QED BY <1>1, <2>1, <2>4, SameCache, WaitingStay
<1> QED BY <1>3, <1>4, <1>5

LEMMA UntouchedType == ASSUME Types PROVE Untouched \subseteq Effect
BY DEF Types, Untouched, Now, Effect, Process

LEMMA PartialKeeps ==
    ASSUME KillInv, NEW w \in Worker, NEW k \in Partial,
           ReadPartial(w, k) \/ StorePartial(w, k) \/ ExpirePartial(w, k)
    PROVE  KillInv'
<1>1. Types /\ cache[w][k] \in Entry /\ Absent \in Entry /\ UNCHANGED <<target, request>>
      BY DEF KillInv, Types, Entry, Absent, ReadPartial, StorePartial, ExpirePartial
<1>2. PICK e \in Entry :
        /\ cache' = [cache EXCEPT ![w][k] = e]
        /\ \/ e.phase = "absent" \/ Taken \cap e.untouched = {}
           \/ /\ e.untouched = cache[w][k].untouched /\ e.late = cache[w][k].late
              /\ cache[w][k].phase # "absent"
  <2>1. CASE ReadPartial(w, k)
    <3> DEFINE shown == Visible(k) \cap Untouched
               e == [cache[w][k] EXCEPT !.phase = "read", !.untouched = shown]
    <3>1. shown \in SUBSET Effect /\ Taken \cap shown = {}
          BY <1>1, UntouchedType DEF Taken
    <3>2. cache' = [cache EXCEPT ![w][k] = e]
          BY <1>1, <2>1 DEF ReadPartial, Types
    <3> HIDE DEF shown
    <3>3. e \in Entry /\ e.untouched = shown
          BY <1>1, <3>1 DEF Entry
    <3> QED BY <3>1, <3>2, <3>3
  <2>2. CASE StorePartial(w, k)
    <3> DEFINE e == [cache[w][k] EXCEPT !.phase = "stored"]
    <3>1. cache' = [cache EXCEPT ![w][k] = e] /\ cache[w][k].phase = "read"
          BY <2>2 DEF StorePartial
    <3>2. e \in Entry /\ e.untouched = cache[w][k].untouched /\ e.late = cache[w][k].late
          BY <1>1 DEF Entry
    <3> QED BY <3>1, <3>2
  <2>3. CASE ExpirePartial(w, k)
        BY <1>1, <2>3 DEF ExpirePartial, Absent
  <2> QED BY <2>1, <2>2, <2>3
<1>3. Types'
      BY <1>1, <1>2 DEF Types, target
<1>4. ShownNow
      BY <1>1, <1>2 DEF NotStaler, ShownNow, Types
<1> QED BY <1>1, <1>3, <1>4, SameTarget, WaitingStay

-----------------------------------------------------------------------------
(* Requests begin and end.                                                 *)

LEMMA NowType ==
    ASSUME Types, NEW p \in Pid
    PROVE  Now(p) \in Process /\ Now(p) \in Effect /\ Now(p)[1] = p /\ Now(p)[2] = use[p]
BY DEF Types, Now, Process, Effect

LEMMA AskKeeps ==
    ASSUME KillInv, NEW o \in Operator, NEW n \in Request, Ask(o, n), Unstarted(n), Recorded(n),
           n.stage # "done"
    PROVE  KillInv'
<1>1. request' = [request EXCEPT ![o] = n] /\ UNCHANGED <<target, cache>>
      BY DEF Ask
<1>2. Good(n, use, live, Walsenders, Taken, cache)
      BY DEF Good, Refused, Shown, Unstarted
<1> QED BY <1>1, <1>2, OnlyRequestMoves

LEMMA AsksKeep ==
    ASSUME KillInv, NEW o \in Operator, NEW w \in Worker, AskKill(o, w) \/ \E s \in Slot : AskSlot(o, w, s)
    PROVE  KillInv'
<1>1. CASE AskKill(o, w)
  <2>1. PICK pids \in SUBSET Pid, stage \in {"check", "kill"}, allow \in BOOLEAN :
          Ask(o, Fresh(stage, w, pids, {}, allow))
        BY <1>1 DEF AskKill
  <2> DEFINE n == Fresh(stage, w, pids, {}, allow)
  <2>2. n \in Request /\ Unstarted(n) /\ n.stage # "done"
        BY DEF Fresh, Request, Stages, Unstarted
  <2>3. Recorded(n)
        BY DEF Fresh, Unstarted, Recorded, PidsOf, Told
  <2> QED BY <2>1, <2>2, <2>3, AskKeeps
<1>2. ASSUME NEW s \in Slot, AskSlot(o, w, s) PROVE KillInv'
  <2>1. PICK stage \in {"select", "drop"} : Ask(o, Fresh(stage, w, {}, {s}, TRUE))
        BY <1>2 DEF AskSlot
  <2> DEFINE n == Fresh(stage, w, {}, {s}, TRUE)
  <2>2. n \in Request /\ Unstarted(n) /\ n.stage # "done"
        BY DEF Fresh, Request, Stages, Unstarted
  <2>3. Recorded(n)
        BY DEF Fresh, Unstarted, Recorded, PidsOf
  <2> QED BY <2>1, <2>2, <2>3, AskKeeps
<1> QED BY <1>1, <1>2

\* A request that is over keeps its effects, its entry and whether it failed.
Over(r, n, hit, fault) ==
    /\ n.stage = "done" /\ n.hit = hit /\ n.fault = fault /\ n.worker = r.worker /\ n.slots = r.slots
    /\ Recorded(n) /\ n.no = {}

LEMMA Finished ==
    ASSUME Types, NEW o \in Operator, NEW hit \in SUBSET Effect, NEW fault \in BOOLEAN,
           Finish(o, hit, fault), request[o].logged \subseteq hit,
           ~fault => Told(hit, request[o].logged, request[o].denied)
    PROVE  \E n \in Request : request' = [request EXCEPT ![o] = n] /\ Over(request[o], n, hit, fault)
<1> DEFINE r == request[o]
           n == [r EXCEPT !.stage = "done", !.hit = hit, !.fault = fault, !.pids = {}, !.todo = {},
                          !.allow = FALSE, !.yes = {}, !.no = {}, !.credited = {}]
<1>1. r \in Request
      BY DEF Types
<1>2. n \in Request
      BY <1>1 DEF Request, Stages
<1>3. request' = [request EXCEPT ![o] = n]
      BY DEF Finish, Types
<1>4. /\ n.stage = "done" /\ n.hit = hit /\ n.fault = fault /\ n.worker = r.worker /\ n.slots = r.slots
      /\ n.no = {} /\ n.yes = {} /\ n.credited = {} /\ n.logged = r.logged /\ n.denied = r.denied
      BY <1>1 DEF Request
<1>5. Recorded(n)
      BY <1>4 DEF Recorded, PidsOf
<1> HIDE DEF n
<1> QED BY <1>2, <1>3, <1>4, <1>5 DEF Over

-----------------------------------------------------------------------------
(* The stages of a request.                                                *)

LEMMA RequestFacts ==
    ASSUME KillInv, NEW o \in Operator
    PROVE  /\ Types /\ request[o] \in Request /\ Recorded(request[o]) /\ request[o].hit \subseteq Taken
           /\ Refused(request[o], use, live, Walsenders) /\ Shown(request[o], cache)
BY DEF KillInv, Types, Good

\* The results and effects stay as they are, and the request goes on.
LEMMA GoesOn ==
    ASSUME KillInv, NEW o \in Operator, NEW n \in Request, request' = [request EXCEPT ![o] = n],
           UNCHANGED <<target, cache>>, Recorded(n),
           n.no = request[o].no, n.allow = request[o].allow, n.hit = request[o].hit, n.stage # "done"
    PROVE  KillInv'
<1>1. Refused(n, use, live, Walsenders) /\ Shown(n, cache) /\ n.hit \subseteq Taken
      BY RequestFacts DEF Refused, Shown
<1> QED BY <1>1, OnlyRequestMoves DEF Good

\* The request signals p.
LEMMA TerminationKeeps ==
    ASSUME KillInv, NEW o \in Operator, NEW p \in Pid, p \in live, Signal(p), UNCHANGED cache,
           NEW n \in Request, request' = [request EXCEPT ![o] = n], Recorded(n),
           n.hit = request[o].hit \cup {Now(p)}, Refused(n, use, live, Walsenders),
           n.stage = "done" => n.fault
    PROVE  KillInv'
<1>1. Types /\ use' = use /\ request[o].hit \subseteq Taken
      BY RequestFacts DEF Signal
<1>2. Types'
      BY <1>1, RequestWritten DEF Types, Signal
<1>3. LaterNow
      BY <1>1, <1>2, SignalLater
<1>4. Now(p) \in Taken'
  <2>1. Now(p)' = Now(p) /\ Now(p) \in Effect /\ Now(p)[1] = p /\ Now(p)[2] = use[p] /\ use[p] \in Nat
        BY <1>1, NowType, ConstantsAssumption DEF Types, Now
  <2>2. Now(p) \notin Untouched'
    <3>1. p \in dying' /\ use[p] # 0
          BY <1>1, ConstantsAssumption DEF Signal, Types
    <3>2. Now(p) \notin {Now(q)' : q \in live' \ dying'}
          BY <1>1, <3>1 DEF Now
    <3>3. Now(p) \notin (DOMAIN slot') \X {0}
          BY <3>1 DEF Now
    <3> QED BY <3>2, <3>3 DEF Untouched
  <2> QED BY <1>1, <2>1, <2>2 DEF Taken
<1>5. Good(n, use', live', Walsenders', Taken', cache')
  <2>1. Refused(n, use', live', Walsenders')
        BY DEF Signal, Refused, Walsenders
  <2>2. n.hit \subseteq Taken' /\ Shown(n, cache')
        BY <1>1, <1>3, <1>4 DEF LaterNow, Later, Shown
  <2> QED BY <2>1, <2>2 DEF Good
<1> QED BY <1>2, <1>3, <1>5, SameCache, OneMoves

LEMMA CheckKeeps == ASSUME KillInv, NEW o \in Operator, CheckLocks(o) PROVE KillInv'
<1> DEFINE r == request[o]
<1>1. /\ Types /\ r \in Request /\ r.stage = "check" /\ r.todo = r.pids /\ Unstarted(r)
      /\ Recorded(r) /\ UNCHANGED <<target, cache>>
      BY RequestFacts DEF CheckLocks, Recorded
<1>2. CASE Go(o, "kill")
  <2> DEFINE n == [r EXCEPT !.stage = "kill"]
  <2>1. n \in Request /\ request' = [request EXCEPT ![o] = n]
        BY <1>1, <1>2 DEF Go, Request, Stages, Types
  <2>2. /\ n.stage = "kill" /\ n.todo = r.todo /\ n.pids = r.pids /\ Unstarted(n)
        /\ n.no = r.no /\ n.allow = r.allow /\ n.hit = r.hit
        BY <1>1 DEF Request, Unstarted
  <2>3. Recorded(n)
        BY <1>1, <2>2 DEF Recorded, Unstarted, PidsOf, Told
  <2> HIDE DEF n
  <2> QED BY <1>1, <2>1, <2>2, <2>3, GoesOn
<1>3. CASE Finish(o, {}, FALSE)
  <2>1. PICK n \in Request : request' = [request EXCEPT ![o] = n] /\ Over(r, n, {}, FALSE)
    <3>1. Types
          BY <1>1
    <3>2. {} \in SUBSET Effect /\ FALSE \in BOOLEAN
          OBVIOUS
    <3>3. request[o].logged \subseteq {} /\ (~FALSE => Told({}, request[o].logged, request[o].denied))
          BY <1>1 DEF Unstarted, Told
    <3> QED BY <1>3, <3>1, <3>2, <3>3, Finished, Zenon
  <2>2. Good(n, use, live, Walsenders, Taken, cache)
        BY <2>1 DEF Over, Good, Refused, Shown
  <2> QED BY <1>1, <2>1, <2>2, OnlyRequestMoves
<1> QED BY <1>2, <1>3 DEF CheckLocks

LEMMA UnreachableKeeps == ASSUME KillInv, NEW o \in Operator, Unreachable(o) \/ KillsDone(o) PROVE KillInv'
<1> DEFINE r == request[o]
           n == [r EXCEPT !.stage = "audit"]
<1>1. /\ Types /\ r \in Request /\ Recorded(r) /\ UNCHANGED <<target, cache>>
      /\ \/ r.stage \in {"select", "drop"}
         \/ r.stage = "kill" /\ (r.todo = r.pids \/ r.todo = {})
      BY RequestFacts DEF Unreachable, KillsDone, NoneLeft
<1>2. n \in Request /\ request' = [request EXCEPT ![o] = n]
      BY <1>1 DEF Unreachable, KillsDone, Go, Request, Stages, Types
<1>3. /\ n.stage = "audit" /\ n.pids = r.pids /\ n.slots = r.slots /\ n.yes = r.yes
      /\ n.no = r.no /\ n.allow = r.allow /\ n.hit = r.hit /\ n.logged = r.logged
      /\ n.denied = r.denied /\ n.credited = r.credited /\ n.fault = r.fault
      BY <1>1 DEF Request
<1>4. Recorded(n)
  <2>1. CASE r.stage \in {"select", "drop"}
        BY <1>1, <1>3, <2>1 DEF Recorded, Unstarted, Told
  <2>2. CASE r.stage = "kill"
        BY <1>1, <1>3, <2>2 DEF Recorded
  <2> QED BY <1>1, <2>1, <2>2
<1> HIDE DEF n
<1> QED BY <1>1, <1>2, <1>3, <1>4, GoesOn

\* One more result, for p, replaces those of p; what happened is told still.
LEMMA OneResult ==
    ASSUME Types, NEW p \in Pid, NEW hit \in SUBSET Taken, NEW yes \in SUBSET Effect,
           NEW no \in SUBSET Process, Told(hit, yes, no),
           NEW yes2, NEW no2, NEW hit2, hit2 \subseteq hit \cup {Now(p)},
           \/ yes2 = Other(yes, p) \cup {Now(p)} /\ no2 = Other(no, p)
           \/ yes2 = Other(yes, p) /\ no2 = Other(no, p) \cup {Now(p)} /\ hit2 = hit
    PROVE  Told(hit2, yes2, no2)
<1>1. Now(p)[1] = p /\ Now(p)[2] = use[p] /\ use[p] \in Nat
      BY NowType, ConstantsAssumption DEF Types
<1>2. Now(p) \in yes2 \cup no2 /\ Other(yes, p) \subseteq yes2 /\ Other(no, p) \subseteq no2
      OBVIOUS
<1>3. ASSUME NEW e \in hit2 \ yes2 PROVE \E last \in yes2 \cup no2 : last[1] = e[1] /\ last[2] >= e[2]
  <2>1. CASE e[1] = p
    <3>1. e = Now(p) \/ e \in Taken
          OBVIOUS
    <3>2. e[2] <= use[p]
      <4>1. CASE e = Now(p)
            BY <1>1, <4>1
      <4>2. CASE e \in Taken
            BY <1>1, <2>1, <4>2 DEF Taken
      <4> QED BY <3>1, <4>1, <4>2
    <3>3. e[2] \in Nat
          BY <1>1, <3>1, ConstantsAssumption DEF Taken, Effect, Process
    <3> QED BY <1>1, <1>2, <2>1, <3>2, <3>3
  <2>2. CASE e[1] # p
    <3>1. e \in hit /\ e \notin yes
          BY <1>1, <1>2, <2>2 DEF Other
    <3>2. PICK last \in yes \cup no : last[1] = e[1] /\ last[2] >= e[2]
          BY <3>1 DEF Told
    <3>3. last \in yes2 \cup no2
          BY <1>2, <2>2, <3>2 DEF Other
    <3> QED BY <3>2, <3>3
  <2> QED BY <2>1, <2>2
<1> QED BY <1>3 DEF Told

LEMMA OneKill ==
    ASSUME Types, NEW p \in Pid, NEW hit \in SUBSET Taken, NEW yes \in SUBSET Effect,
           NEW no \in SUBSET Process, Told(hit, yes, no)
    PROVE  Told(hit \cup {Now(p)}, Other(yes, p) \cup {Now(p)}, Other(no, p))
BY OneResult, Zenon

LEMMA OneRefusal ==
    ASSUME Types, NEW p \in Pid, NEW hit \in SUBSET Taken, NEW yes \in SUBSET Effect,
           NEW no \in SUBSET Process, Told(hit, yes, no)
    PROVE  Told(hit, Other(yes, p), Other(no, p) \cup {Now(p)})
<1>1. hit \subseteq hit \cup {Now(p)}
      OBVIOUS
<1> QED BY <1>1, OneResult, Zenon

LEMMA KillKeeps ==
    ASSUME KillInv, NEW o \in Operator, NEW p \in Pid, KillNext(o, p) \/ TerminateBackend(o, p)
    PROVE  KillInv'
<1> DEFINE r == request[o]
<1>1. /\ Types /\ r \in Request /\ Recorded(r) /\ Refused(r, use, live, Walsenders)
      /\ r.hit \subseteq Taken /\ r.stage \in {"kill", "terminate"}
      BY RequestFacts DEF KillNext, TerminateBackend
<1>2. /\ Now(p) \in Process /\ Now(p) \in Effect /\ Now(p)[1] = p /\ Now(p)[2] = use[p]
      /\ use[p] \in Nat
      BY <1>1, NowType, ConstantsAssumption DEF Types
<1> DEFINE stage == IF r.stage = "kill" THEN "kill" ELSE "audit"
<1>3. ASSUME p \in live, Signal(p), UNCHANGED cache, Succeed(o, p, stage), r.stage = "kill" => p \in r.pids
      PROVE  KillInv'
  <2> DEFINE yes == Other(r.yes, p) \cup {Now(p)}
             no == Other(r.no, p)
             n == [r EXCEPT !.stage = stage, !.todo = @ \ {p}, !.yes = yes, !.no = no,
                            !.hit = @ \cup {Now(p)}]
  <2>1. yes \in SUBSET Effect /\ no \in SUBSET Process /\ no \subseteq r.no /\ yes \subseteq r.yes \cup {Now(p)}
        BY <1>1, <1>2 DEF Request, Other
  <2>2. Told(r.hit, r.yes, r.no) \/ r.fault
        BY <1>1 DEF Recorded, Unstarted, Told
  <2>3. /\ ~r.fault => Told(r.hit \cup {Now(p)}, yes, no)
        /\ PidsOf(yes \cup no) = PidsOf(r.yes \cup r.no) \cup {p}
    <3>1. r.yes \in SUBSET Effect /\ r.no \in SUBSET Process /\ r.hit \in SUBSET Taken
          BY <1>1 DEF Request
    <3>2. ASSUME Told(r.hit, r.yes, r.no) PROVE Told(r.hit \cup {Now(p)}, yes, no)
          BY <1>1, <3>1, <3>2, OneKill, Zenon
    <3>3. PidsOf(yes \cup no) = PidsOf(r.yes \cup r.no) \cup {p}
          BY <1>2 DEF Other, PidsOf
    <3> QED BY <2>2, <3>2, <3>3
  <2> HIDE DEF yes, no
  <2>4. n \in Request /\ request' = [request EXCEPT ![o] = n]
        BY <1>1, <1>2, <1>3, <2>1 DEF Succeed, Request, Stages, Types, yes, no
  <2>5. /\ n.stage = stage /\ n.todo = r.todo \ {p} /\ n.yes = yes /\ n.no = no
        /\ n.hit = r.hit \cup {Now(p)} /\ n.pids = r.pids /\ n.slots = r.slots /\ n.denied = r.denied
        /\ n.logged = r.logged /\ n.credited = r.credited /\ n.allow = r.allow /\ n.fault = r.fault
        BY <1>1 DEF Request
  <2>6. Recorded(n)
    <3>1. n.logged \subseteq n.hit /\ n.yes \subseteq n.hit /\ n.credited \subseteq PidsOf(n.hit)
          BY <1>1, <2>1, <2>5 DEF Recorded, PidsOf
    <3>2. /\ n.logged = {} /\ n.denied = {} /\ n.credited = {}
          /\ ~n.fault => Told(n.hit, n.yes, n.no)
          BY <1>1, <2>3, <2>5 DEF Recorded, Unstarted
    <3>3. CASE stage = "kill"
      <4>1. r.stage = "kill" /\ n.stage = "kill" /\ r.todo \subseteq r.pids
            BY <1>1, <1>3, <2>5, <3>3 DEF Recorded
      <4>2. PidsOf(r.yes \cup r.no) = r.pids \ r.todo
            BY <1>1, <4>1 DEF Recorded
      <4>3. PidsOf(yes \cup no) = r.pids \ (r.todo \ {p})
            BY <1>3, <2>3, <4>1, <4>2
      <4>4. PidsOf(n.yes \cup n.no) = n.pids \ n.todo
            BY <2>5, <4>3
      <4> QED BY <2>5, <3>1, <3>2, <4>1, <4>4 DEF Recorded
    <3>4. CASE r.stage = "terminate"
      <4>1. n.slots # {}
            BY <1>1, <2>5, <3>4 DEF Recorded
      <4> QED BY <2>5, <3>1, <3>2, <3>4, <4>1 DEF Recorded
    <3> QED BY <1>1, <3>3, <3>4
  <2>7. Refused(n, use, live, Walsenders)
        BY <1>1, <2>1, <2>5 DEF Refused
  <2>8. n.stage # "done"
        BY <1>3, <2>5
  <2> HIDE DEF n
  <2> QED BY <1>3, <2>4, <2>5, <2>6, <2>7, <2>8, TerminationKeeps
<1>4. CASE TerminateBackend(o, p) /\ p \notin live
  <2> DEFINE n == [r EXCEPT !.stage = "audit"]
  <2>1. n \in Request /\ request' = [request EXCEPT ![o] = n] /\ UNCHANGED <<target, cache>>
        BY <1>1, <1>4 DEF TerminateBackend, Go, Request, Stages, Types
  <2>2. /\ n.stage = "audit" /\ n.slots = r.slots /\ n.yes = r.yes
        /\ n.no = r.no /\ n.allow = r.allow /\ n.hit = r.hit /\ n.logged = r.logged
        /\ n.denied = r.denied /\ n.credited = r.credited /\ n.fault = r.fault
        BY <1>1 DEF Request
  <2>3. r.stage = "terminate"
        BY <1>4 DEF TerminateBackend
  <2>4. Recorded(n)
        BY <1>1, <2>2, <2>3 DEF Recorded, Unstarted, Told
  <2> HIDE DEF n
  <2> QED BY <2>1, <2>2, <2>4, GoesOn
<1>5. CASE KillNext(o, p)
  <2>1. /\ r.stage = "kill" /\ p \in live /\ p \in r.pids /\ Signal(p) /\ Succeed(o, p, "kill")
        /\ UNCHANGED cache
        BY <1>5 DEF KillNext, Killable
  <2> QED BY <1>3, <2>1
<1>6. CASE TerminateBackend(o, p) /\ p \in live
  <2>1. r.stage = "terminate" /\ Signal(p) /\ Succeed(o, p, "audit") /\ UNCHANGED cache
        BY <1>6 DEF TerminateBackend
  <2> QED BY <1>3, <1>6, <2>1
<1> QED BY <1>4, <1>5, <1>6

LEMMA SkipKeeps == ASSUME KillInv, NEW o \in Operator, NEW p \in Pid, SkipNext(o, p) PROVE KillInv'
<1> DEFINE r == request[o]
           yes == Other(r.yes, p)
           no == Other(r.no, p) \cup {Now(p)}
           n == [r EXCEPT !.todo = @ \ {p}, !.yes = yes, !.no = no]
<1>1. /\ Types /\ r \in Request /\ Recorded(r) /\ Refused(r, use, live, Walsenders)
      /\ r.hit \subseteq Taken /\ p \in r.pids /\ r.stage = "kill" /\ ~Killable(r, p)
      /\ UNCHANGED <<target, cache>>
      BY RequestFacts DEF SkipNext
<1>2. /\ Now(p) \in Process /\ Now(p)[1] = p /\ Now(p)[2] = use[p] /\ use[p] \in Nat
      BY <1>1, NowType, ConstantsAssumption DEF Types
<1>3. /\ yes \in SUBSET Effect /\ no \in SUBSET Process /\ yes \subseteq r.yes
      /\ no \subseteq r.no \cup {Now(p)}
      BY <1>1, <1>2 DEF Request, Other
<1>4. /\ ~r.fault => Told(r.hit, yes, no)
      /\ PidsOf(yes \cup no) = PidsOf(r.yes \cup r.no) \cup {p}
  <2>1. r.yes \in SUBSET Effect /\ r.no \in SUBSET Process /\ r.hit \in SUBSET Taken
        BY <1>1 DEF Request
  <2>2. ASSUME Told(r.hit, r.yes, r.no) PROVE Told(r.hit, yes, no)
        BY <1>1, <2>1, <2>2, OneRefusal, Zenon
  <2>3. PidsOf(yes \cup no) = PidsOf(r.yes \cup r.no) \cup {p}
        BY <1>2 DEF Other, PidsOf
  <2> QED BY <1>1, <2>2, <2>3 DEF Recorded
<1> HIDE DEF yes, no
<1>5. n \in Request /\ request' = [request EXCEPT ![o] = n]
      BY <1>1, <1>3 DEF SkipNext, Request, Types, yes, no
<1>6. /\ n.stage = "kill" /\ n.todo = r.todo \ {p} /\ n.no = no /\ n.yes = yes /\ n.denied = r.denied
      /\ n.hit = r.hit /\ n.pids = r.pids /\ n.slots = r.slots
      /\ n.logged = r.logged /\ n.credited = r.credited /\ n.allow = r.allow /\ n.fault = r.fault
      BY <1>1 DEF Request
<1>7. Recorded(n)
  <2>1. r.todo \subseteq r.pids /\ PidsOf(r.yes \cup r.no) = r.pids \ r.todo
        BY <1>1 DEF Recorded
  <2>2. n.todo \subseteq n.pids /\ PidsOf(n.yes \cup n.no) = n.pids \ n.todo
        BY <1>1, <1>4, <1>6, <2>1
  <2>3. n.yes \subseteq n.hit
        BY <1>1, <1>3, <1>6 DEF Recorded
  <2> QED BY <1>1, <1>4, <1>6, <2>2, <2>3 DEF Recorded
<1>8. Refused(n, use, live, Walsenders)
  <2>1. Postgres => p \notin live \/ (~r.allow /\ p \in Walsenders)
        BY <1>1 DEF Killable
  <2> QED BY <1>1, <1>2, <1>3, <1>6, <2>1 DEF Refused
<1>9. n.hit \subseteq Taken /\ Shown(n, cache)
      BY <1>1, <1>6 DEF Shown
<1> HIDE DEF n
<1> QED BY <1>1, <1>5, <1>7, <1>8, <1>9, OnlyRequestMoves DEF Good

LEMMA SelectKeeps == ASSUME KillInv, NEW o \in Operator, NEW s \in Slot, SelectBackend(o, s) PROVE KillInv'
<1> DEFINE r == request[o]
<1>1. /\ Types /\ r \in Request /\ Recorded(r) /\ Unstarted(r) /\ r.stage = "select"
      /\ r.slots # {} /\ UNCHANGED <<target, cache>>
      BY RequestFacts DEF SelectBackend, Recorded
<1>2. CASE s \in DOMAIN slot /\ slot[s] # NoPid
  <2> DEFINE n == [r EXCEPT !.stage = "terminate", !.todo = {slot[s]}]
  <2>1. slot[s] \in Pid
        BY <1>1, <1>2 DEF Types
  <2>2. n \in Request /\ request' = [request EXCEPT ![o] = n]
        BY <1>1, <1>2, <2>1 DEF SelectBackend, Request, Stages, Types
  <2>3. /\ n.stage = "terminate" /\ Unstarted(n) /\ n.slots = r.slots
        /\ n.no = r.no /\ n.allow = r.allow /\ n.hit = r.hit
        BY <1>1 DEF Request, Unstarted
  <2>4. Recorded(n)
        BY <1>1, <2>3 DEF Recorded, Unstarted
  <2> HIDE DEF n
  <2> QED BY <1>1, <2>2, <2>3, <2>4, GoesOn
<1>3. CASE ~(s \in DOMAIN slot /\ slot[s] # NoPid)
  <2> DEFINE n == [r EXCEPT !.stage = "audit"]
  <2>1. n \in Request /\ request' = [request EXCEPT ![o] = n]
        BY <1>1, <1>3 DEF SelectBackend, Go, Request, Stages, Types
  <2>2. /\ n.stage = "audit" /\ Unstarted(n) /\ n.slots = r.slots
        /\ n.no = r.no /\ n.allow = r.allow /\ n.hit = r.hit
        BY <1>1 DEF Request, Unstarted
  <2>3. Recorded(n)
        BY <1>1, <2>2 DEF Recorded, Unstarted, Told
  <2> HIDE DEF n
  <2> QED BY <1>1, <2>1, <2>2, <2>3, GoesOn
<1> QED BY <1>2, <1>3

LEMMA DropKeeps == ASSUME KillInv, NEW o \in Operator, NEW s \in Slot, Drop(o, s) PROVE KillInv'
<1> DEFINE r == request[o]
<1>1. /\ Types /\ r \in Request /\ Recorded(r) /\ Unstarted(r) /\ r.stage = "drop"
      /\ r.slots # {} /\ UNCHANGED <<use, live, dying, cache>>
      BY RequestFacts DEF Drop, Recorded
<1>2. CASE s \in DOMAIN slot /\ slot[s] = NoPid
  <2>1. PICK replied \in BOOLEAN :
          request' = [request EXCEPT ![o].stage = "audit", ![o].hit = {<<s, 0>>},
                                     ![o].yes = IF replied THEN {<<s, 0>>} ELSE {},
                                     ![o].fault = ~replied]
        BY <1>2 DEF Drop
  <2> DEFINE yes == IF replied THEN {<<s, 0>>} ELSE {}
             n == [r EXCEPT !.stage = "audit", !.hit = {<<s, 0>>}, !.yes = yes, !.fault = ~replied]
  <2>2. n \in Request /\ request' = [request EXCEPT ![o] = n]
    <3>1. {<<s, 0>>} \in SUBSET Effect /\ yes \in SUBSET Effect /\ (~replied) \in BOOLEAN
          BY DEF Effect
    <3> HIDE DEF yes
    <3> QED BY <1>1, <2>1, <3>1 DEF Request, Stages, Types, yes
  <2>3. /\ n.stage = "audit" /\ n.hit = {<<s, 0>>} /\ n.yes \subseteq n.hit /\ n.slots = r.slots
        /\ n.no = {} /\ n.logged = {} /\ n.denied = {} /\ n.credited = {}
        /\ ~n.fault => n.yes = n.hit
        BY <1>1, <2>1 DEF Request, Unstarted
  <2> HIDE DEF n
  <2>4. slot' = [x \in DOMAIN slot \ {s} |-> slot[x]]
        BY <1>2 DEF Drop
  <2>5. Types'
        BY <1>1, <2>2, <2>4, RequestWritten DEF Types
  <2>6. LaterNow /\ <<s, 0>> \in Taken'
        BY <1>1, <1>2, <2>4, <2>5, DropLater
  <2>7. Good(n, use', live', Walsenders', Taken', cache')
        BY <1>1, <2>3, <2>6 DEF Good, Recorded, Told, Refused, Shown
  <2> QED BY <1>1, <2>2, <2>5, <2>6, <2>7, SameCache, OneMoves
<1>3. CASE ~(s \in DOMAIN slot /\ slot[s] = NoPid)
  <2> DEFINE n == [r EXCEPT !.stage = "audit"]
  <2>1. n \in Request /\ request' = [request EXCEPT ![o] = n] /\ UNCHANGED <<target, cache>>
        BY <1>1, <1>3 DEF Drop, Go, Request, Stages, Types, target
  <2>2. /\ n.stage = "audit" /\ Unstarted(n) /\ n.slots = r.slots
        /\ n.no = r.no /\ n.allow = r.allow /\ n.hit = r.hit
        BY <1>1 DEF Request, Unstarted
  <2>3. Recorded(n)
        BY <1>1, <2>2 DEF Recorded, Unstarted, Told
  <2> HIDE DEF n
  <2> QED BY <2>1, <2>2, <2>3, GoesOn
<1> QED BY <1>2, <1>3

LEMMA AuditKeeps == ASSUME KillInv, NEW o \in Operator, Audit(o) PROVE KillInv'
<1> DEFINE r == request[o]
           next == IF r.slots = {} /\ r.yes # {} THEN "credit" ELSE "invalidate"
<1>1. /\ Types /\ r \in Request /\ Recorded(r) /\ r.stage = "audit"
      /\ UNCHANGED <<target, cache>>
      BY RequestFacts DEF Audit
<1>2. next \in {"credit", "invalidate"}
      OBVIOUS
<1>3. CASE request' = [request EXCEPT ![o].stage = next, ![o].logged = Logged(r),
                                                 ![o].denied = r.no]
  <2> DEFINE n == [r EXCEPT !.stage = next, !.logged = r.yes, !.denied = r.no]
  <2> HIDE DEF next
  <2>1. n \in Request /\ request' = [request EXCEPT ![o] = n]
        BY <1>1, <1>2, <1>3 DEF Logged, Request, Stages, Types
  <2>2. /\ n.stage \in {"credit", "invalidate"} /\ n.logged = r.yes /\ n.denied = r.no /\ n.yes = r.yes /\ n.no = r.no
        /\ n.hit = r.hit /\ n.pids = r.pids /\ n.slots = r.slots
        /\ n.credited = r.credited /\ n.allow = r.allow /\ n.fault = r.fault
        BY <1>1, <1>2 DEF Request
  <2>3. Recorded(n)
        BY <1>1, <2>2 DEF Recorded
  <2> HIDE DEF n
  <2> QED BY <1>1, <2>1, <2>2, <2>3, GoesOn
<1>4. CASE request' = [request EXCEPT ![o].stage = next, ![o].fault = TRUE]
  <2> DEFINE n == [r EXCEPT !.stage = next, !.fault = TRUE]
  <2> HIDE DEF next
  <2>1. n \in Request /\ request' = [request EXCEPT ![o] = n]
        BY <1>1, <1>2, <1>4 DEF Request, Stages, Types
  <2>2. /\ n.stage \in {"credit", "invalidate"} /\ n.logged = r.logged /\ n.denied = r.denied /\ n.yes = r.yes /\ n.no = r.no
        /\ n.hit = r.hit /\ n.pids = r.pids /\ n.slots = r.slots
        /\ n.credited = r.credited /\ n.allow = r.allow /\ n.fault
        BY <1>1, <1>2 DEF Request
  <2>3. Recorded(n)
        BY <1>1, <2>2 DEF Recorded
  <2> HIDE DEF n
  <2> QED BY <1>1, <2>1, <2>2, <2>3, GoesOn
<1> QED BY <1>3, <1>4 DEF Audit

LEMMA CreditKeeps == ASSUME KillInv, NEW o \in Operator, Credit(o) PROVE KillInv'
<1> DEFINE r == request[o]
<1>1. /\ Types /\ r \in Request /\ Recorded(r) /\ r.stage = "credit"
      /\ UNCHANGED <<target, cache>>
      BY RequestFacts DEF Credit
<1>2. PICK open \in SUBSET Pid :
        request' = [request EXCEPT ![o].stage = "invalidate", ![o].credited = CreditOf(r, open)]
      BY DEF Credit
<1> DEFINE given == CreditOf(r, open)
           n == [r EXCEPT !.stage = "invalidate", !.credited = given]
<1>3. given \subseteq Pid /\ given \subseteq PidsOf(r.yes)
      BY DEF CreditOf, PidsOf
<1> HIDE DEF given
<1>4. n \in Request /\ request' = [request EXCEPT ![o] = n]
      BY <1>1, <1>2, <1>3 DEF Request, Stages, Types, given
<1>5. /\ n.stage = "invalidate" /\ n.logged = r.logged /\ n.denied = r.denied /\ n.yes = r.yes /\ n.no = r.no
      /\ n.hit = r.hit /\ n.pids = r.pids /\ n.slots = r.slots
      /\ n.credited = given /\ n.allow = r.allow /\ n.fault = r.fault
      BY <1>1 DEF Request
<1>6. Recorded(n)
  <2>1. n.credited \subseteq PidsOf(n.hit)
        BY <1>1, <1>3, <1>5 DEF Recorded, PidsOf
  <2> QED BY <1>1, <1>5, <2>1 DEF Recorded
<1> HIDE DEF n
<1> QED BY <1>1, <1>4, <1>5, <1>6, GoesOn

LEMMA InvalidateKeeps == ASSUME KillInv, NEW o \in Operator, Invalidate(o) PROVE KillInv'
<1> DEFINE r == request[o]
           w == r.worker
           k == CacheKey(r)
           left == IF cache[w][k].phase = "read" THEN [cache[w][k] EXCEPT !.late = TRUE] ELSE Absent
<1>1. /\ Types /\ r \in Request /\ Recorded(r) /\ r.hit \subseteq Taken /\ r.stage = "invalidate"
      /\ Finish(o, r.hit, r.fault) /\ UNCHANGED target
      BY RequestFacts DEF Invalidate
<1>2. w \in Worker /\ k \in Partial /\ cache[w][k] \in Entry /\ Absent \in Entry
      BY <1>1 DEF Request, CacheKey, Partial, Types, Entry, Absent
<1>3. /\ left \in Entry /\ cache' = [cache EXCEPT ![w][k] = left]
      /\ left.phase = "absent" \/ left.late
  <2>1. cache' = [cache EXCEPT ![w][k] = left]
        BY DEF Invalidate
  <2>2. CASE cache[w][k].phase = "read"
        BY <1>2, <2>1, <2>2 DEF Entry
  <2>3. CASE cache[w][k].phase # "read"
        BY <1>2, <2>1, <2>3 DEF Absent
  <2> QED BY <2>2, <2>3
<1> HIDE DEF left
<1>4. cache' \in Entries /\ cache'[w][k] = left
      BY <1>1, <1>2, <1>3 DEF Types, Entries
<1>5. ShownNow
  <2> SUFFICES ASSUME NEW x \in Worker, NEW j \in Partial, cache'[x][j].phase # "absent", ~cache'[x][j].late
               PROVE  cache'[x][j] = cache[x][j]
      BY DEF NotStaler, ShownNow
  <2>1. CASE x = w /\ j = k
        BY <1>3, <1>4, <2>1
  <2>2. CASE ~(x = w /\ j = k)
        BY <1>1, <1>2, <1>3, <2>2 DEF Types
  <2> QED BY <2>1, <2>2
<1>6. PICK n \in Request : request' = [request EXCEPT ![o] = n] /\ Over(r, n, r.hit, r.fault)
  <2>1. Types /\ Finish(o, r.hit, r.fault)
        BY <1>1
  <2>2. r.hit \in SUBSET Effect /\ r.fault \in BOOLEAN
        BY <1>1 DEF Request
  <2>3. r.logged \subseteq r.hit /\ (~r.fault => Told(r.hit, r.logged, r.denied))
        BY <1>1 DEF Recorded
  <2> QED BY <2>1, <2>2, <2>3, Finished, Zenon
<1>7. LaterNow
      BY <1>1, SameTarget
<1>8. Good(n, use', live', Walsenders', Taken', cache')
  <2>1. n.worker = w /\ CacheKey(n) = k
        BY <1>6 DEF Over, CacheKey
  <2>2. Shown(n, cache')
        BY <1>3, <1>4, <2>1 DEF Shown
  <2>3. n.hit \subseteq Taken' /\ Refused(n, use', live', Walsenders')
        BY <1>1, <1>6, <1>7 DEF Over, Refused, LaterNow, Later
  <2> QED BY <1>6, <2>2, <2>3 DEF Over, Good
<1>9. Types'
      BY <1>1, <1>4, <1>6, RequestWritten DEF Types, target, Entries
<1> QED BY <1>5, <1>6, <1>7, <1>8, <1>9, OneMoves

LEMMA FailKeeps == ASSUME KillInv, NEW o \in Operator, Fail(o) PROVE KillInv'
<1> DEFINE r == request[o]
<1>1. /\ Types /\ r \in Request /\ r.hit \subseteq Taken
      /\ r.hit \in SUBSET Effect /\ r.logged \subseteq r.hit
      BY RequestFacts DEF Recorded, Request
<1>2. ASSUME NEW hit \in SUBSET Effect, r.hit \subseteq hit, Finish(o, hit, TRUE)
      PROVE  \E n \in Request : request' = [request EXCEPT ![o] = n] /\ Over(r, n, hit, TRUE)
  <2>1. Types /\ TRUE \in BOOLEAN /\ (~TRUE => Told(hit, request[o].logged, request[o].denied))
        BY <1>1
  <2>2. request[o].logged \subseteq hit
        BY <1>1, <1>2
  <2> QED BY <1>2, <2>1, <2>2, Finished, Zenon
<1>3. CASE Finish(o, r.hit, TRUE) /\ UNCHANGED <<target, cache>>
  <2>1. PICK n \in Request : request' = [request EXCEPT ![o] = n] /\ Over(r, n, r.hit, TRUE)
        BY <1>1, <1>2, <1>3
  <2>2. Good(n, use, live, Walsenders, Taken, cache)
        BY <1>1, <2>1 DEF Over, Good, Refused, Shown
  <2> QED BY <1>3, <2>1, <2>2, OnlyRequestMoves
<1>4. ASSUME NEW p \in r.pids \cup r.todo, p \in live, Signal(p), UNCHANGED cache,
             Finish(o, r.hit \cup {Now(p)}, TRUE)
      PROVE  KillInv'
  <2>1. p \in Pid
        BY <1>1, <1>4 DEF Request
  <2>2. r.hit \cup {Now(p)} \in SUBSET Effect
        BY <1>1, <2>1, NowType
  <2>3. PICK n \in Request : request' = [request EXCEPT ![o] = n] /\ Over(r, n, r.hit \cup {Now(p)}, TRUE)
        BY <1>2, <1>4, <2>2
  <2>4. /\ Recorded(n) /\ n.hit = r.hit \cup {Now(p)} /\ Refused(n, use, live, Walsenders)
        /\ n.stage = "done" => n.fault
        BY <2>3 DEF Over, Refused
  <2> QED BY <1>4, <2>1, <2>3, <2>4, TerminationKeeps
<1> QED BY <1>3, <1>4 DEF Fail, Killable

-----------------------------------------------------------------------------
(* The invariant holds.                                                    *)

LEMMA InitialKill == Init => KillInv
<1> SUFFICES ASSUME Init PROVE KillInv
    OBVIOUS
<1>1. PICK w \in Worker : request = [o \in Operator |-> Fresh("done", w, {}, {}, FALSE)]
      BY DEF Init
<1> DEFINE n == Fresh("done", w, {}, {}, FALSE)
<1>2. n \in Request /\ Unstarted(n) /\ n.worker = w /\ n.slots = {}
      BY DEF Fresh, Request, Stages, Unstarted
<1>3. Recorded(n)
      BY DEF Fresh, Recorded, PidsOf, Told
<1>4. Absent \in Entry
      BY DEF Absent, Entry
<1>5. Types
  <2>1. 1 \in 1..MaxUse
        BY ConstantsAssumption
  <2>2. request \in [Operator -> Request]
        BY <1>1, <1>2
  <2>3. cache \in [Worker -> [Partial -> Entry]]
        BY <1>4 DEF Init
  <2> QED BY <2>1, <2>2, <2>3 DEF Init, Types
<1>6. n.hit \subseteq Taken /\ Refused(n, use, live, Walsenders) /\ Shown(n, cache)
      BY <1>2 DEF Refused, Unstarted, Shown
<1> HIDE DEF n
<1> QED BY <1>1, <1>3, <1>5, <1>6 DEF KillInv, Good, n

\* One step per action.
LEMMA KillStep == KillInv /\ [Next]_vars => KillInv'
<1> SUFFICES ASSUME KillInv, [Next]_vars PROVE KillInv'
    OBVIOUS
<1>1. ASSUME NEW p \in Pid, Exit(p) \/ Start(p) \/ \E s \in Slot : Consume(s, p) PROVE KillInv'
      BY <1>1, ServerKeeps
<1>2. ASSUME NEW o \in Operator, NEW w \in Worker, AskKill(o, w) \/ \E s \in Slot : AskSlot(o, w, s)
      PROVE  KillInv'
      BY <1>2, AsksKeep
<1>3. ASSUME NEW o \in Operator, Step(o) PROVE KillInv'
      BY <1>3, CheckKeeps, UnreachableKeeps, AuditKeeps, CreditKeeps, InvalidateKeeps, FailKeeps,
         KillKeeps, SkipKeeps, SelectKeeps, DropKeeps DEF Step
<1>4. ASSUME NEW w \in Worker, NEW k \in Partial,
             ReadPartial(w, k) \/ StorePartial(w, k) \/ ExpirePartial(w, k)
      PROVE  KillInv'
      BY <1>4, PartialKeeps
<1>5. CASE UNCHANGED vars
  <2>1. UNCHANGED <<target, request, cache>>
        BY <1>5 DEF vars
  <2>2. Types /\ Types'
        BY <2>1 DEF KillInv, Types, target
  <2> QED BY <2>1, <2>2, SameTarget, SameCache, WaitingStay
<1> QED BY <1>1, <1>2, <1>3, <1>4, <1>5 DEF Next

LEMMA KillInvariant == Spec => []KillInv
BY InitialKill, KillStep, PTL DEF Spec

-----------------------------------------------------------------------------
(* The properties.                                                         *)

\* Tables, requests and partials keep their types; a slot is consumed by a process
\* that runs, and a selection that was gone through has a result for every PID.
THEOREM KillTypes == Spec => []TypeOK
<1>1. KillInv => TypeOK
      BY DEF KillInv, Types, Good, Recorded, PidsOf, TypeOK
<1> QED BY <1>1, KillInvariant, PTL

\* However requests overlap, die, lose a reply or repeat a PID, the entry names nothing
\* as done that the request did not do, and unless the request failed it names all that
\* it did, by the last result for each PID.
THEOREM AuditedEffects == Spec => []EffectsAudited
<1>1. KillInv => EffectsAudited
      BY DEF KillInv, Good, Recorded, Told, EffectsAudited
<1> QED BY <1>1, KillInvariant, PTL

\* An operator is credited with the incidents of sessions that this operator's
\* request terminated, however mixed the results of a selection.
THEOREM CreditsEarned == Spec => []CreditedWereKilled
<1>1. KillInv => CreditedWereKilled
      BY DEF KillInv, Good, Recorded, PidsOf, CreditedWereKilled
<1> QED BY <1>1, KillInvariant, PTL

\* On PostgreSQL a PID that was reported as not killed was missing or protected;
\* the process it named is gone, or still consumes a slot and the account had no grant.
THEOREM RefusalsTrue == ASSUME Postgres PROVE Spec => []RefusedWereMissingOrProtected
<1>1. KillInv => RefusedWereMissingOrProtected
      BY DEF KillInv, Good, Refused, RefusedWereMissingOrProtected
<1> QED BY <1>1, KillInvariant, PTL

\* A partial shows as untouched nothing that a finished action of its worker had
\* signalled or dropped, save a snapshot read before the entry was deleted and
\* stored afterwards.
THEOREM PartialsCurrent == Spec => []CacheShowsFinishedActions
<1>1. KillInv => CacheShowsFinishedActions
      BY DEF KillInv, Good, Shown, CacheKey, CacheShowsFinishedActions
<1> QED BY <1>1, KillInvariant, PTL
=================================================================================
