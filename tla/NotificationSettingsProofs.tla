----------------------- MODULE NotificationSettingsProofs -----------------------
(***************************************************************************)
(* Theorems about NotificationSettings, for any length of the week, any    *)
(* destinations and any number of loops: the weekly report goes out once a *)
(* week, and the marker is the truth.                                      *)
(***************************************************************************)
EXTENDS NotificationSettings, FiniteSetTheorems, TLAPS

-----------------------------------------------------------------------------
(* Weeks.                                                                  *)

LEMMA WeeksInOrder ==
    /\ \A t \in Int : Week(t) \in Int
    /\ \A s, t \in Int : s <= t => Week(s) <= Week(t)
<1>1. ASSUME NEW L \in Nat \ {0}, NEW s \in Int, NEW t \in Int, s <= t
      PROVE  s \div L \in Int /\ s \div L <= t \div L
  <2>1. /\ s \div L \in Int /\ L * (s \div L) <= s /\ s < L * (s \div L) + L
        /\ t \div L \in Int /\ L * (t \div L) <= t /\ t < L * (t \div L) + L
        BY <1>1
  <2>2. SUFFICES ASSUME t \div L + 1 <= s \div L PROVE FALSE
        BY <2>1
  <2>3. L * (t \div L + 1) <= L * (s \div L)
        BY <2>1, <2>2
  <2>4. L * (t \div L + 1) = L * (t \div L) + L
        BY <2>1
  <2> QED BY <1>1, <2>1, <2>3, <2>4
<1> QED BY <1>1, SlotAssumption DEF Week

-----------------------------------------------------------------------------
(* The invariant.                                                          *)

\* Every variable keeps its type.  TypeOK does not speak of the histories.
Types == TypeOK /\ sends \in [Weeks -> 0..2]

\* The record of a loop.
Run == [step : {"idle", "sending"}, now : Slot, left : 0..Destinations, delivered : BOOLEAN]

Excused == crashed \cup reverted \cup overlapped
Rows == {cfg} \cup form

\* No clock reading and no marker lies in the future.
InTime ==
    /\ \A s \in Loop : run[s].now <= time
    /\ \A x \in Rows : x.sentAt <= time

\* The marker stands for an accepted report in the row and in every copy of it.
MarkersMeanSent ==
    /\ \A x \in Rows : x.sentAt # Never => sends[Week(x.sentAt)] >= 1
    /\ \A s \in Running : run[s].delivered => sends[RunWeek(s)] >= 1

\* Nothing was sent for a week that has not come.
NoneAhead == \A w \in Weeks : w > Week(time) => sends[w] = 0

\* A run whose week is not excused is alone; it has sent the report of its week once
\* it has delivered one and not before.
RunCounted ==
    \A s \in Running : RunWeek(s) \notin Excused =>
        /\ Running = {s}
        /\ sends[RunWeek(s)] = IF run[s].delivered THEN 1 ELSE 0

\* Nothing was sent for a week after that of a run, unless the runs overlapped.
NoneAfterRun ==
    \A s \in Running, w \in Weeks \ Excused : w > RunWeek(s) => sends[w] = 0

\* A week whose report is out is over, marked, or that of a run.
OutIsKnown ==
    \A w \in Weeks \ Excused : sends[w] >= 1 =>
        /\ sends[w] = 1
        /\ \/ w < Week(time)
           \/ cfg.sentAt # Never /\ Week(cfg.sentAt) = w
           \/ \E s \in Running : RunWeek(s) = w

ReportInv ==
    Types /\ InTime /\ MarkersMeanSent /\ NoneAhead /\ RunCounted /\ NoneAfterRun /\ OutIsKnown

-----------------------------------------------------------------------------
(* Types.                                                                  *)

LEMMA InitialTypes == Init => Types
<1> SUFFICES ASSUME Init PROVE Types
    OBVIOUS
<1>1. 0 \in Slot /\ 0 \in 0..Destinations
      BY SlotAssumption DEF Slot
<1>2. cfg \in Settings /\ form \subseteq Settings
      BY DEF Init, Settings
<1>3. Cardinality(form) <= 1
      BY FS_EmptySet DEF Init
<1>4. run \in [Loop -> Run]
      BY <1>1 DEF Init, Run, Idle
<1> QED BY <1>1, <1>2, <1>3, <1>4 DEF Init, Types, TypeOK, Run

LEMMA RunTypes ==
    ASSUME Types
    PROVE  /\ run \in [Loop -> Run] /\ Idle \in Run
           /\ \A t \in Slot, n \in 0..Destinations :
                [Idle EXCEPT !.step = "sending", !.now = t, !.left = n] \in Run
<1>1. run \in [Loop -> Run]
      BY DEF Types, TypeOK, Run
<1>2. 0 \in Slot /\ 0 \in 0..Destinations
      BY SlotAssumption DEF Slot
<1>3. Idle \in Run
      BY <1>2 DEF Idle, Run
<1> QED BY <1>1, <1>2, <1>3 DEF Idle, Run

LEMMA TypesKept == Types /\ [Next]_vars => Types'
<1> SUFFICES ASSUME Types, [Next]_vars PROVE Types'
    OBVIOUS
<1> USE DEF Types, history
<1>0. run \in [Loop -> Run]
      BY RunTypes
<1>1. CASE Tick
      BY <1>1, SlotAssumption DEF Tick, TypeOK, Slot
<1>2. CASE LoadForm
  <2>1. form' = {cfg} /\ Cardinality({cfg}) = 1
        BY <1>2, FS_Singleton DEF LoadForm
  <2> QED BY <1>2, <2>1 DEF LoadForm, TypeOK
<1>3. CASE SaveForm \/ RejectForm
  <2>1. form' = {} /\ Cardinality({}) = 0
        BY <1>3, FS_EmptySet DEF SaveForm, RejectForm
  <2>2. cfg' \in Settings
        BY <1>3 DEF SaveForm, RejectForm, TypeOK, Settings, Days
  <2>3. UNCHANGED <<time, run, sends>>
        BY <1>3 DEF SaveForm, RejectForm
  <2>4. form' \subseteq Settings /\ Cardinality(form') <= 1
        BY <2>1
  <2> QED BY <2>2, <2>3, <2>4 DEF TypeOK
<1>4. ASSUME NEW s \in Loop, StartWeekly(s) PROVE Types'
  <2>1. PICK n \in 0..Destinations :
          run' = [run EXCEPT ![s] = [Idle EXCEPT !.step = "sending", !.now = time, !.left = n]]
        BY <1>4 DEF StartWeekly, Start
  <2>2. run' \in [Loop -> Run]
        BY <1>0, <2>1, RunTypes DEF TypeOK
  <2> QED BY <1>4, <2>2 DEF StartWeekly, TypeOK, Run
<1>5. ASSUME NEW s \in Loop, Post(s) PROVE Types'
  <2>1. PICK accepted \in BOOLEAN :
          /\ run' = [run EXCEPT ![s].left = @ - 1, ![s].delivered = @ \/ accepted]
          /\ sends' = IF accepted /\ ~run[s].delivered
                      THEN [sends EXCEPT ![RunWeek(s)] = IF @ < 2 THEN @ + 1 ELSE @]
                      ELSE sends
        BY <1>5 DEF Post
  <2>2. run[s] \in Run /\ run[s].left > 0
        BY <1>0, <1>5 DEF Post
  <2>3. run[s].left - 1 \in 0..Destinations
        BY <2>2, SlotAssumption DEF Run
  <2>4. run' \in [Loop -> Run]
    <3> DEFINE d == run[s].delivered \/ accepted
               r == [run[s] EXCEPT !.left = @ - 1, !.delivered = d]
    <3>1. d \in BOOLEAN
          BY <2>2 DEF Run
    <3>2. run' = [run EXCEPT ![s] = r]
          BY <2>1
    <3> HIDE DEF d
    <3>3. r \in Run
          BY <2>2, <2>3, <3>1 DEF Run
    <3> QED BY <1>0, <3>2, <3>3
  <2>5. sends' \in [Weeks -> 0..2]
    <3>1. \A n \in 0..2 : (IF n < 2 THEN n + 1 ELSE n) \in 0..2
          OBVIOUS
    <3> QED BY <2>1, <3>1
  <2> QED BY <1>5, <2>4, <2>5 DEF Post, TypeOK, Run
<1>6. ASSUME NEW s \in Loop, FinishSending(s) \/ Die(s) PROVE Types'
  <2>1. run' = [run EXCEPT ![s] = Idle]
        BY <1>6 DEF FinishSending, Die
  <2>2. run' \in [Loop -> Run]
        BY <1>0, <2>1, RunTypes
  <2>3. run[s].now \in Slot /\ cfg \in Settings
        BY <1>0 DEF Run, TypeOK
  <2>4. [cfg EXCEPT !.sentAt = run[s].now] \in Settings
        BY <2>3 DEF Settings
  <2>5. cfg' \in Settings /\ UNCHANGED <<time, form, sends>>
        BY <1>6, <2>3, <2>4 DEF FinishSending, Die
  <2> QED BY <2>2, <2>5 DEF TypeOK, Run
<1>7. CASE Cleanup
  <2>1. cfg' \in Settings
        BY <1>7 DEF Cleanup, TypeOK, Settings
  <2> QED BY <1>7, <2>1 DEF Cleanup, TypeOK
<1>8. CASE UNCHANGED vars
      BY <1>8 DEF vars, TypeOK
<1> QED BY <1>1, <1>2, <1>3, <1>4, <1>5, <1>6, <1>7, <1>8 DEF Next

-----------------------------------------------------------------------------
(* The steps.                                                              *)

LEMMA InitialReports == Init => ReportInv
<1> SUFFICES ASSUME Init PROVE ReportInv
    OBVIOUS
<1>1. \A w \in Weeks : sends[w] = 0
      BY DEF Init
<1>2. \A s \in Loop : run[s].now = 0 /\ run[s].step = "idle"
      BY DEF Init, Idle
<1>3. Running = {}
      BY <1>2 DEF Running
<1>4. \A x \in Rows : x.sentAt = Never
      BY DEF Init, Rows
<1>5. InTime
      BY <1>2, <1>4 DEF InTime, Init, Never
<1>6. MarkersMeanSent /\ NoneAhead /\ RunCounted /\ NoneAfterRun /\ OutIsKnown
      BY <1>1, <1>3, <1>4 DEF MarkersMeanSent, NoneAhead, RunCounted, NoneAfterRun, OutIsKnown
<1> QED BY <1>5, <1>6, InitialTypes DEF ReportInv

\* Weeks are numbers, and the dates of runs and rows have one.
LEMMA Dated ==
    ASSUME ReportInv
    PROVE  /\ Weeks \subseteq Int /\ Week(time) \in Weeks
           /\ run \in [Loop -> Run] /\ Running \subseteq Loop
           /\ \A s \in Loop : RunWeek(s) \in Weeks /\ RunWeek(s) <= Week(time)
           /\ \A x \in Rows : x \in Settings
           /\ \A x \in Rows : x.sentAt # Never => Week(x.sentAt) \in Weeks
<1>1. time \in Slot /\ run \in [Loop -> Run]
      BY RunTypes DEF ReportInv, Types, TypeOK
<1>2. \A x \in Rows : x \in Settings
      BY DEF ReportInv, Types, TypeOK, Rows
<1>3. \A s \in Loop : run[s].now \in Slot /\ run[s].now <= time
      BY <1>1 DEF ReportInv, InTime, Run
<1>4. Slot \subseteq Int
      BY SlotAssumption DEF Slot
<1>5. \A x \in Rows : x.sentAt # Never => x.sentAt \in Slot
      BY <1>2 DEF Settings
<1> QED BY <1>1, <1>2, <1>3, <1>4, <1>5, WeeksInOrder DEF Weeks, RunWeek, Running

\* Steps that send nothing and change neither the marker nor a run.
LEMMA ReportFrame ==
    ASSUME ReportInv, Types', UNCHANGED <<time, sends, run, overlapped>>,
           crashed \subseteq crashed', reverted \subseteq reverted',
           cfg'.sentAt = cfg.sentAt,
           \A x \in form' : \E y \in Rows : x.sentAt = y.sentAt
    PROVE  ReportInv'
<1>1. Running' = Running /\ \A s : RunWeek(s)' = RunWeek(s)
      BY DEF Running, RunWeek
<1>2. \A x \in Rows' : \E y \in Rows : x.sentAt = y.sentAt
      BY DEF Rows
<1>3. Excused \subseteq Excused'
      BY DEF Excused
<1>4. InTime'
      BY <1>2 DEF ReportInv, InTime
<1>5. MarkersMeanSent'
      BY <1>1, <1>2 DEF ReportInv, MarkersMeanSent
<1>6. NoneAhead' /\ RunCounted' /\ NoneAfterRun'
      BY <1>1, <1>3 DEF ReportInv, NoneAhead, RunCounted, NoneAfterRun
<1>7. OutIsKnown'
      BY <1>1, <1>3 DEF ReportInv, OutIsKnown
<1> QED BY <1>4, <1>5, <1>6, <1>7 DEF ReportInv

LEMMA FormKeeps ==
    ASSUME ReportInv, Types', LoadForm \/ SaveForm \/ RejectForm
    PROVE  ReportInv'
<1>1. CASE LoadForm \/ RejectForm
  <2>1. /\ UNCHANGED <<time, cfg, run, sends, crashed, reverted, overlapped>>
        /\ form' \subseteq Rows
        BY <1>1 DEF LoadForm, RejectForm, history, Rows
  <2> QED BY <2>1, ReportFrame
<1>2. CASE SaveForm
  <2>1. PICK copy \in form, enabled \in BOOLEAN, day \in Days :
          /\ cfg' = [copy EXCEPT !.enabled = enabled, !.day = day]
          /\ reverted' = IF cfg.sentAt # copy.sentAt THEN reverted \cup {Week(cfg.sentAt)} ELSE reverted
        BY <1>2 DEF SaveForm
  <2>2. copy \in Rows /\ copy \in Settings
        BY DEF Rows, ReportInv, Types, TypeOK
  <2>3. cfg'.sentAt = copy.sentAt
        BY <2>1, <2>2 DEF Settings
  <2>4. form' = {} /\ UNCHANGED <<time, run, sends, crashed, overlapped>>
        BY <1>2 DEF SaveForm
  <2>5. CASE cfg.sentAt = copy.sentAt
        BY <2>1, <2>3, <2>4, <2>5, ReportFrame
  <2>6. CASE cfg.sentAt # copy.sentAt
    <3>1. Excused' = Excused \cup {Week(cfg.sentAt)}
          BY <2>1, <2>4, <2>6 DEF Excused
    <3>2. /\ Running' = Running /\ \A s : RunWeek(s)' = RunWeek(s)
          /\ \A x \in Rows' : x.sentAt = copy.sentAt
          BY <2>3, <2>4 DEF Running, RunWeek, Rows
    <3>3. InTime'
          BY <2>2, <2>4, <3>2 DEF ReportInv, InTime
    <3>4. MarkersMeanSent'
          BY <2>2, <2>4, <3>2 DEF ReportInv, MarkersMeanSent
    <3>5. NoneAhead' /\ RunCounted' /\ NoneAfterRun'
          BY <2>4, <3>1, <3>2 DEF ReportInv, NoneAhead, RunCounted, NoneAfterRun
    <3>6. OutIsKnown'
          BY <2>4, <3>1, <3>2 DEF ReportInv, OutIsKnown
    <3> QED BY <3>3, <3>4, <3>5, <3>6 DEF ReportInv
  <2> QED BY <2>5, <2>6
<1> QED BY <1>1, <1>2

LEMMA TickKeeps == ASSUME ReportInv, Types', Tick PROVE ReportInv'
<1>1. time' = time + 1 /\ UNCHANGED <<cfg, form, run, sends, crashed, reverted, overlapped>>
      BY DEF Tick, history
<1>2. /\ Running' = Running /\ \A s : RunWeek(s)' = RunWeek(s)
      /\ Rows' = Rows /\ Excused' = Excused
      BY <1>1 DEF Running, RunWeek, Rows, Excused
<1>3. time \in Int /\ Week(time) <= Week(time') /\ Week(time) \in Int /\ Week(time') \in Int
      BY <1>1, WeeksInOrder, SlotAssumption DEF ReportInv, Types, TypeOK, Slot
<1>4. InTime'
  <2>1. \A s \in Loop : run[s].now \in Int
        BY Dated, SlotAssumption DEF Run, Slot
  <2>2. \A x \in Rows : x.sentAt \in Int
        BY Dated, SlotAssumption DEF Settings, Slot, Never
  <2> QED BY <1>1, <1>2, <1>3, <2>1, <2>2 DEF ReportInv, InTime
<1>5. MarkersMeanSent' /\ RunCounted' /\ NoneAfterRun'
      BY <1>1, <1>2 DEF ReportInv, MarkersMeanSent, RunCounted, NoneAfterRun
<1>6. NoneAhead'
      BY <1>1, <1>2, <1>3, Dated DEF ReportInv, NoneAhead
<1>7. OutIsKnown'
      BY <1>1, <1>2, <1>3, Dated DEF ReportInv, OutIsKnown
<1> QED BY <1>4, <1>5, <1>6, <1>7 DEF ReportInv

LEMMA StartKeeps ==
    ASSUME ReportInv, Types', NEW s \in Loop, StartWeekly(s) PROVE ReportInv'
<1>1. /\ s \notin Running /\ UNCHANGED <<time, cfg, form, sends, crashed, reverted>>
      /\ cfg.sentAt = Never \/ Week(cfg.sentAt) # Week(time)
      /\ overlapped' = IF Running = {} THEN overlapped
                       ELSE overlapped \cup {Week(time)} \cup {RunWeek(q) : q \in Running}
      BY DEF StartWeekly, Due, SentThisWeek, Running
<1>2. PICK n \in 0..Destinations :
        run' = [run EXCEPT ![s] = [Idle EXCEPT !.step = "sending", !.now = time, !.left = n]]
      BY DEF StartWeekly, Start
<1>3. /\ run'[s].step = "sending" /\ run'[s].now = time /\ run'[s].delivered = FALSE
      /\ \A q \in Loop : q # s => run'[q] = run[q]
      BY <1>2, Dated DEF Idle
<1>4. /\ Running' = Running \cup {s} /\ Rows' = Rows
      /\ RunWeek(s)' = Week(time) /\ \A q \in Running : RunWeek(q)' = RunWeek(q)
      BY <1>1, <1>3, Dated DEF Running, RunWeek, Rows
<1>5. Excused \subseteq Excused'
      BY <1>1 DEF Excused
<1>6. InTime'
      BY <1>1, <1>3, <1>4, SlotAssumption DEF ReportInv, InTime, Types, TypeOK, Slot
<1>7. MarkersMeanSent'
      BY <1>1, <1>3, <1>4, Dated DEF ReportInv, MarkersMeanSent
<1>8. NoneAhead'
      BY <1>1 DEF ReportInv, NoneAhead
<1>9. RunCounted'
  <2>1. CASE Running = {}
    <3>1. Week(time) \notin Excused => sends[Week(time)] = 0
      <4>1. sends[Week(time)] \in 0..2
            BY Dated DEF ReportInv, Types
      <4>2. Week(time) \notin Excused => ~(sends[Week(time)] >= 1)
            BY <1>1, <2>1, Dated DEF ReportInv, OutIsKnown
      <4> QED BY <4>1, <4>2
    <3> QED BY <1>1, <1>3, <1>4, <1>5, <2>1, <3>1 DEF RunCounted
  <2>2. CASE Running # {}
    <3>1. \A q \in Running' : RunWeek(q)' \in Excused'
          BY <1>1, <1>4, <2>2 DEF Excused
    <3> QED BY <3>1 DEF RunCounted
  <2> QED BY <2>1, <2>2
<1>10. NoneAfterRun'
      BY <1>1, <1>4, <1>5, Dated DEF ReportInv, NoneAfterRun, NoneAhead
<1>11. OutIsKnown'
      BY <1>1, <1>4, <1>5 DEF ReportInv, OutIsKnown
<1> QED BY <1>6, <1>7, <1>8, <1>9, <1>10, <1>11 DEF ReportInv

LEMMA PostKeeps ==
    ASSUME ReportInv, Types', NEW s \in Loop, Post(s) PROVE ReportInv'
<1>0. run \in [Loop -> Run] /\ run[s] \in Run /\ s \in Running
      BY Dated DEF Post, Running
<1>1. PICK accepted \in BOOLEAN :
        /\ run' = [run EXCEPT ![s].left = @ - 1, ![s].delivered = @ \/ accepted]
        /\ sends' = IF accepted /\ ~run[s].delivered
                    THEN [sends EXCEPT ![RunWeek(s)] = IF @ < 2 THEN @ + 1 ELSE @]
                    ELSE sends
      BY DEF Post
<1>2. /\ run'[s].step = run[s].step /\ run'[s].now = run[s].now
      /\ run'[s].delivered = (run[s].delivered \/ accepted)
      /\ \A q \in Loop : q # s => run'[q] = run[q]
      BY <1>0, <1>1 DEF Run
<1>3. UNCHANGED <<time, cfg, form, crashed, reverted, overlapped>>
      BY DEF Post
<1>4. /\ Running' = Running /\ Rows' = Rows /\ Excused' = Excused
      /\ \A q \in Loop : RunWeek(q)' = RunWeek(q)
      BY <1>2, <1>3 DEF Running, RunWeek, Rows, Excused
<1>5. InTime'
      BY <1>2, <1>3, <1>4 DEF ReportInv, InTime
<1>6. CASE ~(accepted /\ ~run[s].delivered)
  <2>1. sends' = sends /\ \A q \in Loop : run'[q].delivered = run[q].delivered
    <3>1. run[s].delivered \in BOOLEAN
          BY <1>0 DEF Run
    <3> QED BY <1>1, <1>2, <1>6, <3>1
  <2> QED BY <1>3, <1>4, <1>5, <2>1, Dated
          DEF ReportInv, MarkersMeanSent, NoneAhead, RunCounted, NoneAfterRun, OutIsKnown
<1>7. CASE accepted /\ ~run[s].delivered
  <2>1. /\ sends' = [sends EXCEPT ![RunWeek(s)] = IF @ < 2 THEN @ + 1 ELSE @]
        /\ sends \in [Weeks -> 0..2] /\ RunWeek(s) \in Weeks
        BY <1>1, <1>7, Dated DEF ReportInv, Types
  <2>2. /\ sends'[RunWeek(s)] = IF sends[RunWeek(s)] < 2 THEN sends[RunWeek(s)] + 1
                                                        ELSE sends[RunWeek(s)]
        /\ \A w \in Weeks : w # RunWeek(s) => sends'[w] = sends[w]
        BY <2>1
  <2>3. /\ sends'[RunWeek(s)] >= 1
        /\ \A w \in Weeks : sends[w] >= 1 => sends'[w] >= 1
        BY <2>1, <2>2
  <2>4. RunWeek(s) \notin Excused => Running = {s} /\ sends'[RunWeek(s)] = 1
        BY <1>0, <1>7, <2>2 DEF ReportInv, RunCounted
  <2>5. MarkersMeanSent'
    <3>1. \A x \in Rows : x.sentAt # Never => sends'[Week(x.sentAt)] >= 1
          BY <2>3, Dated DEF ReportInv, MarkersMeanSent
    <3>2. \A q \in Running : run'[q].delivered => sends'[RunWeek(q)] >= 1
          BY <1>2, <2>3, Dated DEF ReportInv, MarkersMeanSent
    <3> QED BY <1>4, <3>1, <3>2, Dated DEF MarkersMeanSent
  <2>6. NoneAhead'
    <3>1. \A w \in Weeks : w > Week(time) => w # RunWeek(s)
          BY Dated
    <3> QED BY <1>3, <2>2, <3>1 DEF ReportInv, NoneAhead
  <2>7. RunCounted'
    <3>1. ASSUME NEW q \in Running, RunWeek(q) \notin Excused
          PROVE  /\ Running = {q}
                 /\ sends'[RunWeek(q)] = IF run'[q].delivered THEN 1 ELSE 0
      <4>1. Running = {q} /\ q = s
            BY <1>0, <3>1 DEF ReportInv, RunCounted
      <4> QED BY <1>2, <1>7, <2>4, <3>1, <4>1
    <3> QED BY <1>4, <3>1, Dated DEF RunCounted
  <2>8. NoneAfterRun'
    <3>1. ASSUME NEW q \in Running, NEW w \in Weeks \ Excused, w > RunWeek(q)
          PROVE  sends'[w] = 0
      <4>1. sends[w] = 0
            BY <3>1 DEF ReportInv, NoneAfterRun
      <4>2. w # RunWeek(s)
            BY <2>4, <3>1, Dated
      <4> QED BY <2>2, <4>1, <4>2
    <3> QED BY <1>4, <3>1, Dated DEF NoneAfterRun
  <2>9. OutIsKnown'
    <3>1. ASSUME NEW w \in Weeks \ Excused, sends'[w] >= 1
          PROVE  /\ sends'[w] = 1
                 /\ \/ w < Week(time)
                    \/ cfg.sentAt # Never /\ Week(cfg.sentAt) = w
                    \/ \E q \in Running : RunWeek(q) = w
      <4>1. CASE w = RunWeek(s)
            BY <1>0, <2>4, <3>1, <4>1
      <4>2. CASE w # RunWeek(s)
            BY <2>2, <3>1, <4>2 DEF ReportInv, OutIsKnown
      <4> QED BY <4>1, <4>2
    <3>2. \A q \in Running : RunWeek(q)' = RunWeek(q)
          BY <1>4, Dated
    <3> QED BY <1>3, <1>4, <3>1, <3>2 DEF OutIsKnown
  <2> QED BY <1>5, <2>5, <2>6, <2>7, <2>8, <2>9 DEF ReportInv
<1> QED BY <1>6, <1>7

\* The marker is set, or the run is over without one.
LEMMA EndKeeps ==
    ASSUME ReportInv, Types', NEW s \in Loop, FinishSending(s) \/ Die(s) PROVE ReportInv'
<1>0. run \in [Loop -> Run] /\ run[s] \in Run /\ cfg \in Settings /\ s \in Running
      BY Dated DEF ReportInv, Types, TypeOK, Running, FinishSending, Die
<1>1. /\ run' = [run EXCEPT ![s] = Idle]
      /\ UNCHANGED <<time, form, sends, reverted, overlapped>>
      BY DEF FinishSending, Die, history
<1>2. /\ Running' = Running \ {s}
      /\ \A q \in Running' : q \in Running /\ RunWeek(q)' = RunWeek(q) /\ run'[q] = run[q]
      BY <1>0, <1>1, Dated DEF Running, RunWeek, Idle
<1>3. \A q \in Loop : run'[q].now <= time
  <2>1. 0 <= time
        BY SlotAssumption DEF ReportInv, Types, TypeOK, Slot
  <2> QED BY <1>0, <1>1, <2>1 DEF Idle, ReportInv, InTime
<1>4. Excused \subseteq Excused'
      BY <1>1 DEF Excused, FinishSending, Die, history
<1>5. NoneAhead' /\ RunCounted' /\ NoneAfterRun'
  <2>1. NoneAhead' /\ NoneAfterRun'
        BY <1>1, <1>2, <1>4 DEF ReportInv, NoneAhead, NoneAfterRun
  <2>2. RunCounted'
    <3>1. \A q \in Running' : RunWeek(q) \in Excused
          BY <1>0, <1>2 DEF ReportInv, RunCounted
    <3> QED BY <1>2, <1>4, <3>1 DEF RunCounted
  <2> QED BY <2>1, <2>2
<1>6. CASE FinishSending(s) /\ run[s].delivered
  <2>1. cfg' = [cfg EXCEPT !.sentAt = run[s].now] /\ Excused' = Excused
        BY <1>6 DEF FinishSending, Marked, history, Excused
  <2>2. cfg'.sentAt = run[s].now /\ Week(cfg'.sentAt) = RunWeek(s)
        BY <1>0, <2>1 DEF Settings, RunWeek
  <2>3. run[s].now # Never
        BY <1>0, SlotAssumption DEF Run, Slot, Never
  <2>4. \A x \in Rows' : x.sentAt = run[s].now \/ x \in Rows
        BY <1>1, <2>2 DEF Rows
  <2>5. InTime'
        BY <1>0, <1>1, <1>3, <2>4 DEF ReportInv, InTime
  <2>6. MarkersMeanSent'
        BY <1>0, <1>1, <1>2, <1>6, <2>4 DEF ReportInv, MarkersMeanSent, RunWeek
  <2>7. OutIsKnown'
    <3>1. SUFFICES ASSUME NEW w \in Weeks \ Excused, sends[w] >= 1
                   PROVE  sends[w] = 1 /\ (w < Week(time) \/ w = RunWeek(s))
          BY <1>1, <2>1, <2>2, <2>3 DEF OutIsKnown
    <3>2. sends[w] = 1 /\ ~(w > RunWeek(s))
          BY <1>0, <3>1 DEF ReportInv, OutIsKnown, NoneAfterRun
    <3>3. w \in Int /\ RunWeek(s) \in Int /\ Week(time) \in Int /\ RunWeek(s) <= Week(time)
          BY <3>1, Dated
    <3> QED BY <3>2, <3>3
  <2> QED BY <1>5, <2>5, <2>6, <2>7 DEF ReportInv
<1>7. CASE Die(s) \/ ~run[s].delivered
  <2>1. cfg' = cfg /\ (run[s].delivered => RunWeek(s) \in Excused')
        BY <1>7 DEF FinishSending, Die, Marked, Excused
  <2>2. Rows' = Rows
        BY <1>1, <2>1 DEF Rows
  <2>3. InTime' /\ MarkersMeanSent'
        BY <1>1, <1>2, <1>3, <2>2 DEF ReportInv, InTime, MarkersMeanSent
  <2>4. OutIsKnown'
    <3>1. SUFFICES ASSUME NEW w \in Weeks \ Excused', sends[w] >= 1
                   PROVE  /\ sends[w] = 1
                          /\ \/ w < Week(time)
                             \/ cfg.sentAt # Never /\ Week(cfg.sentAt) = w
                             \/ \E q \in Running' : RunWeek(q)' = w
          BY <1>1, <2>1 DEF OutIsKnown
    <3>2. w # RunWeek(s)
      <4>1. RunWeek(s) \notin Excused /\ ~run[s].delivered => sends[RunWeek(s)] = 0
            BY <1>0 DEF ReportInv, RunCounted
      <4> QED BY <1>4, <2>1, <3>1, <4>1
    <3> QED BY <1>2, <1>4, <3>1, <3>2 DEF ReportInv, OutIsKnown
  <2> QED BY <1>5, <2>3, <2>4 DEF ReportInv
<1> QED BY <1>6, <1>7

LEMMA ReportsStep == ReportInv /\ [Next]_vars => ReportInv'
<1> SUFFICES ASSUME ReportInv, [Next]_vars PROVE ReportInv'
    OBVIOUS
<1>0. Types'
      BY TypesKept DEF ReportInv
<1>1. CASE Cleanup
  <2>1. cfg'.sentAt = cfg.sentAt
        BY <1>1 DEF Cleanup, ReportInv, Types, TypeOK, Settings
  <2> QED BY <1>0, <1>1, <2>1, ReportFrame DEF Cleanup, history, Rows
<1>2. CASE UNCHANGED vars
      BY <1>0, <1>2, ReportFrame DEF vars, history, Rows
<1> QED BY <1>0, <1>1, <1>2, TickKeeps, FormKeeps, StartKeeps, PostKeeps, EndKeeps DEF Next

-----------------------------------------------------------------------------

\* Every variable keeps its type: the marker, the copies in forms and the clock
\* readings of runs are dates that have been.
THEOREM SettingsTypes == Spec => []TypeOK
<1>1. Types => TypeOK
      BY DEF Types
<1> QED BY <1>1, InitialTypes, TypesKept, PTL DEF Spec

\* Once a week, for any number of loops: whatever the form does to the day of the
\* report and however often deliveries fail, save a run that died before its marker,
\* a form that wrote an older marker back, and runs under way at the same time.
THEOREM WeeklyOnce == Spec => []OneReportPerWeek
<1>1. ReportInv => OneReportPerWeek
  <2> SUFFICES ASSUME ReportInv, NEW w \in Weeks \ Excused PROVE sends[w] <= 1
      BY DEF OneReportPerWeek, Excused
  <2>1. sends[w] \in 0..2 /\ (sends[w] >= 1 => sends[w] = 1)
        BY DEF ReportInv, Types, OutIsKnown
  <2> QED BY <2>1
<1> QED BY <1>1, InitialReports, ReportsStep, PTL DEF Spec

\* The marker is the truth: no failed delivery, overlapping run or older copy of the
\* row makes it claim a week whose report nobody accepted.
THEOREM MarkerIsTrue == Spec => []MarkerMeansSent
<1>1. ReportInv => MarkerMeansSent
      BY DEF ReportInv, MarkersMeanSent, Rows, MarkerMeansSent
<1> QED BY <1>1, InitialReports, ReportsStep, PTL DEF Spec
=================================================================================
