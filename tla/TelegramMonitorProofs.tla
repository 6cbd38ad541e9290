----------------------- MODULE TelegramMonitorProofs -----------------------
(***************************************************************************)
(* Theorems about TelegramMonitor, for any repeat and stall time and any   *)
(* number of changes and faults.                                           *)
(***************************************************************************)
EXTENDS TelegramMonitor, TLAPS

(* The two limits are times.                                                *)
Severities == {"none", "warning", "critical"}
AlertRow   == [severity: Severities, sent: BOOLEAN, age: Nat]
MetricsRow == [run: Nat, completed: Nat, age: Nat]
StateRow   == [alerts: [Keys -> AlertRow], metrics: MetricsRow,
               daily: {"today", "earlier"}, pending: {"none", "today", "earlier"}]
ToldRow    == [severity: Severities, age: Nat, missed: BOOLEAN]
WorldRow   == [worker: {"healthy", "stopped"}, database: BOOLEAN, run: Nat \ {0}, completed: {0, 1},
               status: {"running", "backoff", "paused", "failed"}, host: Severities,
               deploying: BOOLEAN, deployed: BOOLEAN]

MonitorTypes ==
  /\ world \in WorldRow /\ quiet \in Nat
  /\ saved \in StateRow /\ memory \in StateRow /\ readable \in BOOLEAN
  /\ issues \in [Keys -> Severities] /\ todo \subseteq Keys
  /\ pc \in {"idle", "daily", "retry", "alerts"}
  /\ told \in [Keys -> ToldRow] /\ lossy \in BOOLEAN
  /\ reports \in [today: Nat, earlier: Nat]

(* A progress baseline is not ahead of the run, and is as old as the lack of *)
(* progress at most, unless there has been progress since.                  *)
BaselineSound(m) ==
  /\ m.run <= world.run
  /\ m.run = world.run => m.completed <= world.completed
  /\ ~Progressed(m) => m.age <= quiet

StallInv ==
  /\ BaselineSound(saved.metrics) /\ BaselineSound(memory.metrics)
  /\ NoFalseStall

(* What the monitor knows: the state in the process, between two cycles the *)
(* file.                                                                    *)
Known == IF pc = "idle" THEN saved ELSE memory

(* An entry is sent as long as its chat has an alert; the two agree in the  *)
(* time of the last message, and in the severity unless one has failed.     *)
EntrySound(e, t) ==
  IF e.sent THEN /\ t.severity # "none" /\ t.age = e.age
                 /\ t.severity = e.severity \/ t.missed
  ELSE t.severity = "none"
AlertsInv == ~lossy => readable /\ \A k \in Keys : EntrySound(Known.alerts[k], told[k])

(* A report that is pending has not been delivered, nor another one for its *)
(* date.                                                                    *)
ReportsSound(s) ==
  /\ s.pending # "none" => s.daily = "earlier"
  /\ s.daily = "earlier" => reports.today = 0
  /\ s.pending = "earlier" => reports.earlier = 0
ReportsInv == ~lossy => ReportsSound(Known) /\ reports.today <= 1 /\ reports.earlier <= 1

MonitorInv == MonitorTypes /\ StallInv /\ AlertsInv /\ ReportsInv
-----------------------------------------------------------------------------
(* Types.                                                                   *)

LEMMA EmptyTypes == ASSUME MonitorAssumption PROVE Empty \in StateRow
  BY DEF MonitorAssumption, Empty, NoAlerts, NoEntry, StateRow, AlertRow, MetricsRow, Severities

LEMMA BaselineTypes ==
  ASSUME NEW m \in MetricsRow, world \in WorldRow PROVE Baseline(m) \in MetricsRow
  BY DEF Baseline, MetricsRow, WorldRow

LEMMA EvaluateTypes ==
  ASSUME NEW m, NEW corrupt, world \in WorldRow
  PROVE  Evaluate(m, corrupt) \in [Keys -> Severities]
<1>1. /\ ServiceIssue \in Severities /\ DatabaseIssue \in Severities
      /\ CollectionIssue \in Severities /\ StallIssue(m) \in Severities
      /\ HostIssue \in Severities /\ DeploymentIssue \in Severities
      /\ If(corrupt, "warning") \in Severities
  BY DEF ServiceIssue, DatabaseIssue, CollectionIssue, StallIssue, HostIssue, DeploymentIssue,
         If, Severities, WorldRow
<1> QED BY <1>1 DEF Evaluate, Keys

(* A report, sent or not, is a step of the same types.                      *)
LEMMA ReportTypes ==
  ASSUME MonitorTypes, NEW date \in {"today", "earlier"}, NEW o \in Outcomes, Report(date, o)
  PROVE  /\ memory' \in StateRow /\ lossy' \in BOOLEAN
         /\ reports' \in [today: Nat, earlier: Nat]
<1>1. memory' \in StateRow
  BY DEF MonitorTypes, Report, StateRow
<1>2. lossy' \in BOOLEAN
  BY DEF Report, Count
<1>3. [reports EXCEPT ![date] = @ + 1] \in [today: Nat, earlier: Nat]
  <2>1. CASE date = "today"
    BY <2>1 DEF MonitorTypes
  <2>2. CASE date = "earlier"
    BY <2>2 DEF MonitorTypes
  <2> QED BY <2>1, <2>2
<1> QED BY <1>1, <1>2, <1>3 DEF MonitorTypes, Report

LEMMA SayTypes ==
  ASSUME MonitorTypes, NEW k \in Keys, NEW severity \in Severities, NEW o \in Outcomes,
         Say(k, severity, o), Count(o)
  PROVE  told' \in [Keys -> ToldRow] /\ lossy' \in BOOLEAN
  BY DEF MonitorTypes, Say, Count, ToldRow

LEMMA TypesInit == ASSUME MonitorAssumption, Init PROVE MonitorTypes
<1>1. \A k \in Keys : [severity |-> "none", age |-> Repeat, missed |-> FALSE] \in ToldRow
  BY DEF MonitorAssumption, ToldRow, Severities
<1>2. world \in WorldRow /\ reports \in [today: Nat, earlier: Nat]
  BY DEF Init, WorldRow, Severities
<1>3. issues \in [Keys -> Severities]
  BY DEF Init, Severities
<1>4. told \in [Keys -> ToldRow]
  BY <1>1 DEF Init
<1> QED
  BY EmptyTypes, <1>2, <1>3, <1>4 DEF Init, MonitorTypes

LEMMA TypesNext == ASSUME MonitorAssumption, MonitorTypes, [Next]_vars PROVE MonitorTypes'
<1> USE DEF MonitorTypes
<1>1. ASSUME NEW mode \in {"health", "daily"}, StartCycle(mode) PROVE MonitorTypes'
  <2>1. Loaded \in StateRow
    BY EmptyTypes DEF Loaded
  <2>2. memory' \in StateRow
    BY <1>1, <2>1, BaselineTypes DEF StartCycle, StateRow
  <2>3. issues' \in [Keys -> Severities] /\ todo' \subseteq Keys
    BY <1>1, EvaluateTypes DEF StartCycle
  <2> QED BY <1>1, <2>2, <2>3 DEF StartCycle
<1>2. ASSUME NEW k \in Keys, Alert(k) PROVE MonitorTypes'
  <2>1. CASE Due(memory.alerts[k], issues[k])
    <3>1. PICK o \in Outcomes :
            /\ Say(k, issues[k], o) /\ Count(o)
            /\ memory' = [memory EXCEPT !.alerts[k] =
                 IF Sent(o) THEN [severity |-> issues[k], sent |-> TRUE, age |-> 0]
                 ELSE [memory.alerts[k] EXCEPT !.severity = issues[k]]]
      BY <1>2, <2>1 DEF Alert
    <3>2. issues[k] \in Severities /\ memory.alerts[k] \in AlertRow
      BY DEF StateRow
    <3>3. memory' \in StateRow
      BY <3>1, <3>2 DEF StateRow, AlertRow
    <3>4. told' \in [Keys -> ToldRow] /\ lossy' \in BOOLEAN
      BY <3>1, <3>2, SayTypes
    <3> QED BY <1>2, <3>3, <3>4 DEF Alert
  <2>2. CASE ~Due(memory.alerts[k], issues[k])
    BY <1>2, <2>2 DEF Alert
  <2> QED BY <2>1, <2>2
<1>3. ASSUME NEW k \in Keys, Recovered(k) PROVE MonitorTypes'
  <2>0. NoEntry \in AlertRow
    BY DEF NoEntry, AlertRow, Severities, MonitorAssumption
  <2>1. memory' \in StateRow
    BY <1>3, <2>0 DEF Recovered, AfterRecovery, StateRow
  <2>2. told' \in [Keys -> ToldRow] /\ lossy' \in BOOLEAN
    <3>1. CASE memory.alerts[k].sent
      <4>1. PICK o \in Outcomes : Say(k, "none", o) /\ Count(o)
        BY <1>3, <3>1 DEF Recovered
      <4> QED BY <4>1, SayTypes DEF Severities
    <3> QED BY <1>3, <3>1 DEF Recovered
  <2> QED BY <1>3, <2>1, <2>2 DEF Recovered
<1>4. ASSUME DailyReport PROVE MonitorTypes'
  BY <1>4, ReportTypes DEF DailyReport
<1>5. ASSUME RetryDaily PROVE MonitorTypes'
  <2>1. memory.pending \in {"none", "today", "earlier"}
    BY DEF StateRow
  <2> QED BY <1>5, <2>1, ReportTypes DEF RetryDaily
<1>6. ASSUME Save PROVE MonitorTypes'
  BY <1>6, EmptyTypes DEF Save
<1>7. ASSUME Period PROVE MonitorTypes'
  <2>1. \A age \in Nat, limit \in Nat : Older(age, limit) \in Nat
    BY DEF Older
  <2>2. quiet' \in Nat
    BY <1>7, <2>1 DEF Period, MonitorAssumption
  <2>3. told' \in [Keys -> ToldRow]
    BY <1>7, <2>1 DEF Period, MonitorAssumption, ToldRow
  <2>4. reports' \in [today: Nat, earlier: Nat]
    BY <1>7 DEF Period
  <2>5. saved' \in StateRow
    <3> DEFINE aged == [saved EXCEPT
           !.alerts = [k \in Keys |-> [saved.alerts[k] EXCEPT !.age = Older(@, Repeat)]],
           !.metrics.age = Older(@, Stall)]
    <3>1. [k \in Keys |-> [saved.alerts[k] EXCEPT !.age = Older(@, Repeat)]] \in [Keys -> AlertRow]
      <4>1. ASSUME NEW k \in Keys
            PROVE  [saved.alerts[k] EXCEPT !.age = Older(@, Repeat)] \in AlertRow
        <5>1. saved.alerts[k] \in AlertRow
          BY DEF StateRow
        <5>2. Older(saved.alerts[k].age, Repeat) \in Nat
          BY <2>1, <5>1 DEF MonitorAssumption, AlertRow
        <5> QED BY <5>1, <5>2 DEF AlertRow
      <4> QED BY <4>1
    <3>2. [saved.metrics EXCEPT !.age = Older(@, Stall)] \in MetricsRow
      BY <2>1 DEF MonitorAssumption, StateRow, MetricsRow
    <3>3. aged \in StateRow
      BY <3>1, <3>2, Zenon DEF StateRow
    <3>4. \/ saved' = aged
          \/ saved' = [aged EXCEPT !.daily = "earlier",
                                   !.pending = IF @ = "none" THEN @ ELSE "earlier"]
      BY <1>7 DEF Period
    <3> HIDE DEF aged
    <3> QED BY <3>3, <3>4 DEF StateRow
  <2> QED BY <1>7, <2>2, <2>3, <2>4, <2>5 DEF Period, cycleVars
<1>8. ASSUME Change PROVE MonitorTypes'
  <2>1. world' \in WorldRow
    <3>1. world' \in Worlds
      BY <1>8 DEF Change
    <3>2. /\ [world EXCEPT !.worker = IF @ = "healthy" THEN "stopped" ELSE "healthy"] \in WorldRow
          /\ [world EXCEPT !.completed = 1] \in WorldRow
      BY DEF WorldRow
    <3>3. \A b \in BOOLEAN : /\ [world EXCEPT !.database = b] \in WorldRow
                             /\ [world EXCEPT !.deploying = b] \in WorldRow
                             /\ [world EXCEPT !.deployed = b] \in WorldRow
      BY DEF WorldRow
    <3>4. \A n \in Nat \ {0} : [world EXCEPT !.run = n, !.completed = 0] \in WorldRow
      BY DEF WorldRow
    <3>5. world.run + 1 \in Nat \ {0}
      BY DEF WorldRow
    <3>6. {~world.database, ~world.deploying, ~world.deployed} \subseteq BOOLEAN
      OBVIOUS
    <3>7. \A s \in {"running", "backoff", "paused", "failed"} :
            [world EXCEPT !.status = s] \in WorldRow
      BY DEF WorldRow
    <3>8. \A s \in {"none", "warning", "critical"} : [world EXCEPT !.host = s] \in WorldRow
      BY DEF WorldRow, Severities
    <3> QED BY <3>1, <3>2, <3>3, <3>4, <3>5, <3>6, <3>7, <3>8, Zenon DEF Worlds
  <2> QED BY <1>8, <2>1 DEF Change, cycleVars
<1>9. ASSUME Killed PROVE MonitorTypes'
  BY <1>9, EmptyTypes DEF Killed
<1>10. ASSUME Corrupted PROVE MonitorTypes'
  BY <1>10 DEF Corrupted, cycleVars
<1>11. ASSUME CallDaily PROVE MonitorTypes'
  BY <1>11 DEF CallDaily, cycleVars
<1>12. ASSUME UNCHANGED vars PROVE MonitorTypes'
  BY <1>12 DEF vars, cycleVars, chatVars
<1> QED
  BY <1>1, <1>2, <1>3, <1>4, <1>5, <1>6, <1>7, <1>8, <1>9, <1>10, <1>11, <1>12
  DEF Next, CycleStep
-----------------------------------------------------------------------------
(* Stalls.                                                                  *)

LEMMA EmptySound == ASSUME MonitorTypes PROVE BaselineSound(Empty.metrics)
  BY DEF BaselineSound, Empty, Progressed, MonitorTypes, WorldRow

(* A baseline that is taken is sound, and none is older than the lack of    *)
(* progress.                                                                *)
LEMMA BaselineKeeps ==
  ASSUME MonitorTypes, NEW m \in MetricsRow, BaselineSound(m)
  PROVE  /\ BaselineSound(Baseline(m))
         /\ world.database => Baseline(m).age <= quiet
<1>1. CASE ~world.database
  BY <1>1 DEF Baseline
<1>2. CASE world.database
  <2>1. Baseline(m).age <= quiet
    BY <1>2 DEF BaselineSound, Baseline, MonitorTypes, MetricsRow
  <2>2. Baseline(m).run = world.run /\ Baseline(m).completed = world.completed
    BY <1>2 DEF Baseline
  <2> QED BY <2>1, <2>2 DEF BaselineSound, MonitorTypes, WorldRow
<1> QED BY <1>1, <1>2

LEMMA StallInit == Init => StallInv
  BY DEF Init, StallInv, BaselineSound, NoFalseStall, Progressed, Empty

LEMMA StallNext ==
  ASSUME MonitorAssumption, MonitorTypes, StallInv, [Next]_vars PROVE StallInv'
<1> USE DEF StallInv
(* Within a cycle nothing moves but what is told.                           *)
<1>1. ASSUME UNCHANGED <<world, quiet, saved, issues>>, memory'.metrics = memory.metrics, pc # "idle"
      PROVE  StallInv'
  BY <1>1 DEF BaselineSound, Progressed, NoFalseStall
<1>2. ASSUME NEW mode \in {"health", "daily"}, StartCycle(mode) PROVE StallInv'
  <2>1. Loaded \in StateRow /\ BaselineSound(Loaded.metrics)
    BY EmptyTypes, EmptySound DEF Loaded, MonitorTypes
  <2>2. /\ BaselineSound(Baseline(Loaded.metrics))
        /\ world.database => Baseline(Loaded.metrics).age <= quiet
    BY <2>1, BaselineKeeps DEF StateRow
  <2>3. memory'.metrics = Baseline(Loaded.metrics)
    BY <1>2, <2>1 DEF StartCycle, StateRow
  <2>4. UNCHANGED <<world, quiet, saved>>
    BY <1>2 DEF StartCycle
  <2>5. BaselineSound(saved.metrics)' /\ BaselineSound(memory.metrics)'
    BY <2>2, <2>3, <2>4 DEF BaselineSound, Progressed
  <2>6. issues'["stalled"] # "none" => quiet >= Stall
    <3>1. issues'["stalled"] = StallIssue(Loaded.metrics)
      BY <1>2 DEF StartCycle, Evaluate, Keys
    <3>2. Baseline(Loaded.metrics).age \in Nat /\ quiet \in Nat /\ Stall \in Nat
      BY <2>1, BaselineTypes DEF MonitorTypes, MonitorAssumption, StateRow, MetricsRow
    <3> QED BY <2>2, <3>1, <3>2 DEF StallIssue, If
  <2> QED BY <2>4, <2>5, <2>6 DEF NoFalseStall
<1>3. ASSUME NEW k \in Keys, Alert(k) PROVE StallInv'
  <2>1. memory'.metrics = memory.metrics
    BY <1>3 DEF Alert, MonitorTypes, StateRow
  <2> QED BY <1>1, <1>3, <2>1 DEF Alert
<1>4. ASSUME NEW k \in Keys, Recovered(k) PROVE StallInv'
  <2>1. memory'.metrics = memory.metrics
    BY <1>4 DEF Recovered, AfterRecovery, MonitorTypes, StateRow
  <2> QED BY <1>1, <1>4, <2>1 DEF Recovered
<1>5. ASSUME DailyReport \/ RetryDaily PROVE StallInv'
  <2>1. memory'.metrics = memory.metrics
    BY <1>5 DEF DailyReport, RetryDaily, Report, MonitorTypes, StateRow
  <2> QED BY <1>1, <1>5, <2>1 DEF DailyReport, RetryDaily
<1>6. ASSUME Save \/ Killed PROVE StallInv'
  <2>1. /\ saved' \in {saved, memory} /\ memory' = Empty /\ pc' = "idle"
        /\ UNCHANGED <<world, quiet>>
    BY <1>6 DEF Save, Killed
  <2>2. BaselineSound(Empty.metrics)' /\ BaselineSound(saved.metrics)'
    BY <2>1, EmptySound DEF BaselineSound, Progressed
  <2> QED BY <2>1, <2>2 DEF NoFalseStall, BaselineSound, Progressed
<1>7. ASSUME Period PROVE StallInv'
  <2>1. /\ saved'.metrics.age = Older(saved.metrics.age, Stall)
        /\ saved'.metrics.run = saved.metrics.run
        /\ saved'.metrics.completed = saved.metrics.completed
    <3> DEFINE aged == [saved EXCEPT
           !.alerts = [k \in Keys |-> [saved.alerts[k] EXCEPT !.age = Older(@, Repeat)]],
           !.metrics.age = Older(@, Stall)]
    <3>1. /\ aged.metrics.age = Older(saved.metrics.age, Stall)
          /\ aged.metrics.run = saved.metrics.run
          /\ aged.metrics.completed = saved.metrics.completed
          /\ aged \in [alerts: {aged.alerts}, metrics: {aged.metrics},
                       daily: {saved.daily}, pending: {saved.pending}]
      BY DEF MonitorTypes, StateRow, MetricsRow
    <3>2. \/ saved' = aged
          \/ saved' = [aged EXCEPT !.daily = "earlier",
                                   !.pending = IF @ = "none" THEN @ ELSE "earlier"]
      BY <1>7 DEF Period
    <3> HIDE DEF aged
    <3> QED BY <3>1, <3>2
  <2>2. quiet' = Older(quiet, Stall) /\ UNCHANGED <<world, memory>> /\ pc' = "idle"
    BY <1>7 DEF Period, cycleVars
  <2>3. /\ saved.metrics.age \in Nat /\ memory.metrics.age \in Nat /\ quiet \in Nat /\ Stall \in Nat
    BY DEF MonitorTypes, MonitorAssumption, StateRow, MetricsRow
  <2>4. \A a, b \in Nat : a <= b => a <= Older(b, Stall) /\ Older(a, Stall) <= Older(b, Stall)
    BY <2>3 DEF Older
  <2>5. BaselineSound(saved.metrics)'
    BY <2>1, <2>2, <2>3, <2>4 DEF BaselineSound, Progressed
  <2>6. BaselineSound(memory.metrics)'
    BY <2>2, <2>3, <2>4 DEF BaselineSound, Progressed
  <2> QED BY <2>2, <2>5, <2>6 DEF NoFalseStall
<1>8. ASSUME Change PROVE StallInv'
  <2>1. /\ UNCHANGED <<saved, memory>> /\ pc' = "idle"
        /\ quiet' = IF world'.run # world.run \/ world'.completed > world.completed
                    THEN 0 ELSE quiet
    BY <1>8 DEF Change, cycleVars
  <2>2. \/ world'.run = world.run + 1
        \/ world'.run = world.run /\ world'.completed = 1
        \/ world'.run = world.run /\ world'.completed = world.completed
    <3>1. world' \in Worlds /\ world \in WorldRow
      BY <1>8 DEF Change, MonitorTypes
    <3>2. \A w \in Worlds : \/ w.run = world.run + 1
                            \/ w.run = world.run /\ w.completed \in {1, world.completed}
      <4> DEFINE Kept(w) == w.run = world.run /\ w.completed = world.completed
      <4>1. \A v : /\ Kept([world EXCEPT !.worker = v]) /\ Kept([world EXCEPT !.database = v])
                   /\ Kept([world EXCEPT !.deploying = v]) /\ Kept([world EXCEPT !.deployed = v])
                   /\ Kept([world EXCEPT !.status = v]) /\ Kept([world EXCEPT !.host = v])
        BY <3>1 DEF WorldRow
      <4>2. [world EXCEPT !.run = world.run + 1, !.completed = 0].run = world.run + 1
        BY <3>1 DEF WorldRow
      <4>3. /\ [world EXCEPT !.completed = 1].run = world.run
            /\ [world EXCEPT !.completed = 1].completed = 1
        BY <3>1 DEF WorldRow
      <4>4. \A w \in Worlds : \/ Kept(w)
                              \/ w.run = world.run + 1
                              \/ w.run = world.run /\ w.completed = 1
        <5> HIDE DEF Kept
        <5> SUFFICES ASSUME NEW w \in Worlds
                     PROVE  \/ Kept(w)
                            \/ w.run = world.run + 1
                            \/ w.run = world.run /\ w.completed = 1
          OBVIOUS
        <5>1. \/ \E v : \/ w = [world EXCEPT !.worker = v] \/ w = [world EXCEPT !.database = v]
                        \/ w = [world EXCEPT !.deploying = v] \/ w = [world EXCEPT !.deployed = v]
                        \/ w = [world EXCEPT !.status = v] \/ w = [world EXCEPT !.host = v]
              \/ w = [world EXCEPT !.run = world.run + 1, !.completed = 0]
              \/ w = [world EXCEPT !.completed = 1]
          BY Zenon DEF Worlds
        <5>2. CASE w = [world EXCEPT !.run = world.run + 1, !.completed = 0]
          BY <4>2, <5>2, Zenon
        <5>3. CASE w = [world EXCEPT !.completed = 1]
          BY <4>3, <5>3, Zenon
        <5>4. ASSUME NEW v, \/ w = [world EXCEPT !.worker = v] \/ w = [world EXCEPT !.database = v]
                            \/ w = [world EXCEPT !.deploying = v] \/ w = [world EXCEPT !.deployed = v]
                            \/ w = [world EXCEPT !.status = v] \/ w = [world EXCEPT !.host = v]
              PROVE  Kept(w)
          BY <4>1, <5>4
        <5> QED BY <5>1, <5>2, <5>3, <5>4
      <4> QED BY <4>4
    <3> QED BY <3>1, <3>2
  <2>3. ASSUME NEW m \in MetricsRow, BaselineSound(m) PROVE BaselineSound(m)'
    <3>1. /\ world.run \in Nat /\ world.completed \in {0, 1} /\ quiet \in Nat
          /\ m.run \in Nat /\ m.completed \in Nat /\ m.age \in Nat
      BY DEF MonitorTypes, WorldRow, MetricsRow
    <3>2. CASE world'.run = world.run + 1
      BY <2>1, <2>3, <3>1, <3>2 DEF BaselineSound, Progressed
    <3>3. CASE world'.run = world.run /\ world'.completed = 1
      BY <2>1, <2>3, <3>1, <3>3 DEF BaselineSound, Progressed
    <3>4. CASE world'.run = world.run /\ world'.completed = world.completed
      BY <2>1, <2>3, <3>1, <3>4 DEF BaselineSound, Progressed
    <3> QED BY <2>2, <3>2, <3>3, <3>4
  <2> QED BY <2>1, <2>3 DEF NoFalseStall, MonitorTypes, StateRow
<1>9. ASSUME Corrupted PROVE StallInv'
  BY <1>9 DEF Corrupted, cycleVars, NoFalseStall, BaselineSound, Progressed
<1>10. ASSUME CallDaily PROVE StallInv'
  BY <1>10 DEF CallDaily, cycleVars, NoFalseStall, BaselineSound, Progressed
<1>11. ASSUME UNCHANGED vars PROVE StallInv'
  BY <1>11 DEF vars, cycleVars, chatVars, NoFalseStall, BaselineSound, Progressed
<1> QED
  BY <1>2, <1>3, <1>4, <1>5, <1>6, <1>7, <1>8, <1>9, <1>10, <1>11 DEF Next, CycleStep
-----------------------------------------------------------------------------
(* Alerts.                                                                  *)

LEMMA AlertsInit == ASSUME MonitorAssumption, Init PROVE AlertsInv
  BY DEF Init, AlertsInv, EntrySound, Known, Empty, NoAlerts, NoEntry

(* What a step writes of one key, and what it leaves of the others.         *)
LEMMA OneEntry ==
  ASSUME MonitorTypes, AlertsInv, NEW k \in Keys, pc = "alerts", pc' = pc, readable' = readable,
         NEW entry, memory' = [memory EXCEPT !.alerts[k] = entry],
         NEW chat, told' = [told EXCEPT ![k] = chat],
         lossy' = FALSE => lossy = FALSE /\ EntrySound(entry, chat)
  PROVE  AlertsInv'
<1>1. \A i \in Keys : /\ memory'.alerts[i] = IF i = k THEN entry ELSE memory.alerts[i]
                      /\ told'[i] = IF i = k THEN chat ELSE told[i]
  BY DEF MonitorTypes, StateRow
<1> QED BY <1>1 DEF AlertsInv, Known

LEMMA AlertsNext ==
  ASSUME MonitorAssumption, MonitorTypes, AlertsInv, [Next]_vars PROVE AlertsInv'
<1>1. ASSUME NEW mode \in {"health", "daily"}, StartCycle(mode) PROVE AlertsInv'
  <2>1. Known = saved /\ Known' = memory' /\ UNCHANGED <<readable, told, lossy>>
    BY <1>1 DEF StartCycle, Known
  <2>2. readable => memory'.alerts = saved.alerts
    BY <1>1 DEF StartCycle, Loaded, MonitorTypes, StateRow
  <2> QED BY <2>1, <2>2 DEF AlertsInv
<1>2. ASSUME NEW k \in Keys, Alert(k) PROVE AlertsInv'
  <2> DEFINE e == memory.alerts[k]
             t == told[k]
  <2>1. CASE Due(e, issues[k])
    <3>1. PICK o \in Outcomes :
            /\ Say(k, issues[k], o) /\ Count(o)
            /\ memory' = [memory EXCEPT !.alerts[k] =
                 IF Sent(o) THEN [severity |-> issues[k], sent |-> TRUE, age |-> 0]
                 ELSE [e EXCEPT !.severity = issues[k]]]
      BY <1>2, <2>1 DEF Alert
    <3>2. e \in AlertRow /\ t \in ToldRow /\ issues[k] # "none"
      BY <1>2 DEF Alert, MonitorTypes, StateRow
    <3>3. ~lossy => EntrySound(e, t)
      BY <1>2 DEF Alert, AlertsInv, Known
    <3>4. CASE o = "ok"
      <4>1. /\ memory' = [memory EXCEPT !.alerts[k] =
                            [severity |-> issues[k], sent |-> TRUE, age |-> 0]]
            /\ told' = [told EXCEPT ![k] = [severity |-> issues[k], age |-> 0, missed |-> FALSE]]
            /\ lossy' = lossy
        BY <3>1, <3>4 DEF Say, Count, Sent, Reaches, MonitorTypes
      <4>2. EntrySound([severity |-> issues[k], sent |-> TRUE, age |-> 0],
                       [severity |-> issues[k], age |-> 0, missed |-> FALSE])
        BY <3>2 DEF EntrySound
      <4> QED BY <1>2, <4>1, <4>2, OneEntry DEF Alert, MonitorTypes
    <3>5. CASE o = "failed"
      <4>1. /\ memory' = [memory EXCEPT !.alerts[k] = [e EXCEPT !.severity = issues[k]]]
            /\ told' = [told EXCEPT ![k] = [t EXCEPT !.missed = TRUE]]
            /\ lossy' = lossy
        BY <3>1, <3>5 DEF Say, Count, Sent, Reaches, MonitorTypes
      <4>2. ~lossy => EntrySound([e EXCEPT !.severity = issues[k]], [t EXCEPT !.missed = TRUE])
        BY <3>2, <3>3 DEF EntrySound, AlertRow, ToldRow
      <4> QED BY <1>2, <4>1, <4>2, OneEntry DEF Alert, MonitorTypes
    <3>6. CASE o = "unknown"
      BY <3>1, <3>6 DEF Count, AlertsInv
    <3> QED BY <3>4, <3>5, <3>6 DEF Outcomes
  <2>2. CASE ~Due(e, issues[k])
    BY <1>2, <2>2 DEF Alert, AlertsInv, Known
  <2> QED BY <2>1, <2>2
<1>3. ASSUME NEW k \in Keys, Recovered(k) PROVE AlertsInv'
  <2> DEFINE e == memory.alerts[k]
             t == told[k]
  <2>0. /\ e \in AlertRow /\ t \in ToldRow /\ (~lossy => EntrySound(e, t))
        /\ pc = "alerts" /\ pc' = pc /\ readable' = readable
    BY <1>3 DEF Recovered, MonitorTypes, StateRow, AlertsInv, Known
  <2>1. CASE e.sent
    <3>1. PICK o \in Outcomes : Say(k, "none", o) /\ Count(o) /\ memory' = AfterRecovery(k, o)
      BY <1>3, <2>1 DEF Recovered
    <3>2. CASE o = "ok"
      <4>1. /\ memory' = [memory EXCEPT !.alerts[k] = NoEntry]
            /\ told' = [told EXCEPT ![k] = [severity |-> "none", age |-> 0, missed |-> FALSE]]
            /\ lossy' = lossy
        BY <3>1, <3>2 DEF Say, Count, Sent, Reaches, AfterRecovery, MonitorTypes
      <4>2. EntrySound(NoEntry, [severity |-> "none", age |-> 0, missed |-> FALSE])
        BY DEF EntrySound, NoEntry
      <4> QED BY <2>0, <4>1, <4>2, OneEntry DEF MonitorTypes
    <3>3. CASE o = "failed"
      <4>1. /\ memory' = memory /\ lossy' = lossy
            /\ told' = [told EXCEPT ![k] = [t EXCEPT !.missed = TRUE]]
        BY <3>1, <3>3 DEF Say, Count, Sent, Reaches, AfterRecovery, MonitorTypes
      <4>2. memory' = [memory EXCEPT !.alerts[k] = e]
        BY <4>1 DEF MonitorTypes, StateRow
      <4>3. ~lossy => EntrySound(e, [t EXCEPT !.missed = TRUE])
        BY <2>0 DEF EntrySound, ToldRow
      <4> QED BY <2>0, <4>1, <4>2, <4>3, OneEntry, Zenon DEF MonitorTypes
    <3>4. CASE o = "unknown"
      BY <3>1, <3>4 DEF Count, AlertsInv
    <3> QED BY <3>2, <3>3, <3>4 DEF Outcomes
  <2>2. CASE ~e.sent
    <3>1. memory' = [memory EXCEPT !.alerts[k] = NoEntry] /\ UNCHANGED <<told, lossy>>
      BY <1>3, <2>2 DEF Recovered
    <3>2. told' = [told EXCEPT ![k] = t]
      BY <3>1 DEF MonitorTypes
    <3>3. ~lossy => EntrySound(NoEntry, t)
      BY <2>0, <2>2 DEF EntrySound, NoEntry
    <3> QED BY <2>0, <3>1, <3>2, <3>3, OneEntry DEF MonitorTypes
  <2> QED BY <2>1, <2>2
<1>4. ASSUME DailyReport \/ RetryDaily PROVE AlertsInv'
  <2>1. /\ memory'.alerts = memory.alerts /\ UNCHANGED <<readable, told>>
        /\ Known = memory /\ Known' = memory' /\ (lossy => lossy')
    BY <1>4 DEF DailyReport, RetryDaily, Report, Count, Known, MonitorTypes, StateRow
  <2> QED BY <2>1 DEF AlertsInv, MonitorTypes
<1>5. ASSUME Save PROVE AlertsInv'
  BY <1>5 DEF Save, AlertsInv, Known
<1>6. ASSUME Period PROVE AlertsInv'
  <2>1. /\ UNCHANGED <<readable, lossy, pc>> /\ pc = "idle"
        /\ told' = [k \in Keys |-> [told[k] EXCEPT !.age = Older(@, Repeat)]]
    BY <1>6 DEF Period, cycleVars
  <2>2. saved'.alerts = [k \in Keys |-> [saved.alerts[k] EXCEPT !.age = Older(@, Repeat)]]
    <3> DEFINE aged == [saved EXCEPT
           !.alerts = [k \in Keys |-> [saved.alerts[k] EXCEPT !.age = Older(@, Repeat)]],
           !.metrics.age = Older(@, Stall)]
    <3>1. /\ aged.alerts = [k \in Keys |-> [saved.alerts[k] EXCEPT !.age = Older(@, Repeat)]]
          /\ aged \in [alerts: {aged.alerts}, metrics: {aged.metrics},
                       daily: {saved.daily}, pending: {saved.pending}]
      BY DEF MonitorTypes, StateRow, MetricsRow
    <3>2. \/ saved' = aged
          \/ saved' = [aged EXCEPT !.daily = "earlier",
                                   !.pending = IF @ = "none" THEN @ ELSE "earlier"]
      BY <1>6 DEF Period
    <3> HIDE DEF aged
    <3> QED BY <3>1, <3>2
  <2>3. ASSUME NEW k \in Keys, EntrySound(saved.alerts[k], told[k])
        PROVE  EntrySound(saved'.alerts[k], told'[k])
    <3>1. saved.alerts[k] \in AlertRow /\ told[k] \in ToldRow
      BY DEF MonitorTypes, StateRow
    <3>2. /\ saved'.alerts[k] = [saved.alerts[k] EXCEPT !.age = Older(@, Repeat)]
          /\ told'[k] = [told[k] EXCEPT !.age = Older(@, Repeat)]
      BY <2>1, <2>2
    <3> QED BY <2>3, <3>1, <3>2 DEF EntrySound, AlertRow, ToldRow
  <2> QED BY <2>1, <2>3 DEF AlertsInv, Known
<1>7. ASSUME CallDaily \/ Change PROVE AlertsInv'
  BY <1>7 DEF CallDaily, Change, cycleVars, AlertsInv, Known
<1>8. ASSUME Killed \/ Corrupted PROVE AlertsInv'
  BY <1>8 DEF Killed, Corrupted, AlertsInv
<1>9. ASSUME UNCHANGED vars PROVE AlertsInv'
  BY <1>9 DEF vars, cycleVars, chatVars, AlertsInv, Known
<1> QED
  BY <1>1, <1>2, <1>3, <1>4, <1>5, <1>6, <1>7, <1>8, <1>9 DEF Next, CycleStep
-----------------------------------------------------------------------------
(* Reports.                                                                 *)

LEMMA ReportsInit == Init => ReportsInv
  BY DEF Init, ReportsInv, ReportsSound, Known, Empty

(* A report of a date that has had none keeps the books in order.           *)
LEMMA ReportKeeps ==
  ASSUME MonitorTypes, ReportsInv, pc # "idle", pc' # "idle",
         NEW date \in {"today", "earlier"}, NEW o \in Outcomes, Report(date, o),
         ~lossy => IF date = "today" THEN memory.daily = "earlier" ELSE memory.pending = "earlier"
  PROVE  ReportsInv'
<1>1. lossy \in BOOLEAN /\ (lossy => lossy')
  BY DEF MonitorTypes, Report, Count
<1>2. ASSUME ~lossy' PROVE ReportsSound(memory)' /\ reports'.today <= 1 /\ reports'.earlier <= 1
  <2>1. /\ ReportsSound(memory) /\ reports.today <= 1 /\ reports.earlier <= 1
        /\ reports.today \in Nat /\ reports.earlier \in Nat
    BY <1>1, <1>2 DEF ReportsInv, Known, MonitorTypes
  <2>2. o \in {"ok", "failed"}
    BY <1>1, <1>2 DEF Report, Count, Outcomes
  <2>3. CASE date = "today"
    <3>1. memory.daily = "earlier" /\ reports.today = 0
      BY <1>1, <1>2, <2>1, <2>3 DEF ReportsSound
    <3>2. CASE o = "ok"
      <4>1. /\ memory'.daily = "today" /\ memory'.pending = "none"
            /\ reports' = [reports EXCEPT !.today = @ + 1]
        BY <2>3, <3>2 DEF Report, Sent, Reaches, MonitorTypes, StateRow
      <4>2. reports'.today = 1 /\ reports'.earlier = reports.earlier
        BY <3>1, <4>1 DEF MonitorTypes
      <4> QED BY <2>1, <4>1, <4>2 DEF ReportsSound
    <3>3. CASE o = "failed"
      <4>1. memory'.daily = "earlier" /\ memory'.pending = "today" /\ reports' = reports
        BY <2>3, <3>1, <3>3 DEF Report, Sent, Reaches, MonitorTypes, StateRow
      <4> QED BY <2>1, <3>1, <4>1 DEF ReportsSound
    <3> QED BY <2>2, <3>2, <3>3
  <2>4. CASE date = "earlier"
    <3>1. /\ memory.pending = "earlier" /\ memory.daily = "earlier"
          /\ reports.today = 0 /\ reports.earlier = 0
      BY <1>1, <1>2, <2>1, <2>4 DEF ReportsSound
    <3>2. CASE o = "ok"
      <4>1. /\ memory'.daily = "earlier" /\ memory'.pending = "none"
            /\ reports' = [reports EXCEPT !.earlier = @ + 1]
        BY <2>4, <3>2 DEF Report, Sent, Reaches, MonitorTypes, StateRow
      <4>2. reports'.earlier = 1 /\ reports'.today = 0
        BY <3>1, <4>1 DEF MonitorTypes
      <4> QED BY <2>1, <4>1, <4>2 DEF ReportsSound
    <3>3. CASE o = "failed"
      <4>1. memory'.daily = "earlier" /\ memory'.pending = "earlier" /\ reports' = reports
        BY <2>4, <3>1, <3>3 DEF Report, Sent, Reaches, MonitorTypes, StateRow
      <4> QED BY <2>1, <3>1, <4>1 DEF ReportsSound
    <3> QED BY <2>2, <3>2, <3>3
  <2> QED BY <2>3, <2>4
<1> QED BY <1>2 DEF ReportsInv, Known

(* What touches no report, and at most ages the alerts and metrics.         *)
LEMMA ReportsSame ==
  ASSUME ReportsInv, UNCHANGED reports, lossy => lossy',
         ~lossy' => Known'.daily = Known.daily /\ Known'.pending = Known.pending
  PROVE  ReportsInv'
  BY DEF ReportsInv, ReportsSound

LEMMA ReportsNext ==
  ASSUME MonitorTypes, AlertsInv, ReportsInv, [Next]_vars PROVE ReportsInv'
<1>1. ASSUME NEW mode \in {"health", "daily"}, StartCycle(mode) PROVE ReportsInv'
  <2>1. /\ Known = saved /\ Known' = memory' /\ UNCHANGED <<reports, lossy>>
        /\ memory' = [Loaded EXCEPT !.metrics = Baseline(@)]
    BY <1>1 DEF StartCycle, Known
  <2>2. ~lossy => Loaded = saved
    BY DEF AlertsInv, Loaded
  <2>3. ~lossy => Known'.daily = Known.daily /\ Known'.pending = Known.pending
    BY <2>1, <2>2 DEF MonitorTypes, StateRow
  <2> QED BY <2>1, <2>3, ReportsSame
<1>2. ASSUME NEW k \in Keys, Alert(k) \/ Recovered(k) PROVE ReportsInv'
  <2>1. /\ pc = "alerts" /\ pc' = pc /\ UNCHANGED reports /\ (lossy => lossy')
        /\ memory'.daily = memory.daily /\ memory'.pending = memory.pending
    BY <1>2 DEF Alert, Recovered, AfterRecovery, Count, MonitorTypes, StateRow
  <2> QED BY <2>1, ReportsSame DEF Known
<1>3. ASSUME DailyReport PROVE ReportsInv'
  <2>1. pc # "idle" /\ pc' # "idle"
    BY <1>3 DEF DailyReport
  <2>2. CASE memory.daily = "today"
    BY <1>3, <2>1, <2>2, ReportsSame DEF DailyReport, Known
  <2>3. CASE memory.daily # "today"
    <3>1. PICK o \in Outcomes : Report("today", o)
      BY <1>3, <2>3 DEF DailyReport
    <3>2. memory.daily = "earlier"
      BY <2>3 DEF MonitorTypes, StateRow
    <3> QED BY <2>1, <3>1, <3>2, ReportKeeps
  <2> QED BY <2>2, <2>3
<1>4. ASSUME RetryDaily PROVE ReportsInv'
  <2>1. pc # "idle" /\ pc' # "idle"
    BY <1>4 DEF RetryDaily
  <2>2. CASE memory.pending = "none"
    BY <1>4, <2>1, <2>2, ReportsSame DEF RetryDaily, Known
  <2>3. CASE memory.pending # "none"
    <3>1. PICK o \in Outcomes : Report(memory.pending, o)
      BY <1>4, <2>3 DEF RetryDaily
    <3>2. memory.pending \in {"today", "earlier"}
      BY <2>3 DEF MonitorTypes, StateRow
    <3>3. ~lossy => memory.daily = "earlier"
      BY <2>1, <2>3 DEF ReportsInv, ReportsSound, Known
    <3>4. ~lossy => IF memory.pending = "today" THEN memory.daily = "earlier"
                                              ELSE memory.pending = "earlier"
      BY <3>2, <3>3
    <3> QED BY <2>1, <3>1, <3>2, <3>4, ReportKeeps
  <2> QED BY <2>2, <2>3
<1>5. ASSUME Save PROVE ReportsInv'
  BY <1>5, ReportsSame DEF Save, Known
<1>6. ASSUME Period PROVE ReportsInv'
  <2> DEFINE aged == [saved EXCEPT
           !.alerts = [k \in Keys |-> [saved.alerts[k] EXCEPT !.age = Older(@, Repeat)]],
           !.metrics.age = Older(@, Stall)]
  <2>1. /\ aged.daily = saved.daily /\ aged.pending = saved.pending
        /\ aged \in [alerts: {aged.alerts}, metrics: {aged.metrics},
                     daily: {saved.daily}, pending: {saved.pending}]
    BY DEF MonitorTypes, StateRow, MetricsRow
  <2>2. pc = "idle" /\ UNCHANGED <<pc, lossy>>
    BY <1>6 DEF Period, cycleVars
  <2>3. CASE saved' = aged /\ UNCHANGED reports
    <3> HIDE DEF aged
    <3> QED BY <2>1, <2>2, <2>3, ReportsSame DEF Known
  <2>4. CASE /\ saved' = [aged EXCEPT !.daily = "earlier",
                                      !.pending = IF @ = "none" THEN @ ELSE "earlier"]
             /\ reports' = [today |-> 0,
                  earlier |-> CASE saved.pending = "today"   -> reports.today
                                [] saved.pending = "earlier" -> reports.earlier
                                [] OTHER                     -> 0]
    <3> HIDE DEF aged
    <3>1. saved'.daily = "earlier" /\ (saved'.pending # "none" => saved.pending # "none")
      BY <2>1, <2>4
    <3>2. /\ reports'.today = 0
          /\ reports'.earlier = CASE saved.pending = "today"   -> reports.today
                                  [] saved.pending = "earlier" -> reports.earlier
                                  [] OTHER                     -> 0
      BY <2>4
    <3>3. ~lossy => ReportsSound(saved) /\ reports.today <= 1 /\ reports.earlier <= 1
      BY <2>2 DEF ReportsInv, Known
    <3>4. saved.pending \in {"none", "today", "earlier"}
      BY DEF MonitorTypes, StateRow
    <3>5. ~lossy => reports'.earlier = 0
      BY <3>2, <3>3, <3>4 DEF ReportsSound
    <3> QED BY <2>2, <3>1, <3>2, <3>5 DEF ReportsInv, ReportsSound, Known
  <2> QED
    <3> HIDE DEF aged
    <3> QED BY <1>6, <2>3, <2>4 DEF Period, aged
<1>7. ASSUME CallDaily \/ Change PROVE ReportsInv'
  BY <1>7, ReportsSame DEF CallDaily, Change, cycleVars, Known
<1>8. ASSUME Killed \/ Corrupted PROVE ReportsInv'
  BY <1>8 DEF Killed, Corrupted, ReportsInv
<1>9. ASSUME UNCHANGED vars PROVE ReportsInv'
  BY <1>9, ReportsSame DEF vars, cycleVars, chatVars, Known
<1> QED
  BY <1>1, <1>2, <1>3, <1>4, <1>5, <1>6, <1>7, <1>8, <1>9 DEF Next, CycleStep

-----------------------------------------------------------------------------
(* What is told.                                                            *)

(* A message follows from the entry it answers to, and that entry agrees    *)
(* with the chat.                                                           *)
LEMMA ToldNext ==
  ASSUME MonitorTypes, AlertsInv, NotFlooded, [Next]_vars PROVE NotFlooded'
<1>1. ASSUME message' = Silence PROVE NotFlooded'
  BY <1>1 DEF NotFlooded, Silence
<1>2. ASSUME NEW k \in Keys, Alert(k) PROVE NotFlooded'
  <2> DEFINE e == memory.alerts[k]
             t == told[k]
  <2>1. CASE Due(e, issues[k])
    <3>1. PICK o \in Outcomes : Say(k, issues[k], o) /\ Count(o)
      BY <1>2, <2>1 DEF Alert
    <3>2. issues[k] # "none" /\ e \in AlertRow /\ (~lossy => EntrySound(e, t))
      BY <1>2 DEF Alert, AlertsInv, Known, MonitorTypes, StateRow
    <3>3. CASE Reaches(o)
      <4>1. message' = [key |-> k, severity |-> issues[k], before |-> t]
        BY <3>1, <3>3 DEF Say
      <4>2. ~lossy => t.severity # issues[k] \/ t.age >= Repeat \/ t.missed
        BY <2>1, <3>2 DEF Due, EntrySound, AlertRow
      <4>3. ~lossy' => ~lossy
        BY <3>1 DEF Count, MonitorTypes
      <4> QED BY <3>2, <4>1, <4>2, <4>3 DEF NotFlooded
    <3>4. CASE ~Reaches(o)
      BY <1>1, <3>1, <3>4 DEF Say
    <3> QED BY <3>3, <3>4
  <2>2. CASE ~Due(e, issues[k])
    BY <1>1, <1>2, <2>2 DEF Alert
  <2> QED BY <2>1, <2>2
<1>3. ASSUME NEW k \in Keys, Recovered(k) PROVE NotFlooded'
  <2> DEFINE e == memory.alerts[k]
             t == told[k]
  <2>1. CASE e.sent
    <3>1. PICK o \in Outcomes : Say(k, "none", o) /\ Count(o)
      BY <1>3, <2>1 DEF Recovered
    <3>2. ~lossy => t.severity # "none"
      BY <1>3, <2>1 DEF Recovered, AlertsInv, Known, EntrySound
    <3>3. CASE Reaches(o)
      <4>1. message' = [key |-> k, severity |-> "none", before |-> t]
        BY <3>1, <3>3 DEF Say
      <4>2. ~lossy' => ~lossy
        BY <3>1 DEF Count, MonitorTypes
      <4> QED BY <3>2, <4>1, <4>2 DEF NotFlooded
    <3>4. CASE ~Reaches(o)
      BY <1>1, <3>1, <3>4 DEF Say
    <3> QED BY <3>3, <3>4
  <2>2. CASE ~e.sent
    BY <1>1, <1>3, <2>2 DEF Recovered
  <2> QED BY <2>1, <2>2
<1>4. ASSUME UNCHANGED vars PROVE NotFlooded'
  BY <1>4 DEF vars, cycleVars, chatVars, NotFlooded
<1> QED
  BY <1>1, <1>2, <1>3, <1>4
  DEF Next, CycleStep, StartCycle, DailyReport, RetryDaily, Save, Period, CallDaily, Change, Killed, Corrupted

LEMMA InitMonitor == ASSUME MonitorAssumption, Init PROVE MonitorInv /\ NotFlooded
  BY TypesInit, StallInit, AlertsInit, ReportsInit DEF MonitorInv, NotFlooded, Init

LEMMA NextKeepsMonitor ==
  ASSUME MonitorAssumption, MonitorInv, NotFlooded, [Next]_vars PROVE (MonitorInv /\ NotFlooded)'
  BY TypesNext, StallNext, AlertsNext, ReportsNext, ToldNext DEF MonitorInv

LEMMA MonitorInvariant == ASSUME MonitorAssumption PROVE Spec => [](MonitorInv /\ NotFlooded)
  BY InitMonitor, NextKeepsMonitor, PTL DEF Spec

(* Unless a state or an answer was lost, the chat is told RECOVERED only of *)
(* an alert it has been told, and the same again only after repeat_seconds  *)
(* or a failed delivery (process_alerts), whatever is said of other keys.   *)
THEOREM ChatIsSpared == ASSUME MonitorAssumption PROVE Spec => []NotFlooded
  BY MonitorInvariant, PTL

(* A run that has made progress within the stall time is never reported as  *)
(* stalled: missed cycles, a lost state and switched runs only make the     *)
(* progress baseline younger (evaluate_snapshot).                           *)
THEOREM StallsAreReal == ASSUME MonitorAssumption PROVE Spec => []NoFalseStall
<1>1. MonitorInv => NoFalseStall
  BY DEF MonitorInv, StallInv
<1> QED BY <1>1, MonitorInvariant, PTL

(* A date has one daily report, whether process_daily or a later retry      *)
(* delivers it, however often the timer and the operator start the daily    *)
(* mode on that date, also when midnight passes in between: what a report   *)
(* leaves in last_daily_date and pending_daily_date stops the next one.     *)
THEOREM OneReportADay == ASSUME MonitorAssumption PROVE Spec => []DailyOnce
<1>1. MonitorInv => DailyOnce
  BY DEF MonitorInv, ReportsInv, DailyOnce
<1> QED BY <1>1, MonitorInvariant, PTL
=============================================================================
