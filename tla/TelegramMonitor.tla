--------------------------- MODULE TelegramMonitor ---------------------------
(***************************************************************************)
(* The monitor that tells a Telegram chat what is wrong in production: a   *)
(* short process started by two timers under one lock, which evaluates a   *)
(* snapshot, sends what is due and saves its state at the end.  Sending    *)
(* may fail, or fail for the sender alone; the process may be killed before *)
(* it saves; the state file may be unreadable.  Times are ages, in timer   *)
(* periods, up to the limit they are compared with.                        *)
(***************************************************************************)
EXTENDS Integers

CONSTANTS Repeat, Stall,          (* repeat_seconds and stall_minutes, in periods *)
          MaxChanges,             (* bounds the changes of the world and commands *)
          MaxFaults

MonitorAssumption == Repeat \in Nat /\ Stall \in Nat

VARIABLES
  world,      (* what a snapshot shows                                          *)
  quiet,      (* how long the run has really made no progress                   *)
  saved,      (* state.json: alerts, metrics, last_daily_date, pending_daily    *)
  readable,   (* it can be read                                                 *)
  memory,     (* the state in the process                                       *)
  issues,     (* severity per key, as the last cycle evaluated it               *)
  todo,       (* keys of alerts it has still to look at                         *)
  pc,         (* "idle", "daily", "retry", "alerts"                             *)
  due,        (* modes to be started: their timer has elapsed, or by hand       *)
  told,       (* the chat: severity last told per key, how long ago, and        *)
              (* whether a message about the key has failed since               *)
  message,    (* what reaches the chat in this step                             *)
  reports,    (* the chat: daily reports of today, and of the pending older date *)
  lossy,      (* history: a state or an answer of Telegram was lost             *)
  changes, faults

cycleVars == <<memory, issues, todo, pc>>
chatVars  == <<told, message, reports>>
vars == <<world, quiet, saved, readable, cycleVars, due, chatVars, lossy, changes, faults>>

Keys == {"service", "database", "collection", "stalled", "host", "deployment", "state"}

NoEntry  == [severity |-> "none", sent |-> FALSE, age |-> Repeat]
NoAlerts == [k \in Keys |-> NoEntry]
Empty    == [alerts |-> NoAlerts, metrics |-> [run |-> 0, completed |-> 0, age |-> 0],
             daily |-> "earlier", pending |-> "none"]
Silence  == [key |-> "none", severity |-> "none",
             before |-> [severity |-> "none", age |-> 0, missed |-> FALSE]]

Init ==
  /\ world = [worker |-> "healthy", database |-> TRUE, run |-> 1, completed |-> 0,
              status |-> "running", host |-> "none", deploying |-> FALSE, deployed |-> TRUE]
  /\ quiet = 0 /\ saved = Empty /\ readable = TRUE
  /\ memory = Empty /\ issues = [k \in Keys |-> "none"] /\ todo = {} /\ pc = "idle"
  /\ due = {"health", "daily"}
  /\ told = [k \in Keys |-> [severity |-> "none", age |-> Repeat, missed |-> FALSE]]
  /\ message = Silence /\ reports = [today |-> 0, earlier |-> 0]
  /\ lossy = FALSE /\ changes = 0 /\ faults = 0

-----------------------------------------------------------------------------
(* evaluate_snapshot.                                                       *)

Older(age, limit) == IF age < limit THEN age + 1 ELSE age
If(condition, severity) == IF condition THEN severity ELSE "none"

(* Faulty variant: a new run is not progress.                               *)
ProgressedCount(m) == world.completed > m.completed

Progressed(m) == m.run # world.run \/ world.completed > m.completed
(* The progress baseline, kept as it is while the database is away.         *)
Baseline(m) ==
  IF ~world.database THEN m
  ELSE [run |-> world.run, completed |-> world.completed,
        age |-> IF Progressed(m) THEN 0 ELSE m.age]

ServiceIssue == If(~world.deploying /\ world.worker = "stopped", "critical")
DatabaseIssue == If(~world.database, "critical")
CollectionIssue ==
  CASE ~world.database           -> "none"
    [] world.status = "failed"   -> "critical"
    [] world.status = "paused"   -> "warning"
    [] OTHER                     -> "none"
StallIssue(m) ==
  If(/\ world.database /\ world.status = "running" /\ world.worker = "healthy"
     /\ ~world.deploying /\ Baseline(m).age >= Stall, "critical")
(* Token files, disk, memory, swap, the runner: one level for all of them.  *)
HostIssue == world.host
DeploymentIssue == If(~world.deploying /\ ~world.deployed, "critical")

Evaluate(m, corrupt) ==
  [k \in Keys |->
     CASE k = "service"    -> ServiceIssue
       [] k = "database"   -> DatabaseIssue
       [] k = "collection" -> CollectionIssue
       [] k = "stalled"    -> StallIssue(m)
       [] k = "host"       -> HostIssue
       [] k = "deployment" -> DeploymentIssue
       [] k = "state"      -> If(corrupt, "warning")]

-----------------------------------------------------------------------------
(* run_monitor: the start of a cycle.                                       *)
Loaded == IF readable THEN saved ELSE Empty

StartCycle(mode) ==
  /\ pc = "idle" /\ mode \in due
  /\ issues' = Evaluate(Loaded.metrics, ~readable)
  /\ memory' = [Loaded EXCEPT !.metrics = Baseline(@)]
  /\ todo' = {k \in Keys : issues'[k] # "none" \/ Loaded.alerts[k] # NoEntry}
  /\ pc' = IF mode = "daily" THEN "daily" ELSE "retry"
  /\ due' = due \ {mode}
  /\ message' = Silence
  /\ UNCHANGED <<world, quiet, saved, readable, told, reports, lossy, changes, faults>>

(* _deliver: what reaches the chat, and what the sender believes.           *)
Outcomes == {"ok"} \cup IF faults < MaxFaults THEN {"failed", "unknown"} ELSE {}
Reaches(outcome) == outcome # "failed"
Sent(outcome)    == outcome = "ok"
Count(outcome) ==
  /\ faults' = IF outcome = "ok" THEN faults ELSE faults + 1
  /\ lossy' = (lossy \/ outcome = "unknown")

Say(k, severity, outcome) ==
  /\ message' = IF Reaches(outcome)
                THEN [key |-> k, severity |-> severity, before |-> told[k]] ELSE Silence
  /\ told' = IF Reaches(outcome)
             THEN [told EXCEPT ![k] = [severity |-> severity, age |-> 0, missed |-> FALSE]]
             ELSE [told EXCEPT ![k].missed = TRUE]

(* Faulty variant: a message is repeated one period early.                  *)
DueEarly(entry, severity) ==
  ~entry.sent \/ entry.severity # severity \/ entry.age >= Repeat - 1

Due(entry, severity) == ~entry.sent \/ entry.severity # severity \/ entry.age >= Repeat

(* The order of a cycle: issues by severity, then the alerts that are left;  *)
(* a fixed order within those.                                              *)
FirstOf(keys) == CHOOSE k \in keys : TRUE
Turn ==
  LET active   == {k \in todo : issues[k] # "none"}
      critical == {k \in active : issues[k] = "critical"}
  IN  FirstOf(IF critical # {} THEN critical ELSE IF active # {} THEN active ELSE todo)

(* process_alerts: an issue.                                                *)
Alert(k) ==
  /\ pc = "alerts" /\ k \in todo /\ k = Turn /\ issues[k] # "none"
  /\ LET entry == memory.alerts[k] IN
     IF Due(entry, issues[k])
     THEN \E o \in Outcomes :
            /\ Say(k, issues[k], o) /\ Count(o)
            /\ memory' = [memory EXCEPT !.alerts[k] =
                 IF Sent(o) THEN [severity |-> issues[k], sent |-> TRUE, age |-> 0]
                 ELSE [entry EXCEPT !.severity = issues[k]]]
     ELSE /\ message' = Silence
          /\ UNCHANGED <<memory, told, lossy, faults>>
  /\ todo' = todo \ {k}
  /\ UNCHANGED <<world, quiet, saved, readable, issues, pc, due, reports, changes>>

(* Faulty variant: the alert is forgotten although RECOVERED was not delivered.*)
AfterRecoveryLost(k, outcome) == [memory EXCEPT !.alerts[k] = NoEntry]

AfterRecovery(k, outcome) ==
  IF Sent(outcome) THEN [memory EXCEPT !.alerts[k] = NoEntry] ELSE memory

(* process_alerts: an alert whose issue is gone, after all issues.          *)
Recovered(k) ==
  /\ pc = "alerts" /\ k \in todo /\ k = Turn /\ issues[k] = "none"
  /\ IF memory.alerts[k].sent
     THEN \E o \in Outcomes :
            /\ Say(k, "none", o) /\ Count(o)
            /\ memory' = AfterRecovery(k, o)
     ELSE /\ memory' = [memory EXCEPT !.alerts[k] = NoEntry]
          /\ message' = Silence
          /\ UNCHANGED <<told, lossy, faults>>
  /\ todo' = todo \ {k}
  /\ UNCHANGED <<world, quiet, saved, readable, issues, pc, due, reports, changes>>

(* A report of date "today" or "earlier" is sent.                           *)
Report(date, outcome) ==
  /\ reports' = IF Reaches(outcome) THEN [reports EXCEPT ![date] = @ + 1] ELSE reports
  /\ memory' = IF Sent(outcome) THEN [memory EXCEPT !.daily = date, !.pending = "none"]
               ELSE [memory EXCEPT !.pending = date]
  /\ Count(outcome)

(* Faulty variant: the date of the last report is not looked at.            *)
DailyReportAgain ==
  /\ pc = "daily"
  /\ \E o \in Outcomes : Report("today", o)
  /\ todo' = {} /\ pc' = "alerts" /\ message' = Silence
  /\ UNCHANGED <<world, quiet, saved, readable, issues, due, told, changes>>

(* process_daily; a cycle in this mode does nothing else.                   *)
DailyReport ==
  /\ pc = "daily"
  /\ IF memory.daily = "today" THEN UNCHANGED <<reports, memory, faults, lossy>>
     ELSE \E o \in Outcomes : Report("today", o)
  /\ todo' = {} /\ pc' = "alerts" /\ message' = Silence
  /\ UNCHANGED <<world, quiet, saved, readable, issues, due, told, changes>>

(* retry_pending_daily, before the alerts.                                  *)
RetryDaily ==
  /\ pc = "retry"
  /\ IF memory.pending = "none" THEN UNCHANGED <<reports, memory, faults, lossy>>
     ELSE \E o \in Outcomes : Report(memory.pending, o)
  /\ pc' = "alerts" /\ message' = Silence
  /\ UNCHANGED <<world, quiet, saved, readable, issues, todo, due, told, changes>>

(* atomic_write_json.                                                       *)
Save ==
  /\ pc = "alerts" /\ todo = {}
  /\ saved' = memory /\ memory' = Empty /\ readable' = TRUE /\ pc' = "idle"
  /\ message' = Silence
  /\ UNCHANGED <<world, quiet, issues, todo, due, told, reports, lossy, changes, faults>>

CycleStep == DailyReport \/ RetryDaily \/ Save \/ \E k \in Keys : Alert(k) \/ Recovered(k)

-----------------------------------------------------------------------------
(* The environment.                                                         *)

(* A period of the health timer, perhaps past midnight.  The daily timer    *)
(* elapses once a day, and finds the lock taken when health runs.           *)
Period ==
  /\ pc = "idle" /\ "health" \notin due
  /\ quiet' = Older(quiet, Stall)
  /\ told' = [k \in Keys |-> [told[k] EXCEPT !.age = Older(@, Repeat)]]
  /\ LET aged == [saved EXCEPT
           !.alerts = [k \in Keys |-> [saved.alerts[k] EXCEPT !.age = Older(@, Repeat)]],
           !.metrics.age = Older(@, Stall)]
     IN  \/ saved' = aged /\ due' = due \cup {"health"} /\ UNCHANGED reports
         \/ /\ saved' = [aged EXCEPT !.daily = "earlier",
                                     !.pending = IF @ = "none" THEN @ ELSE "earlier"]
            /\ reports' = [today |-> 0,
                 earlier |-> CASE saved.pending = "today"   -> reports.today
                               [] saved.pending = "earlier" -> reports.earlier
                               [] OTHER                     -> 0]
            /\ due' \in {{"health"}, {"health", "daily"}}
  /\ message' = Silence
  /\ UNCHANGED <<world, readable, cycleVars, lossy, changes, faults>>

(* telegram-monitor.py --daily by hand, again and again on the same date.   *)
CallDaily ==
  /\ pc = "idle" /\ "daily" \notin due /\ changes < MaxChanges
  /\ due' = due \cup {"daily"}
  /\ changes' = changes + 1
  /\ message' = Silence
  /\ UNCHANGED <<world, quiet, saved, readable, cycleVars, told, reports, lossy, faults>>

(* The system changes in one respect; a new run, and a completed job, are   *)
(* progress.                                                                *)
Worlds ==
  {[world EXCEPT !.worker = IF @ = "healthy" THEN "stopped" ELSE "healthy"],
   [world EXCEPT !.database = ~@], [world EXCEPT !.deploying = ~@],
   [world EXCEPT !.deployed = ~@], [world EXCEPT !.run = @ + 1, !.completed = 0],
   [world EXCEPT !.completed = 1]}
  \cup {[world EXCEPT !.status = s] : s \in {"running", "backoff", "paused", "failed"}}
  \cup {[world EXCEPT !.host = s] : s \in {"none", "warning", "critical"}}

Change ==
  /\ pc = "idle" /\ changes < MaxChanges
  /\ world' \in Worlds \ {world}
  /\ quiet' = IF world'.run # world.run \/ world'.completed > world.completed THEN 0 ELSE quiet
  /\ changes' = changes + 1
  /\ message' = Silence
  /\ UNCHANGED <<saved, readable, cycleVars, due, told, reports, lossy, faults>>

(* The process is killed before it saves.                                   *)
Killed ==
  /\ pc # "idle" /\ faults < MaxFaults
  /\ pc' = "idle" /\ memory' = Empty /\ todo' = {} /\ message' = Silence
  /\ lossy' = TRUE /\ faults' = faults + 1
  /\ UNCHANGED <<world, quiet, saved, readable, issues, due, told, reports, changes>>

Corrupted ==
  /\ pc = "idle" /\ faults < MaxFaults
  /\ readable' = FALSE /\ message' = Silence /\ lossy' = TRUE /\ faults' = faults + 1
  /\ UNCHANGED <<world, quiet, saved, cycleVars, due, told, reports, changes>>

Next ==
  \/ \E mode \in {"health", "daily"} : StartCycle(mode)
  \/ CycleStep \/ Period \/ CallDaily \/ Change \/ Killed \/ Corrupted

Spec == Init /\ [][Next]_vars

(* The health timer keeps elapsing, and a cycle is not suspended.           *)
Fairness == WF_vars(Period) /\ WF_vars(StartCycle("health")) /\ WF_vars(CycleStep)

-----------------------------------------------------------------------------
(* Properties.                                                              *)

(* Unless a state or an answer was lost, the chat is told RECOVERED only of *)
(* an alert it has been told, and the same alert again only after the repeat *)
(* time, or after the failure of a message about a change in between.       *)
NotFlooded ==
  message # Silence /\ ~lossy =>
    \/ message.severity # message.before.severity
    \/ message.severity # "none" /\ (message.before.age >= Repeat \/ message.before.missed)

(* A stall is reported only of a run that has made no progress for the      *)
(* stall time, whatever cycles were missed, runs were switched or state was *)
(* lost in between.                                                         *)
NoFalseStall == pc # "idle" /\ issues["stalled"] # "none" => quiet >= Stall

(* At most one daily report per date, however often the daily mode is       *)
(* started that day and whoever delivers it, process_daily or a later retry, *)
(* unless a state or an answer was lost.                                    *)
DailyOnce == ~lossy => reports.today <= 1 /\ reports.earlier <= 1

(* In the end the chat's view is that of the last evaluation: every issue   *)
(* told in its severity, every other one told as recovered, over failed     *)
(* deliveries of either.                                                    *)
Converged == ~lossy => \A k \in Keys : told[k].severity = issues[k]
ChatConverges == <>[]Converged
=============================================================================
