# A verification of the VK research collector

The collector fetches public VK data about approved communities: it plans a
*run* of *jobs* in PostgreSQL, and worker processes drain the jobs through the
VK API with a pool of tokens, over days, through crashes, method limits, lost
tokens and operator commands.  *Campaigns* plan one run after the other over a
snapshot of users.  Beside them work a keyword search, a resumable embedding of
posts and a Telegram monitor.  This directory models the parts of the program
that have to survive all of that, model-checks them with TLC and proves theorems
about them with TLAPS.

    tlc -workers 2 -config queue_safety.cfg MCQueue.tla
    tlapm CollectionQueueProofs.tla

## Inventory of the system

| component | state it keeps | operations | hard behaviour | modelled in |
|---|---|---|---|---|
| Collection job queue (`collection/queue.py`) | `collection_jobs` (status, attempts, next attempt, lease, error type), `collection_runs` (status, counters, wake-up) | plan, claim, batch claims, finish, defer, release, recover, refresh, pause/resume | several processes on one table; rows read before they are locked; leases that expire; parked jobs | `CollectionQueue`, `JobLedger`, `RunPlanning` |
| Worker (`collection/worker.py`) | per process: its tasks, claimed jobs as copies, a scheduler cursor; in the tables: links, members, posts and the checkpoint of each job | run loop, `_claim_next`, `_process`, one handler per job type, batches of profiles and communities | tasks interleave at every await; a batch fails half-way; lists change between pages; checkpoints after each page | `CollectionQueue`, `PageJobs`, `ProfileBatches` |
| Worker service and commands (`cli/app.py`, `collection/reporting.py`) | token fingerprints, run cursor | list runnable runs, validate, run a quantum; `collection run/pause/resume/retry-failed/repair-stale-leases/capacity-apply` | the list is old when used; two processes; SIGTERM | `CollectionQueue`, `CampaignRuns`, `SubscriptionCampaign` |
| VK token pool (`vk/tokens.py`) | per token and per (token, method): interval, cooldown, hits, disabled, in two tables | acquire, mark_success, cooldowns, disable, wake-up times | concurrent requests on one token; late answers; escalation; rounding of intervals | `TokenPool` |
| VK client (`vk/client.py`) | none | call: acquire, request, react to the error code, retry on another token | retry loops, code 6/9/29/5 | `TokenPool` |
| Subscription campaign (`collection/campaigns.py`) | `collection_campaigns` (phase, status, cursors, gate), cohorts | plan, reconcile, metadata gate, renewal, pause/resume | reconcile races the jobs it counts; crash between finish and reconcile | `CampaignRuns`, `SubscriptionCampaign`, `Campaigns` |
| User-post campaign (`collection/user_posts_campaigns.py`) | as above, one phase | plan, pilot, reconcile, pause/resume | the same | `CampaignRuns`, `UserPostCampaign`, `Campaigns` |
| Pilots (`collection/pilots.py`) | runs with a pilot scope | cancel, quarantine, supersede, finalize | cancelled while tasks run; planned twice | `CollectionQueue`, `CampaignRuns`, `RunPlanning` |
| Capacity recovery, disk guard, gates (`recovery.py`, `safety.py`, `capacity.py`, `backlog.py`) | reports | recheck, inspect, gate | woken by different timers | `CampaignRuns`, `SubscriptionCampaign` |
| Group search (`search/`) | `search_runs`, offsets per keyword, results | resume, save page, mark complete, pause | page offsets after an error, two processes | `SearchRun` |
| Embeddings (`ml/`) | chunk files, progress file, `post_embeddings` | resumable batches, flush | crash between three stores | `EmbeddingRun` |
| Telegram monitor (`monitoring/`) | state file: alerts, metrics, dates of the daily report | evaluate, alert, recover, report, retry | deliveries that fail for one side only; killed before saving | `TelegramMonitor` |
| Backup evidence, classification, config, privacy, notifications, schema, deploy scripts, notebooks | files, declarative or textual | | | see "Not modelled" |

How they interact: the service lists runs (a query), hands one to the worker,
whose tasks call the client, which takes a lease from the token pool; tasks
write through the queue; the queue's `finish` calls a campaign's `reconcile`,
which plans the next cohort as a new run.  Operators, by commands or by the
control script they dispatch, act on the same rows from other processes.  Everything shared is in PostgreSQL;
there is no message passing between processes.  The search, the embedding run
and the monitor share no table that another modelled component writes.

What makes each component correct, in short: *queue* - one owner per job, no
attempt lost or invented, results final, the run closed exactly when its jobs
are done, every run settled in the end; *token pool* - no token above its rate or
used while resting, limited methods probed rarely, honest wake-up times, every
call ends; *campaigns* - one cohort per user, no user left behind, no phase
skipped, every campaign ends; *pages* - a complete pass marks exactly what is
there, no post hidden by a shift of the list; *batches, search, embeddings* -
nothing lost, repeated or mixed up across failures and resumes; *monitor* - the
chat is told what holds, once; *planners* - work is planned once.  The hazards
behind these are listed, line by line, in `PROJECT.json`.

## Modules

| module | models |
|---|---|
| `CollectionQueue` | the queue of one run and the worker processes that drain it |
| `JobLedger` | what the queue promises, without leases, attempts, workers or errors |
| `TokenPool` | the tokens' shared tables and the calls made with them |
| `CampaignRuns` | what both campaign managers share: one campaign, its runs and jobs, the service process, the operators |
| `SubscriptionCampaign`, `UserPostCampaign` | extend it with the two managers |
| `Campaigns` | composes the two with the service, the control script and the commands; fairness and properties |
| `CampaignLifecycle` | what a campaign's phases promise; `Campaigns` implements it |
| `RunPlanning` | the planners of runs outside a campaign |
| `PageJobs` | the jobs that read a list page by page |
| `ProfileBatches` | the jobs that ask for many entities in one request |
| `SearchRun` | the search by keyword |
| `EmbeddingRun` | the resumable embedding of posts |
| `TelegramMonitor` | the monitor's timers, alerts and reports |
| `Standalone` | composes the six modules above it in this table, from `RunPlanning` on, which share no state with another modelled one: a behaviour is one of one of them |
| `MCQueue`, `MCTokenPool`, `MCCampaigns`, `MCStandalone` | instances for TLC |
| `CollectionQueueProofs`, `TokenPoolProofs`, `CampaignsProofs`, `PageJobsProofs`, `SearchRunProofs`, `EmbeddingRunProofs`, `TelegramMonitorProofs` | theorems about one component |
| `StandaloneProofs` | theorems about `Standalone`, with the proofs about `ProfileBatches` and `RunPlanning` |

A comment that begins with "Faulty variant" marks a definition that is not part
of the model: each is a plausible mistake in the definition that follows it, and
the run of its property finds it (see `mutants` in `PROJECT.json`).

### CollectionQueue

One action is one transaction, because PostgreSQL's row locks make the body of
a transaction atomic towards the others that lock the same rows.  Two of the
code's transactions read a row *before* they lock it and are split there:

* `claim` reads the run's status without a lock (`ClaimSelect`) and overwrites
  it later (`ClaimCommit`); in between it holds the job's row, so `SKIP LOCKED`
  passes over it and other statements wait (`RowFree`);
* `refresh_run` counts the jobs (`RefreshCount`) and then locks and rewrites
  the run (`RefreshRun`).

| variable | code |
|---|---|
| `status`, `attempt`, `due`, `lease`, `tokenPause` | columns of `collection_jobs`: `status`, `attempt_count`, `next_attempt_at` (null or past), `locked_at` (null, recent, older than the lease time), `last_error_type = 'tokens_unavailable'` |
| `tries` | a history variable: outcomes that `finish` wrote for the job |
| `runStatus`, `counted` | `collection_runs.status` and its three counters |
| `pc`, `snap` | where each process stands in `CollectionWorker.run`, and the counts it read |
| `phase`, `held`, `seenAttempt`, `wakesRun`, `extras` | each asyncio task: what it is doing, the `ClaimedJob` it was made for, the copied attempt, the run status it will overwrite, the rest of its batch |
| `tokensUp`, `poolUp` | a usable token is configured; the process's pool holds one |
| `disturbed` | how many disturbances have happened, for the bound |

The status `"unplanned"` stands for a row not inserted yet: `Init` is the state
after `plan` for any non-empty set of first jobs, and `Discover` adds further
ones, as the member, fast top-up and profile handlers do.

| action | code |
|---|---|
| `ListRun`, `Start`, `RejectRun`, `StartWithoutTokens` | the service's loop, `_validate_autonomous_run`, the foreground command, the entry of `run` |
| `ClaimSelect`, `ClaimCommit`, `ClaimBatch` | `_claim_next` and `claim`; the three batch claims |
| `MethodsBlocked`, `WaitForMethods` | no token may call any ready job's method |
| `DiskStop`, `QuantumReached`, `StopRequested` | the loop's three ways to stop claiming |
| `RefreshCount`, `RefreshRun` | `refresh_run`, when idle and after the loop |
| `Discover`, `FinishExtra`, `Complete`, `Skip`, `Miss` | the successful paths of a task, batches included |
| `Release`, `Forbidden`, `RetryOrFail`, `DeferMethod`, `NoTokens`, `PauseForTokens` | the `except` clauses of `_process` |
| `ResumePausedNoTokens`, `RecoverExpired` | the service between runs, and `repair-stale-leases` |
| `OperatorPause`, `OperatorResume`, `RetryFailed`, `CancelPilot` | commands |
| `BackoffElapses`, `LeaseExpires`, `TokensLost`, `TokensRestored`, `Crash` | time, tokens, the death of a process |

Abstractions: a job's type matters only as far as it is batched
(`BatchJobs`), plans further jobs (`DiscoveringJobs`) or never fails on a
transient error (`DurableJobs`); priorities and the fair order of types are
left out (any claimable job may be claimed); times are the two predicates `due`
and expired; whether a token may call a method is one flag per process plus the
nondeterministic `MethodsBlocked`; the pages a task stores are in `PageJobs`.
What a claim's availability check and its select see is one step.  Deadlocks
between transactions are not represented: PostgreSQL aborts one transaction,
which is a failed task or a `Crash` here.

### JobLedger

Jobs are taken by one party at a time, only a taken job gets a result, results
are final, jobs may be added while somebody works and the run is not closed,
and the run closes only when every known job has a result.  `CollectionQueue`
implements it (`ImplementsLedger`, mapping `known`, `result`, `taken` and
`closed` to expressions over its own variables), as long as no task outlives
its lease and no operator retries failed jobs or cancels the run.

### TokenPool

A token's row is locked by `acquire` and by every writer of an answer, so each
of those is one action; between a lease and its answer, and between two attempts
of one call, the other callers run and time passes.  Every point in time is kept
as what is left until it, in a unit of time that `Tick` takes from all of them.

| variable | code |
|---|---|
| `token`, `limit`, `gate` | `vk_token_states` (`next_request_at`, `global_blocked_until`, `disabled`), `vk_token_method_states` (`blocked_until`, `next_probe_at`, `hits`, `last_error_code`, the age of `last_error_at`), `vk_method_global_states` |
| `cursor` | each process's round-robin position |
| `phase`, `method`, `lease`, `sleep`, `retries`, `calls` | where each caller stands in `VKClient.call` |
| `sinceUse` | history: the age of the last request per token and method |

| action | code |
|---|---|
| `Begin`, `EndCall`, `Retry`, `Resend`, `AcquireAgain`, `Fail` | `VKClient.call`: its loop and its classes of errors |
| `Lease`, `Wait`, `GiveUp` | `_acquire_postgres`: a token and its reservations; none is ready yet; none will be, or all are disabled |
| `Succeed`, `AuthError`, `RateError`, `LimitError` | `mark_success`, `disable`, `global_cooldown`, `method_cooldown` with its doubling, its probe time and its escalation |
| `Tick` | the clock |

The memory-only pool is left out: every production caller has a database.

### CampaignRuns, SubscriptionCampaign, UserPostCampaign, Campaigns

One campaign of either type.  The queue of its runs is `CollectionQueue` seen
from a distance (no attempts, leases or parked jobs), with what `claim`, `finish`,
`defer_method` and `set_run_status` do to the campaign's row.  `reconcile` holds
that row's lock but not those of the jobs it counts, statement after statement,
so it is split into `ReconcileLook`, `ReconcileCount` and the decision of each
manager; writers of the campaign's row wait (`CampaignFree`).

| variable | code |
|---|---|
| `campaign`, `snapshot` | `collection_campaigns` (type, status, phase, cursors, gate), `collection_campaign_users` |
| `run`, `job` | `collection_runs` and `collection_jobs`, one job per user and per community |
| `user`, `stale` | `user_subscription_states` or the wall's state of each user: collected before, terminal, scheduled after the snapshot; communities without fresh metadata |
| `tasks`, `draining`, `claiming` | the service process: what its tasks work on, the run it drains |
| `asked`, `reading` | a reconcile is due; where it stands |
| `renewing` | the run that the control script applies a gate to |
| `room` | whether projections, disk and database leave room |

| action | code |
|---|---|
| `PlanSubscriptions`, `PlanUserPosts` | `plan` of the managers, with the first cohort or the gate |
| `ReconcileSubscriptions`, `ReconcileUserPosts`, `ReconcileCount`, `DecideSubscriptions`, `DecideUserPosts` | `reconcile`, `_plan_*_cohort`, `_prepare_metadata_gate`, `_pause_capacity` |
| `Recheck` | `reconcile_capacity_paused_campaigns` |
| `ControlDecision`, `ApplyGate`, `RenewalRejected` | `production-collection-control.sh` (`start_subscriptions`) with `control_decision` and `capacity-apply`; dispatched by hand, the scheduled workflow only reports (`production-collection-control.yml:48`, `docs/ACCEPTANCE_CRITERIA.md:32-33`) |
| `ListRun`, `Claim`, `StopClaiming`, `LeaveRun`, `DiskStop`, `Crash` | the service and the worker loop |
| `StoreSubscriptions`, `StoreWall`, `Describe`, `SubscriptionsError`, `WallError`, `CommunityError`, `Defer`, `Done` | how a task ends |
| `PauseCampaign`, `ResumeCampaign`, `Supersede`, `RoomLost`, `RoomFound` | commands, and the disk |

`CampaignLifecycle` is the abstract specification: stages follow one another,
and collecting ends only when no user of the snapshot is open.  `LifecycleKept` is its
refinement, with `stage` and `open` as expressions over the campaign.  Open are
the users the managers do not count as resolved, and all that no campaign has
collected, whatever their retries have written.  A user of an earlier campaign
who meets a transient error is the exception, see "Seen while modelling".

### PageJobs and ProfileBatches

`PageJobs` is one list of VK and the job each of two runs has for it: links of
a user, members (exhaustive and baseline top-up), wall, user wall, latest
posts.  A request with the transaction that stores its answer is one step;
between two steps the list changes, the attempt ends (`Interrupt`: error,
deferral, crash; the checkpoint stays and the memory does not) or the other run
stores its pages.  `row` is `source_run_id` and `is_current` of the stored rows, `job` the
status and checkpoint, `found` the ids `_collect_members` keeps in memory, `state`
the entity's collection state.  Three history variables say for each run whether
its job has read a page (`begun`), what the list held then (`since`) and what has
happened since (`touched`); the properties speak of jobs that met certain events only.

`ProfileBatches` is a run of `refresh_user_profile` or `refresh_group_metadata` jobs:
`TakeBatch` (claim and batch claim), `StoreAnswer`, then `FinishExtra` one by one and
`FinishOwn`; `RequestFails`, `FinishFails` and `Crash` cut that anywhere, and `Recover` is
the lease recovery.

### SearchRun, EmbeddingRun, RunPlanning

`SearchRun`: `StartSelect` and `StartCommit` are the two halves of
`start_or_resume_run` (`SKIP LOCKED` in between), `SavePage` the transaction of
results and offset, `KeywordError`, `TokensUnavailable`, `CompleteKeyword` and
`CompleteRun` the ends, `Die` a process that stops.

`EmbeddingRun`: the chunk file, the progress file and the table are three
variables, written by three steps (`EncodeBatch`, `BatchIds`, `Flush`); a batch that
fails is encoded one by one; the buffer pairs vectors and posts by position, as
`save_post_embeddings_batch` does.  A chunk file that cannot be read is not
modelled.

`RunPlanning`: `Read` and `Refused` (what a command computes before it locks), `Look`
(the advisory lock and the search for an existing run), `Insert`.  Workers and
operators move the runs on (`Advance`, `Park`, `Conclude`, external), and data
ages (`Age`).

### TelegramMonitor

A cycle is `StartCycle` (load the state, evaluate the snapshot), `DailyReport` or
`RetryDaily`, one `Alert` or `Recovered` per key, `Save`.  A delivery reaches the chat and is
acknowledged, does neither, or only the first; the process may be killed before
it saves, and the state file may become unreadable.  The daily report falls due by
its timer, once a date (`Period`), and by hand as often as the operator calls
`--daily` (`CallDaily`, `docs/TELEGRAM_MONITORING.md:124`): what keeps a date from a
second report is `process_daily` alone (`telegram_monitor.py:1492`).  `world` is what a snapshot
shows, `quiet` how long the run has really made no progress; `told` and `reports` are
the chat; `told` also remembers that a message about the key has failed since
(`missed`), because the entry then follows a severity the chat has not heard of.

## Runs

| run | instance | shows |
|---|---|---|
| `queue_safety` | service process with two tasks, foreground process with one, two jobs, all batched and discovering, two attempts, two disturbances of nine kinds | `SingleOwner`, `AttemptAccounting`, `NoEarlyFailure`, `RunDoneSound`, `CountersNeverAhead`, `ImplementsLedger` |
| `queue_operators` | one process with two tasks; errors, overrunning tasks, pause, cancel, retry-failed | `TypeOK`, `RunningIffLeased`, `OnlyTasksReopen` |
| `queue_liveness` | both processes, one task each; errors, method limits, crashes | `RunSettles` |
| `token_pool` | two tokens, two methods (one paced), two callers in two processes | `TypeOK`, `WakeupsHonest`, `RatesKept`, `ProbesSpaced`, `CallsEnd` |
| `campaigns` | either type of campaign, three users, three communities, two disturbances of eight kinds | `TypeOK`, `NoUserLeftBehind`, `CompletedIsComplete`, `PlannedOnce`, `PausedPlansNothing`, `LifecycleKept`, `CampaignSettles`, `GateOpens` |
| `standalone` | the six components of `Standalone`, a small instance of each | pages: `LinksExact`, `LinksKept`, `SampleOfAll`, `PostsKept`; batches: `FinishedJobsAreDone`, `BatchesDisjoint`; search: `NothingSkipped`, `CompletedRunIsThrough`, `ResumedNotRestarted`; embeddings: `VectorsBelong`, `RowsMatchPosts`, `CompletedHasChunk`; planners: `NotPlannedTwice`; monitor: `NotFlooded`, `NoFalseStall`, `DailyOnce`, `ChatConverges` |
| `queue_overrun` | both processes; one task overruns its lease | `ResultsFinal` is violated |
| `queue_pause` | one process and an operator | `PauseHolds` is violated |
| `queue_verdict` | both processes, one attempt | `VerdictSound` is violated |
| `queue_parked` | one process with two tasks, tokens lost, a method limit | `ParkedRunIsPaused` is violated |
| `campaign_parked` | one disk stop | `ParkedCampaignResumes` is violated |
| `members_resume` | as `standalone` | `SampleAlwaysComplete` is violated |

A behaviour of `standalone` is one of a single component, chosen at the start:
the state spaces add and do not multiply.

Bounds.

* Queue.  Two jobs are the least with which a batch, a discovered job and an
  unfinished neighbour exist; three slots over two processes give two tasks of
  one process and one of another, so every pair of actors of the code occurs;
  two attempts separate "first" from "last".  `MaxDisturbances` bounds faults and
  commands together, since each of the known failures needs at most two;
  nothing else is bounded.  Symmetry over jobs and over the two slots of one
  process is used only in runs without liveness.
* Token pool.  One unit is the shortest interval, and the longer times differ
  from each other, so that each can be the one that binds.  Two calls and two
  answers other than success (`MaxCalls`, `MaxFaults`) let each process meet the
  traces of the other's limit, an escalation needs two methods, and a cooldown is
  doubled to its cap.  Ages are counted up to `LongAgo`, beyond every window.
* Campaigns.  Three users in cohorts of two give a full cohort, a second one
  and a user collected before; three communities with a shared one give the
  same for metadata.
* Pages.  Lists of three and four items against pages of two and a maximum of
  three: a list that ends within a page, one that is cut by the maximum, and
  after an item appeared one that is longer than it.  Three disturbances are a
  change, a short page and an interruption in one job.
* Batches: three entities in batches of two leave one for the other task.
  Search: totals of three and zero with pages of two, two processes, two runs.
  Embeddings: five posts in batches of two, flushed every three.  Monitor:
  the repeat and the stall time are two periods, so one period is too early, and
  two changes of the system or daily reports asked for by hand (`MaxChanges`).
  Plans: two commands at once, two runs, so that one may be closed or open when
  the next is planned.

`CHECK_DEADLOCK FALSE` is said where the system really stops: the run or campaign
closed, or paused with nobody to resume it.

Fairness.  `queue_liveness`: a process inside `run` goes on; the service lists a
runnable run again and again and is restarted when it dies (the compose file
says `restart: unless-stopped`); backoffs elapse, leases expire, and an unusable
token file is eventually replaced (an assumption about operators).  Nothing is
assumed of foreground processes or of any command.  Each fairness is weak: the
actions stay enabled until taken.  `RunSettles` does not include loss of tokens:
the finding below shows why it could not.

`token_pool`: time passes, and a caller's task goes on.  `campaigns`: a due
reconcile is carried out, the recheck is a timer, a control script that has
decided goes on to its end (its exit trap restarts the service), the
service lists runs and its tasks end; `Claim` is strongly fair because a retry
falls due again and again while the process goes round its runs; and `RoomFound`
is an assumption about operators (space is made).  Nothing makes the operator
dispatch the control script.  `CampaignSettles` is asserted
of campaigns that meet only what the documents call a delay, transient errors
and a lack of room (`Delays`), and ends at the pending gate of the metadata phase,
which waits for the operator.  `GateOpens` goes on from there, under a premise of its
own, `OperatorReturns`: while the script would act, it is dispatched again some time.  `standalone`: the timers of the monitor fire and a
started cycle goes on; faults and changes are finitely many.

## Findings

* **A completed job goes back to work** (`queue_overrun`).  `locked_at` is
  stamped by `claim` only; the page loops move `heartbeat_at`.  A task longer than
  the lease time is recovered, the job completed by another task, and the
  first task's `defer_method` writes `retry_wait` over it without looking.
* **A paused run wakes up** (`queue_pause`).  `set_run_status(PAUSED)` parks
  only pending jobs; a `retry_wait` job is still claimed by a worker already
  inside `run`, and `claim` sets the paused run running.
* **A failed job is forgotten** (`queue_verdict`).  `refresh_run` writes counts
  read before it locked the run; a failure in between is erased and the last
  `finish` reports `completed`.
* **A parked job is stranded** (`queue_parked`).  After one task paused the run
  for lack of tokens, another one's `defer_method` overwrites the status;
  `resume_paused_no_tokens` then does not find the parked job.
* **A parked user-post campaign never continues** (`campaign_parked`).  The
  recheck wakes the campaign when there is room, and finds the pending jobs of a
  run that stays in `paused_capacity_limit`, which nothing lists or renews.
  (A parked subscription campaign is stuck in the same way, although the control
  script could renew its run: once the recheck has set the campaign running, the
  script returns at `production-collection-control.sh:350`.)
* **An interrupted members job keeps half a sample** (`members_resume`).  It
  resumes at the checkpoint's page with an empty set of ids, samples the rest
  of the members and retires the others, as "complete".

Seen while modelling, kept in the model as the code has it, without a run:

* campaigns: a job that meets a transient error between `reconcile`'s two counts
  is in neither and fails the campaign (`campaigns.py:1008`;
  `docs/PHASED_SUBSCRIPTION_IMPLEMENTATION.md:90`); after a transient error a user
  collected by an earlier campaign counts as resolved (`worker.py:431`), so that
  discovery ends while the retry waits, where the same document, lines 81-83,
  says a transient error blocks the transition (the exception in `Open`: with
  these users in it TLC finds `LifecycleKept` violated); a campaign paused
  and resumed at its pending gate is running, and then neither the recheck nor the
  control script (`production-collection-control.sh:350`) moves it on; a crash between the last `finish` and its reconcile
  leaves a campaign without its next phase (`queue.py:1279`), and the restarted
  service reconciles only campaigns with a runnable run; superseding a campaign
  gives up the users whose jobs were at work (the exception in
  `NoUserLeftBehind`); an operator's pause is
  lost when the pending metadata gate is applied (`docs/STAGE2_OPERATIONS.md:128`);
  parking a run or deferring a job wakes a failed or superseded campaign
  (`Revived` in `CampaignLifecycle`);
* token pool: a success that was sent before a limit clears it; a method's
  cooldown may end earlier than the one it replaces;
* pages: jobs of two runs that overlap on one user retire each other's links
  (hence `Alone` in the properties); a post deleted between two pages hides the
  next one (hence "removed");
* embeddings: a crash between a chunk and its ids repeats rows on resume
  (`torn`); a flush that fails, or that finds fewer vectors than posts, is
  dropped, and those posts never reach the table;
* search: a second process started while the run's row is locked opens a second
  run (`overlapped`), and two processes on one run overwrite each other's status;
* planners: the full, the subscriptions and the posts planner take no lock, so
  two commands at once plan twice (`overlapped`); light repair and the pilot pass
  over runs in some paused statuses (`overlooked`;
  `docs/PHASED_SUBSCRIPTION_IMPLEMENTATION.md:124`);
* monitor: an escalation that was not delivered waits for the repeat time
  (`docs/TELEGRAM_MONITORING.md:25`); while the database cannot be read, alerts
  about the collection are reported as recovered.

## Proofs

TLC's instances are small; the theorems hold for every value of the constants
under the assumption of the module (`QueueAssumption`, `PoolAssumption`,
`StandaloneAssumption`) or the one a theorem states.  All of them are safety; each is
an inductive invariant, shown step by step over the disjuncts of `Next`.

**`CollectionQueueProofs`**, for any finite set of jobs, any processes, slots and
disturbances.

* `TypeCorrect`: `TypeOK` is inductive as it stands, because it says that only an
  idle slot may hold no job.
* `EveryRunningJobIsLeased`: inductive relative to `TypeOK`.  It makes crash
  recovery complete: a job whose task is gone always carries the `locked_at` that
  `recover_expired` compares.
* `OneOwner`: if `"overrun" \notin Disturbances`, `Spec => []SingleOwner`.
  `SingleOwner` alone is not inductive: that nobody else works on the row a
  claim selects must follow from the row.  `OwnerInv` says so: a job that a
  working slot owns is `running` (or was cancelled under it) with a lease that is
  not expired, so neither `claim` nor `recover_expired` takes it; a row under
  claim is still claimable, because every other writer waits for its lock; and
  only a slot inside a call has a batch.  Each operation is shown once to respect
  all jobs but its own (`Respects`).

The same module goes on to the results, under `Calm`: no task outlives its lease,
and no operator cancels the run or retries its failed jobs.  `queue_overrun` shows that the first is needed;
the other two commands are meant to take results back.

* The argument is a refinement.  Every step has one of six effects on the rows:
  it parks or resumes jobs (or leaves them alone), takes some, returns some,
  settles one, adds some, or recounts the run.  `Effects` finds it action by action, under `BaseInv`: `TypeOK`,
  `OwnerInv`, no job cancelled, and `SeenInv` (a working task's copy of the
  attempt is the row's, because nobody else can touch the row).  Everything
  else is shown of effects and not of actions.
* `AttemptsAreExact`, `FailuresAreEarned`, `ResultsStay` follow from the effects
  directly.
* `DoneRunsAreDone` and `CountersAreSound` need `SnapInv`: what `refresh_run` counted
  before it locked the run may be out of date, but only in jobs that were active
  then, because results are final and jobs are added only while one works.
* `QueueImplementsLedger`: each effect is a step of `JobLedger` or a stutter.
* `OnlyItsTaskReopens` needs no assumption about disturbances: `LockInv` (a row
  between the two halves of `claim` is still waiting and is held by one slot)
  and what each step may do to a row (`Permitted`).

**`TokenPoolProofs`**

* `PoolTypes`; `IntervalsHold` and `ProbesAreRare` from `RateInv`: what a row still asks
  to wait and what has passed since the last request add up to the interval
  (`SlotKept`), to the pool's pace (`GateKept`), to the probe time (`ProbeKept`).  The
  sums are what a clock leaves alone; the properties, about the moment of
  sending, are not inductive without them.
* `WakeupsAreHonest`: acquire, the availability check and the wake-up time are
  three functions of the same tables; they agree in every state of right types.

**`CampaignsProofs`**, for any number of users, communities and runs,
any subscriptions, cohort size and disturbances.  `IInv` is the inductive
invariant, in three parts; TLC checked each of them on the `campaigns` instance,
with two and with three disturbances, before it was proved.

* `Structure`: the rows have their types, a job has a run of its campaign
  (`JobTypes`), the phase is one of the campaign's type, and the cursors have
  passed every job (`JobsBehindCursors`).  A metadata run has the jobs of communities
  and the others those of users (`RunsOfScope`); one run at most waits without
  jobs, and only while its gate is not passed and the metadata cursor stands at the
  start (`OneWaits`): that is why opening the gate plans nothing twice.  A reconcile
  that has begun holds a campaign that is planned or running (`ReadingRuns`).
* `Resolution`: what is stored resolves its user, an answer there is was stored by
  this campaign or by an earlier one, what is done is stored, only
  superseding cancels a job, every unresolved user behind the cursor has a job, a
  user job of a wall campaign leaves its user due until the wall is stored, and
  after discovery every user is resolved (`PhaseIsOver`).
* `CleanInv`: what holds as long as no job failed or was put off: no user is
  in between, and each due community behind the metadata cursor has a job at
  work.  `CompletedIsComplete` needs it for communities only, as the property says.

Every step either plans nothing (`Quiet`: each row may change, in what `CampaignStep`,
`RunStep`, `JobStep` and `UserStep` allow) or is one of three ways to plan a
cohort: `UserCohort`, `CommunityCohort`, or none because the source is exhausted
(`NoCohort`).  `StepKinds` finds the kind action by action, and each part of the
invariant is shown of kinds.  `FirstOfFacts` is what the kinds need of a cohort: it
takes the ids in order, so the new cursor has passed exactly the planned ones.
From `IInv`: `TypesStay`, `NobodyLeftBehind`, `CompletedStaysComplete`, and of the
steps `PlansAreNew`, `PauseHolds`, and `RefinesLifecycle`, the refinement of
`CampaignLifecycle` (`stage` and `open` are expressions over the campaign, and each
step moves them as a step of the life cycle or not at all; `OpenIsUnresolved`, from
`Resolution`: whoever no campaign has collected never counts as resolved).

**`StandaloneProofs`** proves of `Standalone`, whose specification the run
`standalone` checks, all its invariants but one and its action property
`LinksKept`.  Its constants are those of the six components, and
`StandaloneAssumption` is what four of them assume: pages and search pages are not
empty and totals are numbers; 0, which stands for "no job", is no entity; the
monitor's limits are numbers; VK's lists hold numbered items, and a user's wall
has each post once, newest first but for a pinned post at its top.

A behaviour of `Standalone` is one of a single component (`part`).  `PagesHold`,
`SearchHold`, `EmbeddingsHold` and `MonitorHold` say that the inductive invariant of the
component holds in its own behaviours; `PagesStay` and the others show it with
the lemmas of the component's proof module, instantiated like the component
itself.  The instance of a component and the instance of its proofs define the
same formulas twice; `SamePages` and the others say so.

* `PageJobsProofs`, for any lists, runs, sizes and number of disturbances.
  `PagesInv` has a part for each kind of list.  `LinksInv`: of a job whose list
  nobody else touched, the first `offset` items are its rows, nothing else is, and
  once it has read a whole list every row of another run is retired; an
  interruption leaves this as it is, since the offset is saved with the rows.  From it
  `LinksAreRight` and, of the steps, `LinksAreNotRetired`.  `MembersInv`: the memory of a
  job that met no event is the list up to its offset, and its rows are in the sample
  of the list: `SamplesAreComplete`.  `PostsInv` (with `WallInOrder`): a post that was there
  when the job began only moves down, so what is visible up to the offset is
  stored; the kept count is the number of visible places up to it, so a job
  that stops at its maximum, or at the first old post, has passed all of the
  newest posts: `PostsAreStored`.  Counting places of a list that shifts is the work
  of this proof (`CountMoved`, `CountKept`, `PostsMoved`).
* `SearchRunProofs`: `NoPageLost` and `CompletionIsThorough` from `SearchInv` (a process's
  offset lies within what is stored, and the keywords behind it are through);
  `OneRunIsOpen` from `OneOpen`: as long as processes did not overlap, one is at work
  at most, and no run is open but the one it drives.
* `EmbeddingRunProofs`: `NoForeignVector` from `BufferInv`: vectors and posts of the buffer
  have the same length only if they are the same posts, because a batch
  encoded one by one has an ordered part of its vectors.  `NoVectorLost` from
  `FileInv`: the process has in memory what the files hold, so its next file
  replaces none.  `RowsInOrder` from `OrderInv`, as long as no post failed and no chunk was
  left without its ids: the chunks, one behind the other, are the posts from the
  first on, and the successful posts with the rest of the batch are those read so
  far; once all that were completed have been read, the successful ones are what
  the chunks hold.  The lemmas on `FlattenSeq` it needs (its type, and the effect of
  one more chunk) are inductions over the length of the list.  The library's
  induction theorems cannot be instantiated, so they are proved from the least
  counterexample (`LeastNat`, from `WFMin` and `NatLessThanWellFounded`).  TLC checked
  `OrderInv` on four posts, with three faults, before it was proved.
* `TelegramMonitorProofs`: `StallsAreReal` from `StallInv`: a progress baseline, in memory or
  in the file, is never older than the real lack of progress, whatever cycle or state was
  lost.  `ChatIsSpared` from `AlertsInv`: unless a state or an answer was lost, an alert's
  entry and the chat agree in the time of the last message, and in the severity
  unless a message failed.  `OneReportADay` from `ReportsInv`: a pending date has no
  report yet, and its day none either, and a date that has had one is written
  down as such, so that the daily mode may be started on it again.
* Batches: `NoSharedEntity`, `CompletedIsStored` from `BatchInv`: held jobs are running, and
  the answer that a task still has to finish is stored.
* Planners: `PlannedOnce` from `PlanInv`: at most one planner that takes the lock is
  about to insert, and what it is about to insert repeats no open run.

Two attempts at these proofs failed for a reason, and changed the models.
`NotFlooded` did not hold for longer repeat times: if a critical alert was told
and the message of its change to warning is lost, the next critical one is sent
at once, as `process_alerts` compares with the entry and not with the chat;
`missed` and the property now say so.  And whether a job has read a page had been read off
its offset and its `since`, which an empty first page does not change; `begun`
records it.

Only model-checked: liveness (`RunSettles`, `CallsEnd`, `CampaignSettles`, `GateOpens`,
`ChatConverges`), which is out of the prover's reach under fairness.

## Plan

1. *Done*: `CollectionQueue`, `JobLedger`, their runs and theorems, the refinement
   included.
2. *Done*: `TokenPool` with the client's loop, and its theorems.
3. *Done*: campaigns of both types with their abstract life cycle.
4. *Done*: pages, batches, search, embeddings, planners, monitor, and theorems
   about all of them.
5. *Done*: theorems about the campaigns, the refinement of their life cycle included.
6. *Left*: the pilot run of the user-post campaign; the scheduling order over
   several runs, which is the service's and not the queue's.

## Not modelled, and why

* Report arithmetic (`capacity.py`, `backlog.py`), summaries, encoders, metrics
  and notebooks are pure computation or queries; projections and percentages
  appear as `room`.
* `backup.py` hashes files that another tool wrote and returns a verdict;
  `classification/` exports and imports in single transactions of an operator's
  command.  Neither has an order of steps to check.
* The order in which transactions lock rows is below the models' steps:
  PostgreSQL breaks a cycle by aborting one transaction, which a model has as a
  failed task or a crash.
* Quarantine and finalization of pilots, the pilot run of the user-post
  campaign, the attachments of posts and the single-id diagnosis of communities:
  single transactions beside the ones modelled.
* Formatting, masking and notification texts carry no state; migrations and
  deployment scripts, other than the control script for subscriptions, are declarative or outside
  the program.
