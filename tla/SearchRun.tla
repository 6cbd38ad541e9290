------------------------------ MODULE SearchRun ------------------------------
(***************************************************************************)
(* The search for groups by keyword: a run, its progress per keyword and   *)
(* community type, and the processes that drive it.  A page is saved with  *)
(* the next offset in one transaction; a process may die anywhere, a       *)
(* second one may be started on the same plan, a request may fail, and the *)
(* tokens may run out.                                                     *)
(***************************************************************************)
EXTENDS Integers, Sequences, FiniteSets

CONSTANTS
  Callers,    (* processes that call SearchService.run                          *)
  Total,      (* how many groups VK finds for each keyword, from 1 on           *)
  PageSize,
  MaxRuns, MaxFaults   (* bounds: search_runs created, errors and deaths        *)

(* Keywords are numbered, as the positions of a list are.                   *)
SearchAssumption == Total \in Seq(Nat) /\ PageSize \in Nat \ {0} /\ MaxRuns \in Nat

VARIABLES
  status,     (* search_runs.status, of the runs in order of creation           *)
  progress,   (* search_run_keywords: status and next_offset                    *)
  matched,    (* search_run_groups: results of each keyword saved by the run    *)
  pc,         (* "idle", "starting", "keywords", "pages", "last"                *)
  at,         (* the run a process drives, 0: it will create one                *)
  keyword, offset,     (* its loops                                            *)
  overlapped, (* history: two processes were at work at once                    *)
  faults

callerVars == <<pc, at, keyword, offset>>
vars == <<status, progress, matched, callerVars, overlapped, faults>>

Smaller(a, b) == IF a < b THEN a ELSE b
Keywords == DOMAIN Total
Runs     == 1 .. MaxRuns
Created  == {r \in Runs : status[r] # "none"}

Init ==
  /\ status = [r \in Runs |-> "none"]
  /\ progress = [r \in Runs |-> [k \in Keywords |-> [status |-> "running", offset |-> 0]]]
  /\ matched = [r \in Runs |-> [k \in Keywords |-> {}]]
  /\ pc = [c \in Callers |-> "idle"] /\ at = [c \in Callers |-> 0]
  /\ keyword = [c \in Callers |-> 1] /\ offset = [c \in Callers |-> 0]
  /\ overlapped = FALSE /\ faults = 0

-----------------------------------------------------------------------------
(* Faulty variant: a run whose process died is not looked for.              *)
ResumablePaused == {"paused"}

(* start_or_resume_run: the newest open run of the plan whose row no other  *)
(* start holds, and otherwise a new one.                                    *)
Resumable == {"running", "paused"}
Free == {r \in Created : status[r] \in Resumable
                         /\ \A c \in Callers : ~(pc[c] = "starting" /\ at[c] = r)}

StartSelect(c) ==
  /\ pc[c] = "idle"
  /\ at' = [at EXCEPT ![c] = IF Free = {} THEN 0
                             ELSE CHOOSE r \in Free : \A s \in Free : s <= r]
  /\ pc' = [pc EXCEPT ![c] = "starting"]
  /\ overlapped' = (overlapped \/ \E other \in Callers \ {c} : pc[other] # "idle")
  /\ UNCHANGED <<status, progress, matched, keyword, offset, faults>>

StartCommit(c) ==
  /\ pc[c] = "starting"
  /\ at[c] = 0 => Cardinality(Created) < MaxRuns
  /\ LET r == IF at[c] = 0 THEN Cardinality(Created) + 1 ELSE at[c] IN
     /\ status' = [status EXCEPT ![r] = "running"]
     /\ at' = [at EXCEPT ![c] = r]
  /\ pc' = [pc EXCEPT ![c] = "keywords"]
  /\ keyword' = [keyword EXCEPT ![c] = 1]
  /\ UNCHANGED <<progress, matched, offset, overlapped, faults>>

(* Faulty variant: a keyword is resumed one page past its saved offset.     *)
NextKeywordAhead(c) ==
  /\ pc[c] = "keywords" /\ keyword[c] \in Keywords
  /\ LET p == progress[at[c]][keyword[c]] IN
     IF p.status = "completed"
     THEN keyword' = [keyword EXCEPT ![c] = @ + 1] /\ UNCHANGED <<pc, offset>>
     ELSE /\ offset' = [offset EXCEPT ![c] = IF p.offset = 0 THEN 0 ELSE p.offset + PageSize]
          /\ pc' = [pc EXCEPT ![c] = "pages"]
          /\ UNCHANGED keyword
  /\ UNCHANGED <<status, progress, matched, at, overlapped, faults>>

(* is_keyword_complete and get_offset of the next keyword.                  *)
NextKeyword(c) ==
  /\ pc[c] = "keywords" /\ keyword[c] \in Keywords
  /\ LET p == progress[at[c]][keyword[c]] IN
     IF p.status = "completed"
     THEN keyword' = [keyword EXCEPT ![c] = @ + 1] /\ UNCHANGED <<pc, offset>>
     ELSE /\ offset' = [offset EXCEPT ![c] = p.offset]
          /\ pc' = [pc EXCEPT ![c] = "pages"]
          /\ UNCHANGED keyword
  /\ UNCHANGED <<status, progress, matched, at, overlapped, faults>>

(* iter_search: how far a page reaches.                                     *)
Consumed(k, start) == Smaller(PageSize, IF Total[k] > start THEN Total[k] - start ELSE 0)

(* A page of iter_search and save_page.                                     *)
SavePage(c) ==
  /\ pc[c] = "pages"
  /\ LET k == keyword[c]  r == at[c]
         next == offset[c] + Consumed(k, offset[c])
     IN  /\ matched' = [matched EXCEPT ![r][k] = @ \cup (offset[c] + 1 .. next)]
         /\ progress' = [progress EXCEPT ![r][k].offset = next]
         /\ offset' = [offset EXCEPT ![c] = next]
         /\ pc' = IF next = offset[c] \/ next >= Total[k] THEN [pc EXCEPT ![c] = "last"] ELSE pc
  /\ UNCHANGED <<status, at, keyword, overlapped, faults>>

(* Faulty variant: a keyword that is through takes the next one with it.    *)
GoOnTwice(c) ==
  /\ pc' = [pc EXCEPT ![c] = "keywords"]
  /\ keyword' = [keyword EXCEPT ![c] = @ + 2]

GoOn(c) ==
  /\ pc' = [pc EXCEPT ![c] = "keywords"]
  /\ keyword' = [keyword EXCEPT ![c] = @ + 1]

CompleteKeyword(c) ==
  /\ pc[c] = "last"
  /\ progress' = [progress EXCEPT ![at[c]][keyword[c]].status = "completed"]
  /\ GoOn(c)
  /\ UNCHANGED <<status, matched, at, offset, overlapped, faults>>

(* A request fails: record_keyword_error, and on to the next keyword.       *)
KeywordError(c) ==
  /\ pc[c] = "pages" /\ faults < MaxFaults
  /\ progress' = [progress EXCEPT ![at[c]][keyword[c]].status = "failed"]
  /\ GoOn(c)
  /\ faults' = faults + 1
  /\ UNCHANGED <<status, matched, at, offset, overlapped>>

Leave(c) == pc' = [pc EXCEPT ![c] = "idle"]

(* VKTokensUnavailable: pause_run.                                          *)
TokensUnavailable(c) ==
  /\ pc[c] = "pages" /\ faults < MaxFaults
  /\ status' = [status EXCEPT ![at[c]] = "paused"]
  /\ Leave(c)
  /\ faults' = faults + 1
  /\ UNCHANGED <<progress, matched, at, keyword, offset, overlapped>>

CompleteRun(c) ==
  /\ pc[c] = "keywords" /\ keyword[c] \notin Keywords
  /\ status' = [status EXCEPT ![at[c]] = "completed"]
  /\ Leave(c)
  /\ UNCHANGED <<progress, matched, at, keyword, offset, overlapped, faults>>

Die(c) ==
  /\ pc[c] # "idle" /\ faults < MaxFaults
  /\ Leave(c)
  /\ faults' = faults + 1
  /\ UNCHANGED <<status, progress, matched, at, keyword, offset, overlapped>>

Next ==
  \E c \in Callers :
    \/ StartSelect(c) \/ StartCommit(c) \/ NextKeyword(c) \/ SavePage(c)
    \/ CompleteKeyword(c) \/ KeywordError(c) \/ TokensUnavailable(c)
    \/ CompleteRun(c) \/ Die(c)

Spec == Init /\ [][Next]_vars

-----------------------------------------------------------------------------
(* Properties.                                                              *)

(* No result is skipped: what lies before a saved offset has been saved by  *)
(* the run, and a completed keyword has all its results, however many       *)
(* processes drive the run, die and resume it.                              *)
NothingSkipped ==
  \A r \in Created, k \in Keywords :
    /\ 1 .. progress[r][k].offset \subseteq matched[r][k]
    /\ progress[r][k].status = "completed" => matched[r][k] = 1 .. Total[k]

(* A run is completed only after every keyword was completed or failed.     *)
CompletedRunIsThrough ==
  \A r \in Created : status[r] = "completed" =>
    \A k \in Keywords : progress[r][k].status # "running"

(* A run that was interrupted is resumed and not started anew: processes    *)
(* that do not overlap leave at most one run open.                          *)
ResumedNotRestarted ==
  overlapped \/ Cardinality({r \in Created : status[r] \in {"running", "paused"}}) <= 1
=============================================================================
