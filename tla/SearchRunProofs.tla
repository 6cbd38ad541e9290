-------------------------- MODULE SearchRunProofs --------------------------
(***************************************************************************)
(* Theorems about SearchRun, for any processes, keywords, numbers of       *)
(* results, page size and number of faults.                                *)
(***************************************************************************)
EXTENDS SearchRun, FiniteSetTheorems, WellFoundedInduction, TLAPS

(* A set of natural numbers that is not empty has a least element.         *)
LEMMA LeastExists ==
  ASSUME NEW S, S \subseteq Nat, S # {}
  PROVE  \E x \in S : \A y \in S : x <= y
<1>1. PICK x \in S : \A y \in S : ~(<<y, x>> \in OpToRel(<, Nat))
  BY NatLessThanWellFounded, WFMin, Zenon
<1>2. \A y \in S : ~(y < x)
  BY <1>1 DEF OpToRel
<1>3. \A y \in S : y \in Nat /\ x \in Nat
  OBVIOUS
<1> QED BY <1>2, <1>3

(* A set of numbers from 1 to n that is not empty has a greatest element.   *)
LEMMA GreatestExists ==
  ASSUME NEW n \in Nat, NEW S, S \subseteq 1 .. n, S # {}
  PROVE  \E x \in S : \A y \in S : y <= x
<1> DEFINE D == {n - y : y \in S}
<1>0. \A y \in S : y \in Int /\ n - y \in Nat
  OBVIOUS
<1>1. D \subseteq Nat /\ D # {}
  <2>1. D \subseteq Nat
    BY <1>0
  <2>2. D # {}
    OBVIOUS
  <2> QED BY <2>1, <2>2
<1>2. PICK d \in D : \A y \in D : d <= y
  <2> HIDE DEF D
  <2> QED BY <1>1, LeastExists
<1>3. PICK x \in S : d = n - x
  OBVIOUS
<1>4. ASSUME NEW y \in S PROVE y <= x
  <2>1. n - y \in D
    OBVIOUS
  <2>2. n - x <= n - y
    BY <1>2, <1>3, <2>1
  <2>3. x \in Int /\ y \in Int
    BY <1>0
  <2> HIDE DEF D
  <2> QED BY <2>2, <2>3
<1> QED BY <1>4

-----------------------------------------------------------------------------
(* The inductive invariant.                                                 *)

KeywordStatus == {"running", "completed", "failed"}
Driving == {"keywords", "pages", "last"}

SearchTypes ==
  /\ status \in [Runs -> {"none", "running", "paused", "completed"}]
  /\ progress \in [Runs -> [Keywords -> [status : KeywordStatus, offset : Nat]]]
  /\ matched \in [Runs -> [Keywords -> SUBSET Nat]]
  /\ pc \in [Callers -> Driving \cup {"idle", "starting"}]
  /\ at \in [Callers -> Runs \cup {0}]
  /\ keyword \in [Callers -> Nat \ {0}]
  /\ offset \in [Callers -> Nat]

(* What a process stands on: a run, and in it a keyword with all results    *)
(* before the process's own offset, which may differ from the saved one;    *)
(* the keywords before it have an outcome.                                  *)
CallersAreSound ==
  \A c \in Callers : pc[c] \in Driving =>
    /\ at[c] \in Runs
    /\ \A k \in Keywords : k < keyword[c] => progress[at[c]][k].status # "running"
    /\ pc[c] \in {"pages", "last"} =>
         /\ keyword[c] \in Keywords
         /\ 1 .. offset[c] \subseteq matched[at[c]][keyword[c]]
    /\ pc[c] = "last" => offset[c] >= Total[keyword[c]]

(* The saved results reach at least to the saved offset, and never beyond   *)
(* what VK has.                                                             *)
ProgressIsSound ==
  \A r \in Runs, k \in Keywords :
    /\ 1 .. progress[r][k].offset \subseteq matched[r][k]
    /\ matched[r][k] \subseteq 1 .. Total[k]
    /\ progress[r][k].status = "completed" => matched[r][k] = 1 .. Total[k]

SearchInv == SearchTypes /\ CallersAreSound /\ ProgressIsSound /\ CompletedRunIsThrough

-----------------------------------------------------------------------------
LEMMA CountOfRuns == ASSUME SearchAssumption PROVE Cardinality(Created) \in Nat
<1>1. IsFiniteSet(Runs)
  BY FS_Interval DEF SearchAssumption, Runs
<1> QED BY <1>1, FS_Subset, FS_CardinalityType DEF Created

LEMMA InitSearch == ASSUME SearchAssumption, Init PROVE SearchInv
  BY DEF SearchAssumption, Init, SearchInv, SearchTypes, CallersAreSound, ProgressIsSound,
         CompletedRunIsThrough, Created, Driving, KeywordStatus, Keywords

(* A page reaches no further than VK's results, and not at all at the end.  *)
LEMMA PageReach ==
  ASSUME SearchAssumption, NEW k \in Keywords, NEW start \in Nat
  PROVE  /\ Consumed(k, start) \in Nat
         /\ start + 1 .. start + Consumed(k, start) \subseteq 1 .. Total[k]
         /\ Consumed(k, start) = 0 => start >= Total[k]
  BY DEF SearchAssumption, Keywords, Consumed, Smaller

(* Starting chooses a run that exists, or makes one whose rows are new.     *)
LEMMA StartKeeps ==
  ASSUME SearchAssumption, SearchInv, NEW c \in Callers, StartSelect(c) \/ StartCommit(c)
  PROVE  SearchInv'
<1>1. CASE StartSelect(c)
  <2>1. ASSUME Free # {} PROVE (CHOOSE r \in Free : \A s \in Free : s <= r) \in Runs
    <3>1. Free \subseteq 1 .. MaxRuns /\ MaxRuns \in Nat
      BY DEF SearchAssumption, Runs, Free, Created
    <3>2. \E r \in Free : \A s \in Free : s <= r
      BY <2>1, <3>1, GreatestExists
    <3> QED BY <3>1, <3>2 DEF Runs
  <2>2. at'[c] \in Runs \cup {0}
    BY <1>1, <2>1 DEF StartSelect, SearchInv, SearchTypes
  <2>3. /\ at' = [at EXCEPT ![c] = at'[c]] /\ pc[c] = "idle"
        /\ pc' = [pc EXCEPT ![c] = "starting"]
        /\ UNCHANGED <<status, progress, matched, keyword, offset>>
    BY <1>1 DEF StartSelect, SearchInv, SearchTypes
  <2>4. SearchTypes'
    BY <2>2, <2>3 DEF SearchInv, SearchTypes
  <2>5. CallersAreSound'
    BY <2>3 DEF SearchInv, SearchTypes, CallersAreSound, Driving
  <2> QED BY <2>3, <2>4, <2>5
      DEF SearchInv, ProgressIsSound, CompletedRunIsThrough, Created
<1>2. CASE StartCommit(c)
  <2>1. PICK r \in Runs : /\ status' = [status EXCEPT ![r] = "running"]
                          /\ at' = [at EXCEPT ![c] = r]
    <3>1. CASE at[c] = 0
      <4>1. Cardinality(Created) + 1 \in Runs
        BY <1>2, <3>1, CountOfRuns DEF StartCommit, SearchAssumption, Runs
      <4> QED BY <1>2, <3>1, <4>1 DEF StartCommit
    <3>2. CASE at[c] # 0
      <4>1. at[c] \in Runs
        BY <3>2 DEF SearchInv, SearchTypes
      <4> QED BY <1>2, <3>2, <4>1 DEF StartCommit
    <3> QED BY <3>1, <3>2
  <2>2. /\ pc' = [pc EXCEPT ![c] = "keywords"] /\ keyword' = [keyword EXCEPT ![c] = 1]
        /\ UNCHANGED <<progress, matched, offset>>
    BY <1>2 DEF StartCommit
  <2>3. SearchTypes'
    BY <2>1, <2>2 DEF SearchInv, SearchTypes, Driving
  <2>4. CallersAreSound'
    <3>1. \A d \in Callers \ {c} :
            /\ pc'[d] = pc[d] /\ at'[d] = at[d] /\ keyword'[d] = keyword[d] /\ offset'[d] = offset[d]
      BY <2>1, <2>2 DEF SearchInv, SearchTypes
    <3>2. pc'[c] = "keywords" /\ keyword'[c] = 1 /\ at'[c] \in Runs
      BY <2>1, <2>2 DEF SearchInv, SearchTypes
    <3>3. \A k \in Keywords : ~(k < 1)
      BY DEF SearchAssumption, Keywords
    <3> QED BY <2>2, <3>1, <3>2, <3>3 DEF SearchInv, CallersAreSound
  <2>5. CompletedRunIsThrough'
    BY <2>1, <2>2 DEF SearchInv, SearchTypes, CompletedRunIsThrough, Created
  <2> QED BY <2>2, <2>3, <2>4, <2>5 DEF SearchInv, ProgressIsSound
<1> QED BY <1>1, <1>2

LEMMA NextKeywordKeeps ==
  ASSUME SearchAssumption, SearchInv, NEW c \in Callers, NextKeyword(c) PROVE SearchInv'
<1>1. /\ pc[c] = "keywords" /\ keyword[c] \in Keywords /\ at[c] \in Runs
      /\ UNCHANGED <<status, progress, matched, at>>
  BY DEF NextKeyword, SearchInv, CallersAreSound, Driving
<1>2. CASE progress[at[c]][keyword[c]].status = "completed"
  <2>1. keyword' = [keyword EXCEPT ![c] = @ + 1] /\ UNCHANGED <<pc, offset>>
    BY <1>2 DEF NextKeyword
  <2>2. SearchTypes'
    BY <1>1, <2>1 DEF SearchInv, SearchTypes
  <2>3. ASSUME NEW d \in Callers, d # c PROVE keyword'[d] = keyword[d]
    BY <2>1, <2>3 DEF SearchInv, SearchTypes
  <2>4. keyword'[c] = keyword[c] + 1 /\ keyword[c] \in Nat
    BY <2>1 DEF SearchInv, SearchTypes
  <2>5. \A k \in Keywords : k < keyword[c] => progress[at[c]][k].status # "running"
    BY <1>1 DEF SearchInv, CallersAreSound, Driving
  <2>6. \A k \in Keywords : k < keyword[c] + 1 => progress[at[c]][k].status # "running"
    BY <1>2, <2>4, <2>5 DEF Keywords, SearchAssumption
  <2>7. CallersAreSound'
    <3> SUFFICES ASSUME NEW d \in Callers, pc[d] \in Driving
                 PROVE  /\ at[d] \in Runs
                        /\ \A k \in Keywords : k < keyword'[d] => progress[at[d]][k].status # "running"
                        /\ pc[d] \in {"pages", "last"} =>
                             /\ keyword'[d] \in Keywords
                             /\ 1 .. offset[d] \subseteq matched[at[d]][keyword'[d]]
                        /\ pc[d] = "last" => offset[d] >= Total[keyword'[d]]
      BY <1>1, <2>1 DEF CallersAreSound
    <3>1. CASE d = c
      BY <1>1, <2>4, <2>6, <3>1
    <3>2. CASE d # c
      BY <2>3, <3>2 DEF SearchInv, CallersAreSound
    <3> QED BY <3>1, <3>2
  <2> QED BY <1>1, <2>2, <2>7
      DEF SearchInv, ProgressIsSound, CompletedRunIsThrough, Created
<1>3. CASE progress[at[c]][keyword[c]].status # "completed"
  <2>1. /\ offset' = [offset EXCEPT ![c] = progress[at[c]][keyword[c]].offset]
        /\ pc' = [pc EXCEPT ![c] = "pages"] /\ UNCHANGED keyword
    BY <1>3 DEF NextKeyword
  <2>2. SearchTypes'
    BY <1>1, <2>1 DEF SearchInv, SearchTypes, Driving
  <2>3. CallersAreSound'
    BY <1>1, <2>1 DEF SearchInv, SearchTypes, CallersAreSound, ProgressIsSound, Driving
  <2> QED BY <1>1, <2>2, <2>3
      DEF SearchInv, ProgressIsSound, CompletedRunIsThrough, Created
<1> QED BY <1>2, <1>3

(* A page joins on to what the process knows to be saved, even when another *)
(* process has moved the saved offset meanwhile.                            *)
LEMMA SavePageKeeps ==
  ASSUME SearchAssumption, SearchInv, NEW c \in Callers, SavePage(c) PROVE SearchInv'
<1> DEFINE k == keyword[c]
           r == at[c]
           n == offset[c] + Consumed(k, offset[c])
<1>1. /\ pc[c] = "pages" /\ k \in Keywords /\ r \in Runs /\ offset[c] \in Nat
      /\ 1 .. offset[c] \subseteq matched[r][k]
  BY DEF SavePage, SearchInv, SearchTypes, CallersAreSound, Driving
<1>2. /\ matched' = [matched EXCEPT ![r][k] = @ \cup (offset[c] + 1 .. n)]
      /\ progress' = [progress EXCEPT ![r][k].offset = n]
      /\ offset' = [offset EXCEPT ![c] = n]
      /\ pc' = IF n = offset[c] \/ n >= Total[k] THEN [pc EXCEPT ![c] = "last"] ELSE pc
      /\ UNCHANGED <<status, at, keyword>>
  BY DEF SavePage
<1>3. /\ n \in Nat /\ offset[c] + 1 .. n \subseteq 1 .. Total[k]
      /\ n = offset[c] => n >= Total[k]
  BY <1>1, PageReach
<1>4. SearchTypes'
  BY <1>1, <1>2, <1>3 DEF SearchInv, SearchTypes, Driving
<1>5. \A s \in Runs, j \in Keywords :
        /\ matched[s][j] \subseteq matched'[s][j]
        /\ progress'[s][j].status = progress[s][j].status
        /\ <<s, j>> # <<r, k>> => matched'[s][j] = matched[s][j]
                                  /\ progress'[s][j] = progress[s][j]
  BY <1>1, <1>2 DEF SearchInv, SearchTypes
<1>6. /\ progress'[r][k].offset = n /\ 1 .. n \subseteq matched'[r][k]
      /\ matched'[r][k] \subseteq 1 .. Total[k]
  BY <1>1, <1>2, <1>3 DEF SearchInv, SearchTypes, ProgressIsSound
<1>7. ProgressIsSound'
  <2> SUFFICES ASSUME NEW s \in Runs, NEW j \in Keywords
               PROVE  /\ 1 .. progress'[s][j].offset \subseteq matched'[s][j]
                      /\ matched'[s][j] \subseteq 1 .. Total[j]
                      /\ progress'[s][j].status = "completed" => matched'[s][j] = 1 .. Total[j]
    BY DEF ProgressIsSound, Runs
  <2>1. CASE s = r /\ j = k
    <3>1. 1 .. progress'[r][k].offset \subseteq matched'[r][k]
      BY <1>6
    <3>2. progress'[r][k].status = "completed" => 1 .. Total[k] \subseteq matched'[r][k]
      <4>1. progress'[r][k].status = progress[r][k].status /\ matched[r][k] \subseteq matched'[r][k]
        BY <1>1, <1>5
      <4>2. progress[r][k].status = "completed" => matched[r][k] = 1 .. Total[k]
        BY <1>1 DEF SearchInv, ProgressIsSound
      <4> QED BY <4>1, <4>2, Zenon
    <3>3. matched'[r][k] \subseteq 1 .. Total[k]
      BY <1>6
    <3>4. progress'[r][k].status = "completed" => matched'[r][k] = 1 .. Total[k]
      BY <3>2, <3>3, Zenon
    <3> QED BY <2>1, <3>1, <3>3, <3>4, Zenon
  <2>2. CASE ~(s = r /\ j = k)
    BY <1>5, <2>2 DEF SearchInv, ProgressIsSound
  <2> QED BY <2>1, <2>2
<1>8. CallersAreSound'
  <2> SUFFICES ASSUME NEW d \in Callers, pc'[d] \in Driving
               PROVE  /\ at'[d] \in Runs
                      /\ \A j \in Keywords : j < keyword'[d] => progress'[at'[d]][j].status # "running"
                      /\ pc'[d] \in {"pages", "last"} =>
                           /\ keyword'[d] \in Keywords
                           /\ 1 .. offset'[d] \subseteq matched'[at'[d]][keyword'[d]]
                      /\ pc'[d] = "last" => offset'[d] >= Total[keyword'[d]]
    BY DEF CallersAreSound
  <2>1. CASE d = c
    BY <1>1, <1>2, <1>3, <1>5, <1>6, <2>1 DEF SearchInv, SearchTypes, CallersAreSound, Driving
  <2>2. CASE d # c
    <3>1. pc'[d] = pc[d] /\ at'[d] = at[d] /\ keyword'[d] = keyword[d] /\ offset'[d] = offset[d]
      BY <1>2, <2>2 DEF SearchInv, SearchTypes
    <3> QED BY <1>5, <3>1 DEF SearchInv, CallersAreSound
  <2> QED BY <2>1, <2>2
<1>9. CompletedRunIsThrough'
  BY <1>2, <1>5 DEF SearchInv, CompletedRunIsThrough, Created
<1> QED BY <1>4, <1>7, <1>8, <1>9 DEF SearchInv

(* A keyword gets an outcome; "completed" only with all results.            *)
LEMMA KeywordEndKeeps ==
  ASSUME SearchAssumption, SearchInv, NEW c \in Callers, CompleteKeyword(c) \/ KeywordError(c)
  PROVE  SearchInv'
<1> DEFINE k == keyword[c]
           r == at[c]
<1>1. k \in Keywords /\ r \in Runs /\ pc[c] \in {"pages", "last"}
  BY DEF CompleteKeyword, KeywordError, SearchInv, SearchTypes, CallersAreSound, Driving
<1>2. PICK s \in {"completed", "failed"} :
        /\ progress' = [progress EXCEPT ![r][k].status = s]
        /\ s = "completed" => pc[c] = "last"
  BY DEF CompleteKeyword, KeywordError
<1>3. /\ pc' = [pc EXCEPT ![c] = "keywords"] /\ keyword' = [keyword EXCEPT ![c] = @ + 1]
      /\ UNCHANGED <<status, matched, at, offset>>
  BY DEF CompleteKeyword, KeywordError, GoOn
<1>4. SearchTypes'
  <2>1. s \in KeywordStatus
    BY DEF KeywordStatus
  <2>2. progress' \in [Runs -> [Keywords -> [status : KeywordStatus, offset : Nat]]]
    <3>1. progress \in [Runs -> [Keywords -> [status : KeywordStatus, offset : Nat]]]
      BY DEF SearchInv, SearchTypes
    <3>2. [progress[r][k] EXCEPT !.status = s] \in [status : KeywordStatus, offset : Nat]
      BY <1>1, <2>1, <3>1
    <3> QED BY <1>1, <1>2, <3>1, <3>2
  <2> QED BY <1>1, <1>3, <2>2 DEF SearchInv, SearchTypes, Driving
<1>5. /\ \A q \in Runs, j \in Keywords :
           /\ progress'[q][j].offset = progress[q][j].offset
           /\ <<q, j>> # <<r, k>> => progress'[q][j] = progress[q][j]
      /\ progress'[r][k].status = s
  BY <1>1, <1>2 DEF SearchInv, SearchTypes
<1>6. s = "completed" => matched[r][k] = 1 .. Total[k]
  <2> SUFFICES ASSUME pc[c] = "last" PROVE matched[r][k] = 1 .. Total[k]
    BY <1>2
  <2>1. 1 .. offset[c] \subseteq matched[r][k] /\ offset[c] >= Total[k] /\ offset[c] \in Nat
    BY DEF SearchInv, SearchTypes, CallersAreSound, Driving
  <2>2. matched[r][k] \subseteq 1 .. Total[k] /\ Total[k] \in Nat
    <3>1. Total[k] \in Nat
      BY <1>1 DEF SearchAssumption, Keywords
    <3> QED BY <1>1, <3>1 DEF SearchInv, ProgressIsSound
  <2>3. 1 .. Total[k] \subseteq 1 .. offset[c]
    BY <2>1, <2>2
  <2> QED BY <2>1, <2>2, <2>3
<1>7. ProgressIsSound'
  <2> SUFFICES ASSUME NEW q \in Runs, NEW j \in Keywords
               PROVE  /\ 1 .. progress'[q][j].offset \subseteq matched'[q][j]
                      /\ matched'[q][j] \subseteq 1 .. Total[j]
                      /\ progress'[q][j].status = "completed" => matched'[q][j] = 1 .. Total[j]
    BY DEF ProgressIsSound, Runs
  <2>1. CASE q = r /\ j = k
    BY <1>3, <1>5, <1>6, <2>1 DEF SearchInv, ProgressIsSound
  <2>2. CASE ~(q = r /\ j = k)
    BY <1>3, <1>5, <2>2 DEF SearchInv, ProgressIsSound
  <2> QED BY <2>1, <2>2
<1>8. CallersAreSound'
  <2> SUFFICES ASSUME NEW d \in Callers, pc'[d] \in Driving
               PROVE  /\ at'[d] \in Runs
                      /\ \A j \in Keywords : j < keyword'[d] => progress'[at'[d]][j].status # "running"
                      /\ pc'[d] \in {"pages", "last"} =>
                           /\ keyword'[d] \in Keywords
                           /\ 1 .. offset'[d] \subseteq matched'[at'[d]][keyword'[d]]
                      /\ pc'[d] = "last" => offset'[d] >= Total[keyword'[d]]
    BY DEF CallersAreSound
  <2>1. \A q \in Runs, j \in Keywords :
          progress[q][j].status # "running" => progress'[q][j].status # "running"
    BY <1>2, <1>5
  <2>2. CASE d = c
    <3>1. \A j \in Keywords : j < k + 1 => j = k \/ j < k
      BY <1>1 DEF SearchAssumption, Keywords
    <3>2. \A j \in Keywords : j < k => progress[r][j].status # "running"
      BY <1>1 DEF SearchInv, CallersAreSound, Driving
    <3>3. /\ pc'[c] = "keywords" /\ keyword'[c] = k + 1 /\ at'[c] = r
      BY <1>3 DEF SearchInv, SearchTypes
    <3> QED BY <1>1, <1>2, <1>5, <2>1, <2>2, <3>1, <3>2, <3>3
  <2>3. CASE d # c
    <3>1. pc'[d] = pc[d] /\ at'[d] = at[d] /\ keyword'[d] = keyword[d] /\ offset'[d] = offset[d]
      BY <1>3, <2>3 DEF SearchInv, SearchTypes
    <3> QED BY <1>3, <2>1, <3>1 DEF SearchInv, CallersAreSound
  <2> QED BY <2>2, <2>3
<1>9. CompletedRunIsThrough'
  BY <1>2, <1>3, <1>5 DEF SearchInv, CompletedRunIsThrough, Created
<1> QED BY <1>4, <1>7, <1>8, <1>9 DEF SearchInv

(* A process leaves: paused, dead, or with every keyword behind it.         *)
LEMMA LeaveKeeps ==
  ASSUME SearchAssumption, SearchInv, NEW c \in Callers,
         TokensUnavailable(c) \/ CompleteRun(c) \/ Die(c)
  PROVE  SearchInv'
<1>1. /\ pc' = [pc EXCEPT ![c] = "idle"]
      /\ UNCHANGED <<progress, matched, at, keyword, offset>>
  BY DEF TokensUnavailable, CompleteRun, Die, Leave
<1>2. ProgressIsSound' /\ CallersAreSound'
  BY <1>1 DEF SearchInv, SearchTypes, ProgressIsSound, CallersAreSound, Driving
<1>3. SearchTypes' /\ CompletedRunIsThrough'
  <2>1. CASE TokensUnavailable(c)
    BY <1>1, <2>1 DEF TokensUnavailable, SearchInv, SearchTypes, CompletedRunIsThrough, Created
  <2>2. CASE CompleteRun(c)
    <3>1. at[c] \in Runs /\ \A k \in Keywords : progress[at[c]][k].status # "running"
      BY <2>2 DEF CompleteRun, SearchAssumption, SearchInv, SearchTypes, CallersAreSound,
         Driving, Keywords
    <3>2. status' = [status EXCEPT ![at[c]] = "completed"]
      BY <2>2 DEF CompleteRun
    <3>3. SearchTypes'
      BY <1>1, <3>1, <3>2 DEF SearchInv, SearchTypes
    <3>4. CompletedRunIsThrough'
      BY <1>1, <3>1, <3>2 DEF SearchInv, SearchTypes, CompletedRunIsThrough, Created
    <3> QED BY <3>3, <3>4
  <2>3. CASE Die(c)
    BY <1>1, <2>3 DEF Die, SearchInv, SearchTypes, CompletedRunIsThrough, Created
  <2> QED BY <2>1, <2>2, <2>3
<1> QED BY <1>2, <1>3 DEF SearchInv

LEMMA NextKeepsSearch ==
  ASSUME SearchAssumption, SearchInv, [Next]_vars PROVE SearchInv'
<1>1. CASE UNCHANGED vars
  BY <1>1 DEF vars, callerVars, SearchInv, SearchTypes, ProgressIsSound, CallersAreSound,
              CompletedRunIsThrough, Created
<1> QED
  BY <1>1, StartKeeps, NextKeywordKeeps, SavePageKeeps, KeywordEndKeeps, LeaveKeeps DEF Next

LEMMA SearchInvariant == ASSUME SearchAssumption PROVE Spec => []SearchInv
  BY InitSearch, NextKeepsSearch, PTL DEF Spec

(* What lies before a saved offset has been saved by the run, and a         *)
(* completed keyword has all its results, however many processes drive the  *)
(* run, die and resume it (get_offset, save_page, mark_keyword_complete).   *)
THEOREM NoPageLost == ASSUME SearchAssumption PROVE Spec => []NothingSkipped
<1>1. SearchInv => NothingSkipped
  BY DEF SearchInv, ProgressIsSound, NothingSkipped, Created
<1> QED BY <1>1, SearchInvariant, PTL

(* A run is completed only when every keyword was completed or failed, also *)
(* when several processes drive it (SearchService.run, mark_run_complete).  *)
THEOREM CompletionIsThorough == ASSUME SearchAssumption PROVE Spec => []CompletedRunIsThrough
<1>1. SearchInv => CompletedRunIsThrough
  BY DEF SearchInv
<1> QED BY <1>1, SearchInvariant, PTL

-----------------------------------------------------------------------------
(* One open run.                                                            *)

OpenRuns == {r \in Created : status[r] \in {"running", "paused"}}

(* As long as no two processes were at work at once, no run is open but the *)
(* one a process is about to drive or drives, and one at most if none is.   *)
OneOpen ==
  ~overlapped =>
    /\ \A c, d \in Callers : pc[c] # "idle" /\ pc[d] # "idle" => c = d
    /\ \A c \in Callers : pc[c] # "idle" => OpenRuns \subseteq {at[c]}
    /\ \A r, s \in OpenRuns : r = s

ResumeInv == SearchInv /\ OneOpen

LEMMA InitResume == ASSUME SearchAssumption, Init PROVE OneOpen
  BY DEF Init, OneOpen, OpenRuns, Created

(* A process that starts alone takes the open run, if there is one.         *)
LEMMA StartTakesOpen ==
  ASSUME SearchAssumption, ResumeInv, NEW c \in Callers, StartSelect(c) PROVE OneOpen'
<1> SUFFICES ASSUME ~overlapped' PROVE OneOpen'
  BY DEF OneOpen
<1>1. /\ ~overlapped /\ pc[c] = "idle" /\ \A d \in Callers : pc[d] = "idle"
  BY DEF StartSelect
<1>2. \A r, s \in OpenRuns : r = s
  BY <1>1 DEF ResumeInv, OneOpen
<1>3. Free = OpenRuns
  BY <1>1 DEF Free, Resumable, OpenRuns
<1>4. OpenRuns' = OpenRuns
  BY DEF StartSelect, OpenRuns, Created
<1>5. OpenRuns \subseteq {at'[c]}
  <2>1. OpenRuns \subseteq 1 .. MaxRuns /\ MaxRuns \in Nat
    BY DEF SearchAssumption, Runs, OpenRuns, Created
  <2>2. CASE OpenRuns = {}
    BY <2>2
  <2>3. CASE OpenRuns # {}
    <3>1. \E r \in OpenRuns : \A s \in OpenRuns : s <= r
      BY <2>1, <2>3, GreatestExists
    <3>2. (CHOOSE r \in OpenRuns : \A s \in OpenRuns : s <= r) \in OpenRuns
      BY <3>1
    <3>3. at'[c] = CHOOSE r \in OpenRuns : \A s \in OpenRuns : s <= r
      BY <1>3, <2>3 DEF StartSelect, ResumeInv, SearchInv, SearchTypes
    <3> QED BY <1>2, <3>2, <3>3
  <2> QED BY <2>2, <2>3
<1>6. \A d \in Callers : pc'[d] # "idle" => d = c
  BY <1>1 DEF StartSelect, ResumeInv, SearchInv, SearchTypes
<1> QED BY <1>2, <1>4, <1>5, <1>6 DEF OneOpen

(* Any other step opens no run but the one of its process.                  *)
LEMMA DriveKeepsOpen ==
  ASSUME SearchAssumption, ResumeInv, overlapped' = overlapped, NEW c \in Callers, pc[c] # "idle",
         \A d \in Callers \ {c} : pc'[d] = pc[d], at'[c] \in {at[c]} \/ OpenRuns = {},
         OpenRuns' \subseteq OpenRuns \cup {at'[c]}
  PROVE  OneOpen'
<1> SUFFICES ASSUME ~overlapped PROVE OneOpen'
  BY DEF OneOpen
<1>1. OpenRuns \subseteq {at[c]} /\ \A d \in Callers : pc[d] # "idle" => d = c
  BY DEF ResumeInv, OneOpen
<1>2. OpenRuns' \subseteq {at'[c]}
  BY <1>1
<1>3. \A d \in Callers : pc'[d] # "idle" => d = c
  BY <1>1
<1> QED BY <1>2, <1>3 DEF OneOpen

LEMMA NextKeepsResume ==
  ASSUME SearchAssumption, ResumeInv, [Next]_vars PROVE ResumeInv'
<1>1. SearchInv'
  BY NextKeepsSearch DEF ResumeInv
<1>2. CASE UNCHANGED vars
  <2>1. OneOpen'
    BY <1>2 DEF vars, callerVars, ResumeInv, OneOpen, OpenRuns, Created
  <2> QED BY <1>1, <2>1 DEF ResumeInv
<1>3. CASE Next
  <2>1. PICK c \in Callers :
          \/ StartSelect(c) \/ StartCommit(c) \/ NextKeyword(c) \/ SavePage(c)
          \/ CompleteKeyword(c) \/ KeywordError(c) \/ TokensUnavailable(c)
          \/ CompleteRun(c) \/ Die(c)
    BY <1>3 DEF Next
  <2>2. SearchTypes
    BY DEF ResumeInv, SearchInv
  <2>3. CASE StartSelect(c)
    BY <1>1, <2>3, StartTakesOpen DEF ResumeInv
  <2>4. CASE StartCommit(c)
    <3>1. PICK r : /\ status' = [status EXCEPT ![r] = "running"] /\ at' = [at EXCEPT ![c] = r]
                   /\ at[c] # 0 => r = at[c]
      BY <2>4 DEF StartCommit
    <3>2. pc[c] = "starting" /\ pc' = [pc EXCEPT ![c] = "keywords"] /\ UNCHANGED overlapped
      BY <2>4 DEF StartCommit
    <3>3. at'[c] = r /\ OpenRuns' \subseteq OpenRuns \cup {r}
      BY <2>2, <3>1 DEF SearchTypes, OpenRuns, Created
    <3>4. ASSUME ~overlapped, at[c] = 0 PROVE OpenRuns = {}
      <4>1. OpenRuns \subseteq {0}
        BY <3>2, <3>4 DEF ResumeInv, OneOpen
      <4>2. 0 \notin OpenRuns
        BY DEF OpenRuns, Created, Runs, SearchAssumption
      <4> QED BY <4>1, <4>2
    <3>5. CASE overlapped
      BY <1>1, <3>2, <3>5 DEF ResumeInv, OneOpen
    <3>6. CASE ~overlapped
      <4>1. OneOpen'
        BY <2>2, <3>1, <3>2, <3>3, <3>4, <3>6, DriveKeepsOpen DEF SearchTypes
      <4> QED BY <1>1, <4>1 DEF ResumeInv
    <3> QED BY <3>5, <3>6
  <2>5. CASE NextKeyword(c) \/ SavePage(c) \/ CompleteKeyword(c) \/ KeywordError(c)
             \/ TokensUnavailable(c) \/ CompleteRun(c) \/ Die(c)
    <3>1. pc[c] # "idle" /\ UNCHANGED <<at, overlapped>>
      BY <2>5 DEF NextKeyword, SavePage, CompleteKeyword, KeywordError, TokensUnavailable,
                  CompleteRun, Die
    <3>2. \A d \in Callers \ {c} : pc'[d] = pc[d]
      BY <2>2, <2>5 DEF SearchTypes, NextKeyword, SavePage, CompleteKeyword, KeywordError, GoOn,
                        TokensUnavailable, CompleteRun, Die, Leave
    <3>3. OpenRuns' \subseteq OpenRuns \cup {at[c]}
      <4>1. \A r \in Runs : r # at[c] => status'[r] = status[r]
        BY <2>2, <2>5 DEF SearchTypes, NextKeyword, SavePage, CompleteKeyword, KeywordError,
                          TokensUnavailable, CompleteRun, Die
      <4> QED BY <4>1 DEF OpenRuns, Created
    <3>4. OneOpen'
      BY <3>1, <3>2, <3>3, DriveKeepsOpen
    <3> QED BY <1>1, <3>4 DEF ResumeInv
  <2> QED BY <2>1, <2>3, <2>4, <2>5
<1> QED BY <1>2, <1>3

LEMMA OneIsEnough == ASSUME OneOpen PROVE ResumedNotRestarted
<1>1. CASE overlapped
  BY <1>1 DEF ResumedNotRestarted
<1>2. CASE ~overlapped
  <2>1. CASE OpenRuns = {}
    BY <2>1, FS_EmptySet DEF ResumedNotRestarted, OpenRuns
  <2>2. CASE OpenRuns # {}
    <3>1. PICK r \in OpenRuns : OpenRuns = {r}
      BY <1>2, <2>2 DEF OneOpen
    <3>2. Cardinality(OpenRuns) = 1
      BY <3>1, FS_Singleton
    <3> QED BY <3>2 DEF ResumedNotRestarted, OpenRuns
  <2> QED BY <2>1, <2>2
<1> QED BY <1>1, <1>2

(* A run that was interrupted is resumed and not started anew: processes    *)
(* that do not overlap leave at most one run open (start_or_resume_run).    *)
THEOREM OneRunIsOpen == ASSUME SearchAssumption PROVE Spec => []ResumedNotRestarted
<1>1. Init => ResumeInv
  BY InitSearch, InitResume DEF ResumeInv
<1>2. ResumeInv => ResumedNotRestarted
  BY OneIsEnough DEF ResumeInv
<1> QED BY <1>1, <1>2, NextKeepsResume, PTL DEF Spec
=============================================================================
