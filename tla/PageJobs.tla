------------------------------ MODULE PageJobs ------------------------------
(***************************************************************************)
(* What the jobs that read a list of VK page by page leave in the tables:  *)
(* the communities a user follows, the members of a group, the wall of a   *)
(* group and of a user.  One list, and the job each run has for it.  VK's  *)
(* list changes between two pages, VK may return fewer items than asked,   *)
(* and an attempt ends anywhere (error, deferral, crash): what it has      *)
(* committed stays, with the checkpoint, and the next attempt goes on from *)
(* there with an empty memory.  A request and the transaction that stores  *)
(* its answer are one step.                                                *)
(***************************************************************************)
EXTENDS Integers, Sequences, FiniteSets, SequencesExt

CONSTANTS
  Runs,       (* in the order they were planned, numbered from 1                *)
  Lists,      (* what VK holds at first, for each kind of list                  *)
  Spare,      (* an item that may appear at the top of the list                 *)
  PageSize, Maximum,   (* page size and maximum of the job type                *)
  SampleSize, (* collection_members_max_per_group                               *)
  Old, Pinned,         (* posts before the cutoff; the pinned post              *)
  MaxDisturbances      (* bound: changes of the list, short pages, interruptions *)

(* Items are numbered; a user's wall has each post once, newest first but   *)
(* for a pinned post at its top; and a post that appears is new.            *)
InOrder(posts) ==
  /\ \A p, q \in DOMAIN posts : p < q /\ posts[p] \in Old \ Pinned => posts[q] \in Old
  /\ \A p \in DOMAIN posts : posts[p] \in Pinned => p = 1
  /\ \A p, q \in DOMAIN posts : posts[p] = posts[q] => p = q

PagesAssumption ==
  /\ Runs \subseteq Nat \ {0}
  /\ PageSize \in Nat \ {0} /\ Maximum \in Nat /\ SampleSize \in Nat
  /\ Spare \in Nat \ (Old \cup Pinned)
  /\ \A k \in DOMAIN Lists : Lists[k] \in Seq(Nat)
  /\ "userWall" \in DOMAIN Lists => InOrder(Lists["userWall"])

VARIABLES
  kind,       (* "links", "members", "baseline", "wall", "userWall", "latest"   *)
  list,       (* what VK returns, in its order                                  *)
  row,        (* the stored rows: source_run_id (0: no row) and is_current      *)
  job,        (* per run: status, checkpoint offset and collected               *)
  found,      (* discovered_user_ids, in memory                                 *)
  state,      (* the collection state of the entity                             *)
  begun,      (* history: the runs whose job has read a page                    *)
  since,      (* history: what the list held at the job's first page            *)
  touched,    (* history: what happened since then                              *)
  disturbed

historyVars == <<begun, since, touched>>
vars == <<kind, list, row, job, found, state, historyVars, disturbed>>

Smaller(a, b) == IF a < b THEN a ELSE b
Items   == ToSet(Lists[kind]) \cup {Spare}
Stored  == {i \in Items : row[i].run # 0}
Current == {i \in Items : row[i].current}
Busy    == {"running", "enumerated", "collected"}

Init ==
  /\ kind \in DOMAIN Lists
  /\ list = Lists[kind]
  /\ row = [i \in Items |-> [run |-> 0, current |-> FALSE]]
  /\ job = [r \in Runs |-> [status |-> "pending", offset |-> 0, collected |-> 0]]
  /\ found = [r \in Runs |-> {}]
  /\ state = [run |-> 0, collected |-> 0, total |-> 0, denied |-> FALSE]
  /\ begun = {} /\ since = [r \in Runs |-> {}]
  /\ touched = [r \in Runs |-> {}]
  /\ disturbed = 0

-----------------------------------------------------------------------------
(* History: an event touches the jobs that have read a page.                *)

Touch(rs, event) == [s \in Runs |-> IF s \in rs THEN touched[s] \cup {event} ELSE touched[s]]

(* The answers to a request for count items: all of them, or one fewer.     *)
Answers(start, count) ==
  LET full == SubSeq(list, start + 1, Smaller(start + count, Len(list)))
  IN  {full} \cup IF full # <<>> /\ disturbed < MaxDisturbances THEN {Front(full)} ELSE {}

Asked(r, start, count, items) ==
  LET short == Len(items) < Smaller(count, Len(list) - start)
  IN  /\ begun' = begun \cup {r}
      /\ since' = IF r \in begun THEN since ELSE [since EXCEPT ![r] = ToSet(list)]
      /\ touched' = [Touch(begun \ {r}, "writer") EXCEPT ![r] =
                       @ \cup IF short THEN {"short"} ELSE {}]
      /\ disturbed' = disturbed + IF short THEN 1 ELSE 0

(* Faulty variant: the upsert keeps the run that stored the row first.      *)
UpsertKeepingRun(r, ids) ==
  [i \in Items |-> IF i \notin ids THEN row[i]
                   ELSE [run |-> IF row[i].run = 0 THEN r ELSE row[i].run, current |-> TRUE]]

(* Upsert of the rows of a page.                                            *)
Upsert(r, ids) == [i \in Items |-> IF i \in ids THEN [run |-> r, current |-> TRUE] ELSE row[i]]
(* Faulty variant: older rows stay as they are.                             *)
RetireNone(r, rows) == rows

(* Rows another run stored last are not current any more.                   *)
Retire(r, rows) ==
  [i \in Items |-> IF rows[i].run \notin {0, r} THEN [rows[i] EXCEPT !.current = FALSE] ELSE rows[i]]

Running(r, kinds) == kind \in kinds /\ job[r].status = "running"

-----------------------------------------------------------------------------
(* Faulty variant: the last page of a cut list retires the rest of it.      *)
WholeIfLast(last, next) == last

(* The page was the last one, and nothing lies beyond the maximum.          *)
WholeSnapshot(last, next) == last /\ next >= Len(list) /\ Len(list) <= Maximum

(* _collect_subscriptions: rows, state, checkpoint and, at the end of a     *)
(* whole snapshot, the retirement of older rows, in one transaction.        *)
LinksPage(r) ==
  /\ Running(r, {"links"}) /\ job[r].offset < Maximum
  /\ LET count == Smaller(PageSize, Maximum - job[r].offset) IN
     \E items \in Answers(job[r].offset, count) :
       LET next  == job[r].offset + Len(items)
           last  == next >= Maximum \/ next >= Len(list) \/ Len(items) < count
           rows  == Upsert(r, ToSet(items))
       IN  /\ row' = IF WholeSnapshot(last, next) THEN Retire(r, rows) ELSE rows
           /\ job' = [job EXCEPT ![r].offset = next,
                                 ![r].status = IF last THEN "collected" ELSE @]
           /\ state' = [run |-> r, collected |-> next, total |-> Len(list), denied |-> FALSE]
           /\ Asked(r, job[r].offset, count, items)
  /\ UNCHANGED <<kind, list, found>>

(* _collect_members, first phase: enumerate, keep the ids in memory.        *)
MembersPage(r) ==
  /\ Running(r, {"members", "baseline"}) /\ ~(kind = "baseline" /\ r = 1)
  /\ \E items \in Answers(job[r].offset, PageSize) :
       LET next == job[r].offset + Len(items)
           last == items = <<>> \/ next >= Len(list) \/ Len(items) < PageSize
       IN  /\ found' = [found EXCEPT ![r] = @ \cup ToSet(items)]
           /\ job' = [job EXCEPT ![r].offset = next,
                                 ![r].status = IF last THEN "enumerated" ELSE @]
           /\ Asked(r, job[r].offset, PageSize, items)
  /\ UNCHANGED <<kind, list, row, state>>

(* The seed depends on the group alone: one sample for one set of ids.      *)
Sample(ids) ==
  IF Cardinality(ids) <= SampleSize THEN ids
  ELSE CHOOSE s \in SUBSET ids : Cardinality(s) = SampleSize

(* Second phase: store the sample, retire the rest, "complete": True.       *)
MembersStore(r) ==
  /\ job[r].status = "enumerated"
  /\ row' = Retire(r, Upsert(r, Sample(found[r])))
  /\ job' = [job EXCEPT ![r].status = "collected"]
  /\ state' = [run |-> r, collected |-> Cardinality(Sample(found[r])),
               total |-> job[r].offset, denied |-> state.denied]
  /\ touched' = Touch(begun \ {r}, "writer")
  /\ UNCHANGED <<kind, list, found, begun, since, disturbed>>

(* _fast_top_up_members: one page in VK's order, nothing retired; a group   *)
(* with fewer members is marked unavailable.                                *)
TopUp(r) ==
  /\ Running(r, {"baseline"}) /\ r = 1
  /\ \E items \in Answers(0, PageSize) :
       /\ row' = IF Len(list) < PageSize THEN row ELSE Upsert(r, ToSet(items))
       /\ state' = IF Len(list) < PageSize THEN [state EXCEPT !.run = r, !.denied = TRUE]
                   ELSE [run |-> r, collected |-> Len(items), total |-> Len(list), denied |-> state.denied]
       /\ Asked(r, 0, PageSize, items)
  /\ job' = [job EXCEPT ![r].status = "collected"]
  /\ UNCHANGED <<kind, list, found>>

(* _collect_posts: posts and checkpoint in one transaction.                 *)
WallPage(r) ==
  /\ Running(r, {"wall"}) /\ job[r].offset < Maximum
  /\ LET count == Smaller(PageSize, Maximum - job[r].offset) IN
     \E items \in Answers(job[r].offset, count) :
       LET next == job[r].offset + Len(items)
           last == items = <<>> \/ next >= Len(list) \/ Len(items) < count
       IN  /\ row' = Upsert(r, ToSet(items))
           /\ job' = [job EXCEPT ![r].offset = next, ![r].collected = next,
                                 ![r].status = IF last THEN "collected" ELSE @]
           /\ Asked(r, job[r].offset, count, items)
  /\ UNCHANGED <<kind, list, found, state>>

(* Faulty variant: an old pinned post ends the collection.                  *)
BeyondPinned(posts) == {i \in DOMAIN posts : posts[i] \in Old}

(* _collect_subscription_posts: one request for the newest posts, and all   *)
(* of its results in one transaction.                                       *)
LatestPosts(r) ==
  /\ Running(r, {"latest"})
  /\ \E items \in Answers(0, Maximum) :
       /\ row' = Upsert(r, ToSet(items))
       /\ job' = [job EXCEPT ![r].offset = Len(items), ![r].status = "collected"]
       /\ state' = [run |-> r, collected |-> Len(items), total |-> 0, denied |-> FALSE]
       /\ Asked(r, 0, Maximum, items)
  /\ UNCHANGED <<kind, list, found>>

(* The posts of a page up to the first one before the cutoff; the pinned    *)
(* post does not count as that one.                                         *)
Beyond(posts) == {i \in DOMAIN posts : posts[i] \in Old \ Pinned}
Fresh(posts)  == {posts[i] : i \in {k \in DOMAIN posts :
                    posts[k] \notin Old /\ \A b \in Beyond(posts) : k < b}}

(* _collect_user_posts: the maximum counts the posts that were kept.        *)
UserWallPage(r) ==
  /\ Running(r, {"userWall"}) /\ job[r].collected < Maximum
  /\ LET count == Smaller(PageSize, Maximum - job[r].collected) IN
     \E items \in Answers(job[r].offset, count) :
       LET next == job[r].offset + Len(items)
           kept == job[r].collected + Cardinality(Fresh(items))
           last == \/ items = <<>> \/ Beyond(items) # {} \/ kept >= Maximum
                   \/ next >= Len(list) \/ Len(items) < count
       IN  /\ row' = Upsert(r, Fresh(items))
           /\ job' = [job EXCEPT ![r].offset = next, ![r].collected = kept,
                                 ![r].status = IF last THEN "collected" ELSE @]
           /\ Asked(r, job[r].offset, count, items)
  /\ UNCHANGED <<kind, list, found, state>>

-----------------------------------------------------------------------------
(* Claiming the job, and finishing it.                                      *)
Start(r) ==
  /\ job[r].status = "pending"
  /\ job' = [job EXCEPT ![r].status = "running"]
  /\ UNCHANGED <<kind, list, row, found, state, historyVars, disturbed>>

(* A checkpoint at the maximum ends the loop before it begins.              *)
AtMaximum(r) ==
  /\ job[r].status = "running"
  /\ \/ kind \in {"links", "wall"} /\ job[r].offset >= Maximum
     \/ kind = "userWall" /\ job[r].collected >= Maximum

(* The walls write their collection state in a transaction of its own.      *)
Conclude(r) ==
  /\ job[r].status = "collected" \/ AtMaximum(r)
  /\ job' = [job EXCEPT ![r].status = "done"]
  /\ state' = IF kind \notin {"wall", "userWall"} THEN state
              ELSE [run |-> r, collected |-> job[r].collected, total |-> 0, denied |-> FALSE]
  /\ UNCHANGED <<kind, list, row, found, historyVars, disturbed>>

(* VK denies access for good: _mark_subscriptions_terminal,                 *)
(* _mark_user_post_failure, _mark_post_failure.  The counts stay.           *)
Denied(r) ==
  /\ Running(r, {"links", "wall", "userWall", "latest"}) /\ disturbed < MaxDisturbances
  /\ job' = [job EXCEPT ![r].status = "skipped"]
  /\ state' = [state EXCEPT !.run = r, !.denied = TRUE]
  /\ disturbed' = disturbed + 1
  /\ UNCHANGED <<kind, list, row, found, historyVars>>

(* The attempt ends; committed pages and the checkpoint stay.               *)
Interrupt(r) ==
  /\ job[r].status \in Busy /\ disturbed < MaxDisturbances
  /\ job' = [job EXCEPT ![r].status = "pending"]
  /\ found' = [found EXCEPT ![r] = {}]
  /\ touched' = IF job[r].offset > 0 THEN Touch({r}, "resumed") ELSE touched
  /\ disturbed' = disturbed + 1
  /\ UNCHANGED <<kind, list, row, state, begun, since>>

(* VK: an item appears at the top, below the pinned post, or one is removed.*)
Top == IF list # <<>> /\ list[1] \in Pinned THEN 2 ELSE 1

ListChanges ==
  /\ disturbed < MaxDisturbances
  /\ \/ /\ Spare \notin ToSet(list)
        /\ list' = InsertAt(list, Top, Spare)
        /\ touched' = Touch(begun, "appeared")
     \/ \E i \in DOMAIN list :
          /\ list' = RemoveAt(list, i)
          /\ touched' = Touch(begun, "removed")
  /\ disturbed' = disturbed + 1
  /\ UNCHANGED <<kind, row, job, found, state, begun, since>>

Next ==
  \/ \E r \in Runs :
       \/ Start(r) \/ Conclude(r) \/ Denied(r) \/ Interrupt(r)
       \/ LinksPage(r) \/ MembersPage(r) \/ MembersStore(r) \/ TopUp(r)
       \/ WallPage(r) \/ UserWallPage(r) \/ LatestPosts(r)
  \/ ListChanges

-----------------------------------------------------------------------------
(* Properties.                                                              *)

(* Nothing else happened to the list or its rows since the job began.       *)
Alone(r) == touched[r] \cap {"writer", "appeared", "removed"} = {}

(* A state that reports as many links as VK does is right: over every       *)
(* interruption and resumption, and whatever was stored before, the links   *)
(* marked current are those the user has.                                   *)
LinksExact ==
  \A r \in Runs :
    /\ kind = "links" /\ Alone(r) /\ state.run = r /\ ~state.denied
    /\ state.collected = state.total /\ state.total <= Maximum
    => Current = ToSet(list)

(* No link the user still has is retired, however the list was cut: by the  *)
(* maximum, by a short page, by an interruption.                            *)
LinksStayMarked ==
  \A r \in Runs : kind = "links" /\ job'[r] # job[r] /\ Alone(r)
    => Current \cap ToSet(list) \subseteq Current'
LinksKept == [][LinksStayMarked]_vars

(* The members stored by a job that was not resumed half-way are the sample *)
(* of all members, and all older ones are retired.                          *)
SampleOfAll ==
  \A r \in Runs :
    /\ kind \in {"members", "baseline"} /\ job[r].status \in {"collected", "done"}
    /\ touched[r] = {} /\ state.run = r /\ ~(kind = "baseline" /\ r = 1)
    => Current = Sample(ToSet(list))

(* Posts that appear between two pages, or between two attempts, repeat     *)
(* others and hide none: of the newest posts, those that were there when    *)
(* the job began are stored when it is done.                                *)
Visible(p) == kind = "userWall" => list[p] \notin Old
Newest ==
  {list[p] : p \in {q \in DOMAIN list :
     Visible(q) /\ Cardinality({s \in 1 .. q - 1 : Visible(s)}) < Maximum}}

PostsKept ==
  \A r \in Runs :
    /\ kind \in {"wall", "userWall", "latest"} /\ job[r].status = "done"
    /\ touched[r] \cap {"removed", "short"} = {}
    => Newest \cap since[r] \subseteq Stored

(* The comment in _collect_members: "the sample is always complete relative *)
(* to the full membership known at this run".                               *)
SampleAlwaysComplete ==
  \A r \in Runs :
    /\ kind = "members" /\ job[r].status \in {"collected", "done"}
    /\ touched[r] \subseteq {"resumed"} /\ state.run = r
    => Current = Sample(ToSet(list))
=============================================================================
