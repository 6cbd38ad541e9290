--------------------------- MODULE PageJobsProofs ---------------------------
(***************************************************************************)
(* Theorems about PageJobs, for any lists, runs, page and sample sizes,    *)
(* maximum and number of disturbances.                                     *)
(***************************************************************************)
EXTENDS PageJobs, FiniteSetTheorems, TLAPS

Events    == {"writer", "short", "resumed", "appeared", "removed"}
JobStatus == Busy \cup {"pending", "done", "skipped"}
Row       == [run: Nat, current: BOOLEAN]
JobRow    == [status: JobStatus, offset: Nat, collected: Nat]

PageTypes ==
  /\ kind \in DOMAIN Lists /\ list \in Seq(Items)
  /\ row \in [Items -> Row] /\ job \in [Runs -> JobRow]
  /\ found \in [Runs -> SUBSET Items]
  /\ state \in [run: Nat, collected: Nat, total: Nat, denied: BOOLEAN]
  /\ begun \subseteq Runs /\ since \in [Runs -> SUBSET Items]
  /\ touched \in [Runs -> SUBSET Events] /\ disturbed \in Nat

(* A row was stored by a run that has begun, or does not exist; a job that  *)
(* has not begun has left nothing; and only members are enumerated first.   *)
RowsHaveRuns ==
  \A i \in Items : IF row[i].run = 0 THEN ~row[i].current ELSE row[i].run \in begun
NothingBefore ==
  \A r \in Runs : r \notin begun =>
    /\ job[r].status # "enumerated" /\ job[r].offset = 0 /\ job[r].collected = 0
    /\ found[r] = {} /\ since[r] = {} /\ touched[r] = {}
Enumerating ==
  \A r \in Runs : job[r].status = "enumerated" => kind \in {"members", "baseline"}

(* The first items of the list, up to the checkpoint, are the job's; no     *)
(* other item is; and at the end of a whole list no other row is current.   *)
LinksOf(r) ==
  /\ \A p \in 1 .. job[r].offset :
       p \in DOMAIN list /\ row[list[p]] = [run |-> r, current |-> TRUE]
  /\ \A i \in Items : row[i].run = r => i \in ToSet(list)
  /\ r \in begun /\ job[r].offset >= Len(list) /\ Len(list) <= Maximum =>
       \A i \in Items : row[i].run \notin {0, r} => ~row[i].current
  /\ state.run = r /\ ~state.denied =>
       r \in begun /\ state.collected = job[r].offset /\ state.total = Len(list)
LinksInv == kind = "links" => \A r \in Runs : Alone(r) => LinksOf(r)

(* A job that met no event has in memory the list up to its offset, and in  *)
(* the table nothing or the sample.                                         *)
MembersOf(r) ==
  /\ job[r].offset <= Len(list)
  /\ found[r] = {list[p] : p \in 1 .. job[r].offset}
  /\ job[r].status \in {"enumerated", "collected", "done"} =>
       r \in begun /\ job[r].offset = Len(list)
  /\ \A i \in Items : row[i].run = r => i \in Sample(ToSet(list))
  /\ job[r].status \in {"collected", "done"} => Current = Sample(ToSet(list))
MembersInv ==
  \A r \in Runs :
    kind \in {"members", "baseline"} /\ touched[r] = {} /\ ~(kind = "baseline" /\ r = 1) =>
      MembersOf(r)

(* A user's wall stays in order, and a job has not gone beyond its cutoff   *)
(* and has counted what it kept, until all it has to store is stored.       *)
WallInOrder == kind = "userWall" => InOrder(list)
NewestAt(q) == Visible(q) /\ Cardinality({s \in 1 .. q - 1 : Visible(s)}) < Maximum
NewestStored(r) == Newest \cap since[r] \subseteq Stored
Undisturbed(r) == touched[r] \cap {"removed", "short"} = {}
Counted(r) ==
  /\ \A p \in 1 .. job[r].offset : list[p] \notin Old \ Pinned
  /\ job[r].collected = Cardinality({p \in 1 .. job[r].offset : Visible(p)})
PostsOf(r) ==
  /\ since[r] \subseteq ToSet(list) /\ job[r].offset <= Len(list)
  /\ \A p \in 1 .. job[r].offset : Visible(p) /\ list[p] \in since[r] => list[p] \in Stored
  /\ job[r].status \in {"collected", "done"} => NewestStored(r)
  /\ kind = "userWall" => NewestStored(r) \/ Counted(r)
PostsInv ==
  \A r \in Runs : kind \in {"wall", "userWall", "latest"} /\ Undisturbed(r) => PostsOf(r)

PagesInv == /\ PageTypes /\ RowsHaveRuns /\ NothingBefore /\ Enumerating
            /\ LinksInv /\ MembersInv /\ WallInOrder /\ PostsInv
-----------------------------------------------------------------------------
(* Lists, answers and history.                                              *)

LEMMA ItemFacts ==
  ASSUME PagesAssumption, kind \in DOMAIN Lists
  PROVE  Items \subseteq Nat /\ IsFiniteSet(Items) /\ ToSet(Lists[kind]) \subseteq Items
<1>1. Lists[kind] \in Seq(Nat) /\ Spare \in Nat
  BY DEF PagesAssumption
<1>2. ToSet(Lists[kind]) \subseteq Nat
  BY <1>1 DEF ToSet
<1>3. IsFiniteSet(ToSet(Lists[kind]))
  <2>1. IsFiniteSet(DOMAIN Lists[kind])
    BY <1>1, FS_Interval
  <2> DEFINE S == Lists[kind]
  <2>2. ToSet(S) = {S[i] : i \in DOMAIN S}
    BY DEF ToSet
  <2> HIDE DEF S
  <2>3. IsFiniteSet({S[i] : i \in DOMAIN S})
    <3>1. S = [i \in DOMAIN S |-> S[i]]
      BY <1>1 DEF S
    <3>2. S \in Surjection(DOMAIN S, {S[i] : i \in DOMAIN S})
      BY <3>1 DEF Surjection
    <3> QED BY <2>1, <3>2, FS_Surjection DEF S
  <2> QED BY <2>2, <2>3 DEF S
<1> QED BY <1>1, <1>2, <1>3, FS_AddElement DEF Items

LEMMA SetOfSeq ==
  ASSUME NEW S, NEW s \in Seq(S)
  PROVE  ToSet(s) = {s[k] : k \in 1 .. Len(s)} /\ ToSet(s) \subseteq S
  BY DEF ToSet

(* An answer is a part of the list; it is short if there was more to send.  *)
LEMMA AnswerFacts ==
  ASSUME PageTypes, NEW start \in Nat, NEW count \in Nat, NEW items \in Answers(start, count)
  PROVE  /\ items \in Seq(Items) /\ Len(items) <= count
         /\ \A k \in 1 .. Len(items) : start + k \in DOMAIN list /\ items[k] = list[start + k]
         /\ start + Len(items) <= Len(list) \/ Len(items) = 0
         /\ Smaller(count, Len(list) - start) \in Int
         /\ Len(items) < Smaller(count, Len(list) - start)
              \/ (start < Len(list) => Len(items) = Smaller(count, Len(list) - start))
<1> DEFINE full == SubSeq(list, start + 1, Smaller(start + count, Len(list)))
           n == Smaller(start + count, Len(list)) - start
<1>1. /\ list \in Seq(Items) /\ Len(list) \in Nat
      /\ Smaller(start + count, Len(list)) \in Nat
      /\ Smaller(count, Len(list) - start) \in Int
  BY DEF PageTypes, Smaller
<1>2. /\ full \in Seq(Items) /\ Len(full) = (IF n > 0 THEN n ELSE 0)
      /\ \A k \in 1 .. Len(full) : start + k \in DOMAIN list /\ full[k] = list[start + k]
  <2>1. start + 1 \in Nat \ {0} /\ Smaller(start + count, Len(list)) <= Len(list)
    BY <1>1 DEF Smaller
  <2> HIDE DEF n
  <2>2. full \in Seq(Items)
    BY <1>1, <2>1
  <2>3. Len(full) = (IF n > 0 THEN n ELSE 0)
    BY <1>1, <2>1 DEF n
  <2>4. ASSUME NEW k \in 1 .. Len(full)
        PROVE  start + k \in DOMAIN list /\ full[k] = list[start + k]
    <3>1. Len(full) = n /\ k \in 1 .. n
      BY <1>1, <2>3 DEF n
    <3>2. start + k \in 1 .. Len(list) /\ k + (start + 1) - 1 = start + k
      BY <1>1, <2>1, <3>1 DEF n
    <3>3. full[k] = list[k + (start + 1) - 1]
      BY <1>1, <2>1, <3>1 DEF n
    <3> QED BY <1>1, <3>2, <3>3
  <2> QED BY <2>2, <2>3, <2>4
<1>3. /\ n \in Int /\ n <= count /\ start + n <= Len(list)
      /\ n = Smaller(count, Len(list) - start) /\ (start < Len(list) => n >= 0)
  BY <1>1 DEF Smaller
<1>4. CASE items = full
  <2> HIDE DEF full, n
  <2>1. start < Len(list) => Len(items) = n
    BY <1>2, <1>3, <1>4
  <2>2. Len(items) <= count /\ (start + Len(items) <= Len(list) \/ Len(items) = 0)
    BY <1>2, <1>3, <1>4
  <2> QED BY <1>1, <1>2, <1>3, <1>4, <2>1, <2>2
<1>5. CASE full # <<>> /\ items = Front(full)
  <2> HIDE DEF full
  <2>1. Len(full) \in Nat /\ Len(full) > 0
    BY <1>2, <1>5
  <2>2. items \in Seq(Items) /\ Len(items) = Len(full) - 1
        /\ \A k \in 1 .. Len(items) : items[k] = full[k]
    BY <1>2, <1>5, <2>1 DEF Front
  <2>3. Len(full) = n /\ n \in Int
    BY <1>1, <1>2, <2>1
  <2> HIDE DEF n
  <2>4. Len(items) < n /\ Len(items) <= count /\ start + Len(items) <= Len(list)
    BY <1>1, <1>3, <2>1, <2>2, <2>3
  <2>5. \A k \in 1 .. Len(items) : k \in 1 .. Len(full)
    BY <2>1, <2>2
  <2> HIDE DEF full
  <2> QED BY <1>1, <1>2, <1>3, <2>2, <2>4, <2>5
<1>6. items = full \/ (full # <<>> /\ items = Front(full))
  BY DEF Answers
<1> QED BY <1>4, <1>5, <1>6

LEMMA TouchFacts ==
  ASSUME PageTypes, NEW rs \in SUBSET Runs, NEW event \in Events
  PROVE  /\ Touch(rs, event) \in [Runs -> SUBSET Events]
         /\ \A s \in Runs : Touch(rs, event)[s] =
              IF s \in rs THEN touched[s] \cup {event} ELSE touched[s]
  BY DEF PageTypes, Touch

(* What a request adds to the history.                                      *)
LEMMA AskedFacts ==
  ASSUME PageTypes, NEW r \in Runs, NEW start \in Nat, NEW count \in Nat,
         NEW items \in Seq(Items), Asked(r, start, count, items)
  PROVE  /\ begun' = begun \cup {r} /\ disturbed' \in Nat
         /\ since' \in [Runs -> SUBSET Items] /\ touched' \in [Runs -> SUBSET Events]
         /\ \A s \in Runs \ {r} :
              /\ since'[s] = since[s]
              /\ touched'[s] = IF s \in begun THEN touched[s] \cup {"writer"} ELSE touched[s]
         /\ since'[r] = IF r \in begun THEN since[r] ELSE ToSet(list)
         /\ touched'[r] = touched[r] \cup
              (IF Len(items) < Smaller(count, Len(list) - start) THEN {"short"} ELSE {})
<1>1. ToSet(list) \in SUBSET Items
  BY SetOfSeq DEF PageTypes
<1>2. begun \ {r} \in SUBSET Runs /\ "writer" \in Events /\ "short" \in Events
  BY DEF PageTypes, Events
<1> DEFINE T == Touch(begun \ {r}, "writer")
<1>3. /\ T \in [Runs -> SUBSET Events]
      /\ \A s \in Runs : T[s] = IF s \in begun \ {r} THEN touched[s] \cup {"writer"} ELSE touched[s]
  BY <1>2, TouchFacts
<1>4. touched' = [T EXCEPT ![r] = @ \cup
        (IF Len(items) < Smaller(count, Len(list) - start) THEN {"short"} ELSE {})]
  BY DEF Asked
<1>5. begun' = begun \cup {r} /\ disturbed' \in Nat
  BY DEF Asked, PageTypes
<1>6. since' = IF r \in begun THEN since ELSE [since EXCEPT ![r] = ToSet(list)]
  BY DEF Asked
<1> HIDE DEF T
<1> QED BY <1>1, <1>2, <1>3, <1>4, <1>5, <1>6 DEF PageTypes

LEMMA ConcatFacts ==
  ASSUME NEW S, NEW s \in Seq(S), NEW t \in Seq(S)
  PROVE  /\ s \o t \in Seq(S) /\ Len(s \o t) = Len(s) + Len(t)
         /\ \A q \in 1 .. Len(s) + Len(t) :
              (s \o t)[q] = IF q <= Len(s) THEN s[q] ELSE t[q - Len(s)]
  OBVIOUS

LEMMA InsertFacts ==
  ASSUME NEW S, NEW s \in Seq(S), NEW e \in S, NEW i \in 1 .. Len(s) + 1
  PROVE  /\ InsertAt(s, i, e) \in Seq(S) /\ Len(InsertAt(s, i, e)) = Len(s) + 1
         /\ \A q \in 1 .. Len(s) + 1 :
              InsertAt(s, i, e)[q] = IF q < i THEN s[q] ELSE IF q = i THEN e ELSE s[q - 1]
<1> DEFINE a == SubSeq(s, 1, i - 1)
           c == SubSeq(s, i, Len(s))
           b == a \o <<e>>
           w == b \o c
<1>1. /\ a \in Seq(S) /\ Len(a) = i - 1 /\ \A q \in 1 .. i - 1 : a[q] = s[q]
      /\ c \in Seq(S) /\ Len(c) = Len(s) - i + 1
      /\ \A q \in 1 .. Len(c) : c[q] = s[i + q - 1]
  OBVIOUS
<1>2. InsertAt(s, i, e) = w
  BY DEF InsertAt
<1> HIDE DEF a, c
<1>3. b \in Seq(S) /\ Len(b) = i /\ \A q \in 1 .. i : b[q] = IF q < i THEN s[q] ELSE e
  BY <1>1
<1> HIDE DEF b
<1>4. w \in Seq(S) /\ Len(w) = Len(b) + Len(c)
      /\ \A q \in 1 .. Len(b) + Len(c) : w[q] = IF q <= Len(b) THEN b[q] ELSE c[q - Len(b)]
  BY <1>1, <1>3, ConcatFacts
<1> HIDE DEF w
<1>5. /\ Len(s) \in Nat /\ i \in Nat /\ Len(c) = Len(s) - i + 1
      /\ Len(b) + Len(c) = Len(s) + 1
  BY <1>1, <1>3
<1>6. ASSUME NEW q \in 1 .. Len(s) + 1
      PROVE  w[q] = IF q < i THEN s[q] ELSE IF q = i THEN e ELSE s[q - 1]
  <2>1. CASE q <= i
    BY <1>3, <1>4, <1>5, <2>1
  <2>2. CASE q > i
    <3>1. q - i \in 1 .. Len(c) /\ i + (q - i) - 1 = q - 1
      BY <1>5, <2>2
    <3>2. c[q - i] = s[q - 1]
      BY <1>1, <3>1
    <3> QED BY <1>3, <1>4, <1>5, <2>2, <3>2
  <2> QED BY <1>5, <2>1, <2>2
<1> QED BY <1>2, <1>4, <1>5, <1>6

LEMMA RemoveFacts ==
  ASSUME NEW S, NEW s \in Seq(S), NEW i \in DOMAIN s
  PROVE  /\ RemoveAt(s, i) \in Seq(S) /\ Len(RemoveAt(s, i)) = Len(s) - 1
         /\ \A q \in 1 .. Len(s) - 1 :
              RemoveAt(s, i)[q] = IF q < i THEN s[q] ELSE s[q + 1]
<1> DEFINE a == SubSeq(s, 1, i - 1)
           c == SubSeq(s, i + 1, Len(s))
           w == a \o c
<1>1. /\ a \in Seq(S) /\ Len(a) = i - 1 /\ \A q \in 1 .. i - 1 : a[q] = s[q]
      /\ c \in Seq(S) /\ Len(c) = Len(s) - i
      /\ \A q \in 1 .. Len(c) : c[q] = s[i + q]
  OBVIOUS
<1>2. RemoveAt(s, i) = w
  BY DEF RemoveAt
<1> HIDE DEF a, c
<1>3. w \in Seq(S) /\ Len(w) = Len(a) + Len(c)
      /\ \A q \in 1 .. Len(a) + Len(c) : w[q] = IF q <= Len(a) THEN a[q] ELSE c[q - Len(a)]
  BY <1>1, ConcatFacts
<1> HIDE DEF w
<1>4. Len(s) \in Nat /\ i \in Nat /\ Len(c) = Len(s) - i /\ Len(a) + Len(c) = Len(s) - 1
  BY <1>1
<1>5. ASSUME NEW q \in 1 .. Len(s) - 1 PROVE w[q] = IF q < i THEN s[q] ELSE s[q + 1]
  <2>a. Len(a) = i - 1 /\ q \in 1 .. Len(a) + Len(c)
    BY <1>1, <1>4
  <2>b. w[q] = IF q <= Len(a) THEN a[q] ELSE c[q - Len(a)]
    BY <1>3, <2>a
  <2>1. CASE q < i
    <3>1. q <= Len(a) /\ q \in 1 .. i - 1
      BY <1>4, <2>a, <2>1
    <3>2. a[q] = s[q]
      BY <1>1, <3>1
    <3> QED BY <2>b, <2>1, <3>1, <3>2
  <2>2. CASE q >= i
    <3>1. q - (i - 1) \in 1 .. Len(c) /\ i + (q - (i - 1)) = q + 1
      BY <1>4, <2>2
    <3>2. c[q - (i - 1)] = s[q + 1]
      BY <1>1, <3>1
    <3>3. ~(q <= Len(a)) /\ ~(q < i) /\ q - Len(a) = q - (i - 1)
      <4>1. q \in Int /\ i \in Int /\ Len(a) = i - 1
        BY <1>4, <2>a
      <4> QED BY <2>2, <4>1
    <3> QED BY <2>b, <3>2, <3>3
  <2> QED BY <1>4, <2>1, <2>2
<1> QED BY <1>2, <1>3, <1>4, <1>5

LEMMA TopFacts == ASSUME PageTypes PROVE Top \in 1 .. Len(list) + 1
  BY DEF PageTypes, Top

LEMMA AnswersAreItems ==
  ASSUME PageTypes, NEW start \in Nat, NEW count \in Nat, NEW items \in Answers(start, count)
  PROVE  items \in Seq(Items) /\ Len(items) \in Nat
<1>1. items \in Seq(Items)
  BY AnswerFacts
<1> QED BY <1>1

-----------------------------------------------------------------------------
(* Types.                                                                   *)

LEMMA RowsTypes ==
  ASSUME PagesAssumption, NEW rows \in [Items -> Row], NEW r \in Runs
  PROVE  Retire(r, rows) \in [Items -> Row]
  BY DEF PagesAssumption, Retire, Row

LEMMA UpsertTypes ==
  ASSUME PagesAssumption, PageTypes, NEW r \in Runs, NEW ids
  PROVE  Upsert(r, ids) \in [Items -> Row]
  BY DEF PagesAssumption, PageTypes, Upsert, Row

LEMMA FreshFacts ==
  ASSUME PagesAssumption, kind \in DOMAIN Lists, NEW posts \in Seq(Items)
  PROVE  Fresh(posts) \subseteq Items /\ Cardinality(Fresh(posts)) \in Nat
<1>1. Fresh(posts) \subseteq Items
  BY DEF Fresh
<1> QED BY <1>1, ItemFacts, FS_Subset, FS_CardinalityType

(* A sample is taken from its set.                                          *)
LEMMA SampleFacts ==
  ASSUME PagesAssumption, NEW ids, IsFiniteSet(ids)
  PROVE  Sample(ids) \subseteq ids /\ IsFiniteSet(Sample(ids)) /\ Cardinality(Sample(ids)) \in Nat
<1>1. ASSUME Cardinality(ids) > SampleSize
      PROVE  \E s \in SUBSET ids : Cardinality(s) = SampleSize
  <2>1. Cardinality(ids) \in Nat /\ SampleSize \in Nat
    BY FS_CardinalityType DEF PagesAssumption
  <2>2. PICK f : f \in Bijection(1 .. Cardinality(ids), ids)
    BY FS_CardinalityType, FS_Bijection DEF ExistsBijection
  <2> DEFINE s == {f[k] : k \in 1 .. SampleSize}
             g == [k \in 1 .. SampleSize |-> f[k]]
  <2>3. \A k \in 1 .. SampleSize : k \in 1 .. Cardinality(ids)
    BY <1>1, <2>1
  <2>4. s \subseteq ids
    BY <2>2, <2>3 DEF Bijection, Injection
  <2>5. g \in Bijection(1 .. SampleSize, s)
    <3>1. \A k \in 1 .. SampleSize : f[k] \in s /\ g[k] = f[k]
      OBVIOUS
    <3>2. \A j, k \in 1 .. SampleSize : f[j] = f[k] => j = k
      BY <2>2, <2>3 DEF Bijection, Injection, IsInjective
    <3>3. g \in [1 .. SampleSize -> s] /\ \A x \in s : \E k \in 1 .. SampleSize : g[k] = x
      BY <3>1
    <3>4. IsInjective(g)
      BY <3>1, <3>2 DEF IsInjective
    <3> HIDE DEF g, s
    <3> QED BY <3>3, <3>4 DEF Bijection, Injection, Surjection
  <2>6. IsFiniteSet(1 .. SampleSize) /\ Cardinality(1 .. SampleSize) = SampleSize
    BY <2>1, FS_Interval
  <2> HIDE DEF s, g
  <2>7. Cardinality(s) = SampleSize
    <3>1. ExistsBijection(1 .. SampleSize, s)
      BY <2>5 DEF ExistsBijection
    <3>2. Cardinality(1 .. SampleSize) = Cardinality(s)
      BY <2>6, <3>1, FS_Bijection
    <3> QED BY <2>6, <3>2
  <2> QED BY <2>4, <2>7
<1>2. Sample(ids) \subseteq ids
  BY <1>1, FS_CardinalityType DEF Sample, PagesAssumption
<1> QED BY <1>2, FS_Subset, FS_CardinalityType
LEMMA TypesInit ==
  ASSUME PagesAssumption, Init
  PROVE  PageTypes
<1>1. kind \in DOMAIN Lists /\ list = Lists[kind] /\ ToSet(Lists[kind]) \subseteq Items
  BY ItemFacts DEF Init
<1>2. list \in Seq(Items)
  <2>1. list \in Seq(Nat)
    BY <1>1 DEF PagesAssumption
  <2>2. \A k \in 1 .. Len(list) : list[k] \in Items
    BY <1>1, <2>1, SetOfSeq
  <2> QED BY <2>1, <2>2
<1> QED BY <1>1, <1>2 DEF Init, PageTypes, Row, JobRow, JobStatus, Busy, Events

LEMMA JobTypes ==
  ASSUME PageTypes, NEW r \in Runs, NEW st \in JobStatus
  PROVE  /\ [job EXCEPT ![r].status = st] \in [Runs -> JobRow]
         /\ \A n \in Nat : [job EXCEPT ![r].offset = n, ![r].status = st] \in [Runs -> JobRow]
         /\ \A n, c \in Nat :
              [job EXCEPT ![r].offset = n, ![r].collected = c, ![r].status = st] \in [Runs -> JobRow]
<1>1. job \in [Runs -> JobRow] /\ job[r] \in JobRow
  BY DEF PageTypes
<1>2. ASSUME NEW n \in Nat, NEW c \in Nat
      PROVE  /\ [job[r] EXCEPT !.offset = n, !.status = st] \in JobRow
             /\ [job[r] EXCEPT !.offset = n, !.collected = c, !.status = st] \in JobRow
             /\ [job[r] EXCEPT !.status = st] \in JobRow
  BY <1>1 DEF JobRow
<1>3. ASSUME NEW n \in Nat, NEW c \in Nat
      PROVE  /\ [job EXCEPT ![r].status = st] = [job EXCEPT ![r] = [@ EXCEPT !.status = st]]
             /\ [job EXCEPT ![r].offset = n, ![r].status = st]
                  = [job EXCEPT ![r] = [@ EXCEPT !.offset = n, !.status = st]]
             /\ [job EXCEPT ![r].offset = n, ![r].collected = c, ![r].status = st]
                  = [job EXCEPT ![r] = [@ EXCEPT !.offset = n, !.collected = c, !.status = st]]
  BY <1>1
<1>4. 0 \in Nat
  OBVIOUS
<1> QED BY <1>1, <1>2, <1>3, <1>4, Zenon

LEMMA TypesNext ==
  ASSUME PagesAssumption, PageTypes, [Next]_vars
  PROVE  PageTypes'
<1> USE PagesAssumption
<1>a. kind \in DOMAIN Lists /\ UNCHANGED kind /\ UNCHANGED Items
  BY Zenon DEF PageTypes, Next, vars, historyVars, Start, Conclude, Denied, Interrupt, LinksPage,
     MembersPage, MembersStore, TopUp, WallPage, UserWallPage, LatestPosts, ListChanges, Items
<1>b. /\ "collected" \in JobStatus /\ "enumerated" \in JobStatus /\ "running" \in JobStatus
      /\ "done" \in JobStatus /\ "pending" \in JobStatus /\ "skipped" \in JobStatus
      /\ "writer" \in Events /\ "resumed" \in Events /\ "appeared" \in Events
      /\ "removed" \in Events /\ PageSize \in Nat /\ Maximum \in Nat /\ SampleSize \in Nat
      /\ Runs \subseteq Nat
  BY DEF JobStatus, Busy, Events, PagesAssumption
<1>c. \A r \in Runs : /\ job[r].status \in JobStatus /\ job[r].offset \in Nat
                      /\ job[r].collected \in Nat
  BY DEF PageTypes, JobRow
<1>1. ASSUME NEW r \in Runs, Start(r) \/ Conclude(r) \/ Denied(r) PROVE PageTypes'
  <2>1. PICK st \in JobStatus : job' = [job EXCEPT ![r].status = st]
    BY <1>1, <1>b DEF Start, Conclude, Denied
  <2>2. job' \in [Runs -> JobRow]
    BY <1>a, <1>b, <2>1, JobTypes, Zenon
  <2>3. state' \in [run: Nat, collected: Nat, total: Nat, denied: BOOLEAN]
    <3>1. \/ state' = state \/ state' = [state EXCEPT !.run = r, !.denied = TRUE]
          \/ state' = [run |-> r, collected |-> job[r].collected, total |-> 0, denied |-> FALSE]
      BY <1>1 DEF Start, Conclude, Denied
    <3>2. /\ state \in [run: Nat, collected: Nat, total: Nat, denied: BOOLEAN] /\ r \in Nat
          /\ job[r].collected \in Nat
      BY <1>b, <1>c DEF PageTypes
    <3>3. state' = [state EXCEPT !.run = r, !.denied = TRUE] =>
            state' \in [run: Nat, collected: Nat, total: Nat, denied: BOOLEAN]
      BY <3>2
    <3>4. [run |-> r, collected |-> job[r].collected, total |-> 0, denied |-> FALSE]
            \in [run: Nat, collected: Nat, total: Nat, denied: BOOLEAN]
      BY <3>2
    <3> QED BY <3>1, <3>2, <3>3, <3>4
  <2>4. disturbed' \in Nat
    BY <1>1 DEF PageTypes, Start, Conclude, Denied
  <2> QED BY <1>1, <1>a, <2>2, <2>3, <2>4 DEF PageTypes, Start, Conclude, Denied, historyVars
<1>2. ASSUME NEW r \in Runs, Interrupt(r) PROVE PageTypes'
  <2>1. job' \in [Runs -> JobRow]
    BY <1>2, <1>a, <1>b, JobTypes, Zenon DEF Interrupt
  <2>2. touched' \in [Runs -> SUBSET Events]
    <3>1. Touch({r}, "resumed") \in [Runs -> SUBSET Events]
      <4>1. {r} \in SUBSET Runs
        OBVIOUS
      <4> QED BY <1>b, <4>1, TouchFacts
    <3> QED BY <1>2, <3>1 DEF Interrupt, PageTypes
  <2>3. found' \in [Runs -> SUBSET Items] /\ disturbed' \in Nat
    BY <1>2 DEF Interrupt, PageTypes
  <2> QED BY <1>2, <1>a, <2>1, <2>2, <2>3 DEF PageTypes, Interrupt
<1>3. ASSUME NEW r \in Runs, LinksPage(r) PROVE PageTypes'
  <2> DEFINE count == Smaller(PageSize, Maximum - job[r].offset)
  <2>1. count \in Nat /\ job[r].offset \in Nat
    BY <1>3, <1>b, <1>c DEF LinksPage, Smaller
  <2>2. PICK items \in Answers(job[r].offset, count) :
          LET next  == job[r].offset + Len(items)
              last  == next >= Maximum \/ next >= Len(list) \/ Len(items) < count
              rows  == Upsert(r, ToSet(items))
          IN  /\ row' = IF WholeSnapshot(last, next) THEN Retire(r, rows) ELSE rows
              /\ job' = [job EXCEPT ![r].offset = next,
                                    ![r].status = IF last THEN "collected" ELSE @]
              /\ state' = [run |-> r, collected |-> next, total |-> Len(list), denied |-> FALSE]
              /\ Asked(r, job[r].offset, count, items)
    BY <1>3 DEF LinksPage
  <2>3. items \in Seq(Items) /\ Len(items) \in Nat /\ Len(list) \in Nat
    BY <2>1, AnswerFacts DEF PageTypes
  <2> HIDE DEF count
  <2>4. row' \in [Items -> Row]
    BY <2>2, UpsertTypes, RowsTypes
  <2>5. PICK st \in JobStatus :
          job' = [job EXCEPT ![r].offset = job[r].offset + Len(items), ![r].status = st]
    BY <2>2, <1>b, <1>c
  <2>6. job' \in [Runs -> JobRow]
    <3>1. job[r].offset + Len(items) \in Nat
      BY <2>1, <2>3
    <3> QED BY <2>5, <3>1, JobTypes, Zenon
  <2>7. state' \in [run: Nat, collected: Nat, total: Nat, denied: BOOLEAN]
    BY <1>b, <2>1, <2>2, <2>3
  <2>8. Asked(r, job[r].offset, count, items)
    BY <2>2
  <2>9. /\ begun' \in SUBSET Runs /\ since' \in [Runs -> SUBSET Items]
        /\ touched' \in [Runs -> SUBSET Events] /\ disturbed' \in Nat
    BY <2>1, <2>3, <2>8, AskedFacts DEF PageTypes
  <2> QED BY <1>3, <1>a, <2>4, <2>6, <2>7, <2>9 DEF PageTypes, LinksPage
<1>4. ASSUME NEW r \in Runs, MembersPage(r) PROVE PageTypes'
  <2>1. PICK items \in Answers(job[r].offset, PageSize) :
          LET next == job[r].offset + Len(items)
              last == items = <<>> \/ next >= Len(list) \/ Len(items) < PageSize
          IN  /\ found' = [found EXCEPT ![r] = @ \cup ToSet(items)]
              /\ job' = [job EXCEPT ![r].offset = next,
                                    ![r].status = IF last THEN "enumerated" ELSE @]
              /\ Asked(r, job[r].offset, PageSize, items)
    BY <1>4 DEF MembersPage
  <2>2. items \in Seq(Items) /\ Len(items) \in Nat /\ job[r].offset \in Nat
    BY <1>b, <1>c, AnswerFacts
  <2>3. PICK st \in JobStatus :
          job' = [job EXCEPT ![r].offset = job[r].offset + Len(items), ![r].status = st]
    BY <2>1, <1>b, <1>c
  <2>4. job' \in [Runs -> JobRow]
    <3>1. job[r].offset + Len(items) \in Nat
      BY <2>2
    <3> QED BY <2>3, <3>1, JobTypes, Zenon
  <2>5. found' \in [Runs -> SUBSET Items]
    BY <2>1, <2>2, SetOfSeq DEF PageTypes
  <2>6. Asked(r, job[r].offset, PageSize, items)
    BY <2>1
  <2>7. /\ begun' \in SUBSET Runs /\ since' \in [Runs -> SUBSET Items]
        /\ touched' \in [Runs -> SUBSET Events] /\ disturbed' \in Nat
    BY <1>b, <2>2, <2>6, AskedFacts DEF PageTypes
  <2> QED BY <1>4, <1>a, <2>4, <2>5, <2>7 DEF PageTypes, MembersPage
<1>5. ASSUME NEW r \in Runs, MembersStore(r) PROVE PageTypes'
  <2> DEFINE s == Sample(found[r])
  <2>1. IsFiniteSet(found[r])
    BY <1>a, ItemFacts, FS_Subset DEF PageTypes
  <2>2. Cardinality(s) \in Nat
    BY <2>1, SampleFacts
  <2>3. row' \in [Items -> Row]
    BY <1>5, UpsertTypes, RowsTypes DEF MembersStore
  <2>4. job' \in [Runs -> JobRow]
    BY <1>5, <1>a, <1>b, JobTypes, Zenon DEF MembersStore
  <2>5. touched' \in [Runs -> SUBSET Events]
    BY <1>5, <1>b, TouchFacts DEF MembersStore, PageTypes
  <2> HIDE DEF s
  <2>6. state' \in [run: Nat, collected: Nat, total: Nat, denied: BOOLEAN]
    <3>1. state' = [run |-> r, collected |-> Cardinality(s), total |-> job[r].offset,
                    denied |-> state.denied]
      BY <1>5 DEF MembersStore, s
    <3> QED BY <1>b, <1>c, <2>2, <3>1 DEF PageTypes
  <2> QED BY <1>5, <1>a, <2>3, <2>4, <2>5, <2>6 DEF PageTypes, MembersStore
<1>6. ASSUME NEW r \in Runs, TopUp(r) PROVE PageTypes'
  <2>1. PICK items \in Answers(0, PageSize) :
          /\ row' = IF Len(list) < PageSize THEN row ELSE Upsert(r, ToSet(items))
          /\ state' = IF Len(list) < PageSize THEN [state EXCEPT !.run = r, !.denied = TRUE]
                      ELSE [run |-> r, collected |-> Len(items), total |-> Len(list),
                            denied |-> state.denied]
          /\ Asked(r, 0, PageSize, items)
    BY <1>6 DEF TopUp
  <2>2. items \in Seq(Items) /\ Len(items) \in Nat /\ Len(list) \in Nat
    BY <1>b, AnswersAreItems DEF PageTypes
  <2>3. job' \in [Runs -> JobRow]
    BY <1>6, <1>a, <1>b, JobTypes, Zenon DEF TopUp
  <2>4. row' \in [Items -> Row]
    BY <2>1, UpsertTypes DEF PageTypes
  <2>5. state' \in [run: Nat, collected: Nat, total: Nat, denied: BOOLEAN]
    BY <1>b, <2>1, <2>2 DEF PageTypes
  <2>6. /\ begun' \in SUBSET Runs /\ since' \in [Runs -> SUBSET Items]
        /\ touched' \in [Runs -> SUBSET Events] /\ disturbed' \in Nat
    BY <1>b, <2>1, <2>2, AskedFacts DEF PageTypes
  <2> QED BY <1>6, <1>a, <2>3, <2>4, <2>5, <2>6 DEF PageTypes, TopUp
<1>7. ASSUME NEW r \in Runs, WallPage(r) PROVE PageTypes'
  <2> DEFINE count == Smaller(PageSize, Maximum - job[r].offset)
  <2>1. count \in Nat /\ job[r].offset \in Nat
    BY <1>7, <1>b, <1>c DEF WallPage, Smaller
  <2>2. PICK items \in Answers(job[r].offset, count) :
          LET next == job[r].offset + Len(items)
              last == items = <<>> \/ next >= Len(list) \/ Len(items) < count
          IN  /\ row' = Upsert(r, ToSet(items))
              /\ job' = [job EXCEPT ![r].offset = next, ![r].collected = next,
                                    ![r].status = IF last THEN "collected" ELSE @]
              /\ Asked(r, job[r].offset, count, items)
    BY <1>7, Zenon DEF WallPage
  <2>3. items \in Seq(Items) /\ Len(items) \in Nat
    BY <2>1, AnswerFacts
  <2> HIDE DEF count
  <2>4. row' \in [Items -> Row]
    BY <2>2, UpsertTypes
  <2> DEFINE n == job[r].offset + Len(items)
  <2>5. PICK st \in JobStatus :
          job' = [job EXCEPT ![r].offset = n, ![r].collected = n, ![r].status = st]
    BY <2>2, <1>b, <1>c
  <2>6. job' \in [Runs -> JobRow]
    <3>1. job[r].offset + Len(items) \in Nat
      BY <2>1, <2>3
    <3> QED BY <2>5, <3>1, JobTypes, Zenon
  <2>7. Asked(r, job[r].offset, count, items)
    BY <2>2
  <2>8. /\ begun' \in SUBSET Runs /\ since' \in [Runs -> SUBSET Items]
        /\ touched' \in [Runs -> SUBSET Events] /\ disturbed' \in Nat
    BY <2>1, <2>3, <2>7, AskedFacts DEF PageTypes
  <2> QED BY <1>7, <1>a, <2>4, <2>6, <2>8 DEF PageTypes, WallPage
<1>8. ASSUME NEW r \in Runs, UserWallPage(r) PROVE PageTypes'
  <2> DEFINE count == Smaller(PageSize, Maximum - job[r].collected)
  <2>1. count \in Nat /\ job[r].offset \in Nat
    BY <1>8, <1>b, <1>c DEF UserWallPage, Smaller
  <2>2. PICK items \in Answers(job[r].offset, count) :
          LET next == job[r].offset + Len(items)
              kept == job[r].collected + Cardinality(Fresh(items))
              last == \/ items = <<>> \/ Beyond(items) # {} \/ kept >= Maximum
                      \/ next >= Len(list) \/ Len(items) < count
          IN  /\ row' = Upsert(r, Fresh(items))
              /\ job' = [job EXCEPT ![r].offset = next, ![r].collected = kept,
                                    ![r].status = IF last THEN "collected" ELSE @]
              /\ Asked(r, job[r].offset, count, items)
    BY <1>8, Zenon DEF UserWallPage
  <2>3. items \in Seq(Items) /\ Len(items) \in Nat
    BY <2>1, AnswerFacts
  <2> HIDE DEF count
  <2>4. row' \in [Items -> Row]
    BY <2>2, UpsertTypes
  <2> DEFINE n == job[r].offset + Len(items)
             c == job[r].collected + Cardinality(Fresh(items))
  <2>5. PICK st \in JobStatus :
          job' = [job EXCEPT ![r].offset = n, ![r].collected = c, ![r].status = st]
    BY <2>2, <1>b, <1>c
  <2>6. n \in Nat /\ c \in Nat
    BY <1>a, <1>c, <2>1, <2>3, FreshFacts
  <2>7. job' \in [Runs -> JobRow]
    BY <1>a, <2>5, <2>6, JobTypes, Zenon
  <2>8. Asked(r, job[r].offset, count, items)
    BY <2>2
  <2>9. /\ begun' \in SUBSET Runs /\ since' \in [Runs -> SUBSET Items]
        /\ touched' \in [Runs -> SUBSET Events] /\ disturbed' \in Nat
    BY <2>1, <2>3, <2>8, AskedFacts DEF PageTypes
  <2> QED BY <1>8, <1>a, <2>4, <2>7, <2>9 DEF PageTypes, UserWallPage
<1>9. ASSUME NEW r \in Runs, LatestPosts(r) PROVE PageTypes'
  <2>1. PICK items \in Answers(0, Maximum) :
          /\ row' = Upsert(r, ToSet(items))
          /\ job' = [job EXCEPT ![r].offset = Len(items), ![r].status = "collected"]
          /\ state' = [run |-> r, collected |-> Len(items), total |-> 0, denied |-> FALSE]
          /\ Asked(r, 0, Maximum, items)
    BY <1>9 DEF LatestPosts
  <2>2. items \in Seq(Items) /\ Len(items) \in Nat
    BY <1>b, AnswersAreItems
  <2>3. job' \in [Runs -> JobRow]
    BY <1>a, <1>b, <2>1, <2>2, JobTypes, Zenon
  <2>4. row' \in [Items -> Row]
    BY <2>1, UpsertTypes
  <2>5. state' \in [run: Nat, collected: Nat, total: Nat, denied: BOOLEAN]
    BY <1>b, <2>1, <2>2
  <2>6. /\ begun' \in SUBSET Runs /\ since' \in [Runs -> SUBSET Items]
        /\ touched' \in [Runs -> SUBSET Events] /\ disturbed' \in Nat
    BY <1>b, <2>1, <2>2, AskedFacts DEF PageTypes
  <2> QED BY <1>9, <1>a, <2>3, <2>4, <2>5, <2>6 DEF PageTypes, LatestPosts
<1>10. ASSUME ListChanges PROVE PageTypes'
  <2>1. list' \in Seq(Items)
    <3>1. ASSUME list' = InsertAt(list, Top, Spare) PROVE list' \in Seq(Items)
      <4>1. Spare \in Items /\ list \in Seq(Items)
        BY DEF Items, PageTypes
      <4>2. Top \in 1 .. Len(list) + 1
        BY TopFacts
      <4> QED BY <3>1, <4>1, <4>2, InsertFacts
    <3>2. ASSUME NEW i \in DOMAIN list, list' = RemoveAt(list, i) PROVE list' \in Seq(Items)
      BY <3>2, RemoveFacts DEF PageTypes
    <3> QED BY <1>10, <3>1, <3>2 DEF ListChanges
  <2>2. touched' \in [Runs -> SUBSET Events]
    <3>1. begun \in SUBSET Runs
      BY DEF PageTypes
    <3>2. /\ Touch(begun, "appeared") \in [Runs -> SUBSET Events]
          /\ Touch(begun, "removed") \in [Runs -> SUBSET Events]
      BY <1>b, <3>1, TouchFacts
    <3> QED BY <1>10, <3>2 DEF ListChanges
  <2>3. disturbed' \in Nat
    BY <1>10 DEF ListChanges, PageTypes
  <2> QED BY <1>10, <1>a, <2>1, <2>2, <2>3 DEF PageTypes, ListChanges
<1>11. ASSUME UNCHANGED vars PROVE PageTypes'
  BY <1>11, <1>a DEF PageTypes, vars, historyVars
<1> QED BY <1>1, <1>2, <1>3, <1>4, <1>5, <1>6, <1>7, <1>8, <1>9, <1>10, <1>11 DEF Next
-----------------------------------------------------------------------------
(* What a job that reads a page, or stores its sample, leaves to the others.*)

Asks(r) == \/ LinksPage(r) \/ MembersPage(r) \/ TopUp(r)
           \/ WallPage(r) \/ UserWallPage(r) \/ LatestPosts(r)

LEMMA UpsertFacts ==
  ASSUME NEW r \in Runs, NEW ids
  PROVE  \A i \in Items : Upsert(r, ids)[i] =
           IF i \in ids THEN [run |-> r, current |-> TRUE] ELSE row[i]
  BY DEF Upsert

LEMMA RetireFacts ==
  ASSUME NEW r \in Runs, NEW rows \in [Items -> Row]
  PROVE  \A i \in Items :
           /\ Retire(r, rows)[i].run = rows[i].run
           /\ Retire(r, rows)[i].current = (rows[i].current /\ rows[i].run \in {0, r})
           /\ rows[i].run \in {0, r} => Retire(r, rows)[i] = rows[i]
  BY DEF Retire, Row

LEMMA AsksShape ==
  ASSUME PagesAssumption, PageTypes, NEW r \in Runs, Asks(r)
  PROVE  /\ begun' = begun \cup {r} /\ UNCHANGED <<kind, list>>
         /\ kind \in DOMAIN Lists /\ UNCHANGED Items
         /\ \A s \in Runs \ {r} :
              /\ job'[s] = job[s] /\ found'[s] = found[s] /\ since'[s] = since[s]
              /\ touched'[s] = IF s \in begun THEN touched[s] \cup {"writer"} ELSE touched[s]
         /\ since'[r] = IF r \in begun THEN since[r] ELSE ToSet(list)
         /\ touched'[r] = touched[r] \/ touched'[r] = touched[r] \cup {"short"}
         /\ job[r].status = "running"
         /\ job'[r].status \in {"running", "enumerated", "collected"}
         /\ job'[r].status = "enumerated" => kind \in {"members", "baseline"}
         /\ \A i \in Items : row'[i].run \in {row[i].run, r}
         /\ \A i \in Items : row'[i].run # r /\ row'[i].current => row[i].current
<1> USE PagesAssumption
<1>a. PageSize \in Nat /\ Maximum \in Nat /\ Runs \subseteq Nat
  BY DEF PagesAssumption
<1>b. /\ \A s \in Runs : job[s].status \in JobStatus /\ job[s].offset \in Nat /\ job[s].collected \in Nat
      /\ job \in [Runs -> JobRow] /\ found \in [Runs -> SUBSET Items]
      /\ kind \in DOMAIN Lists /\ row \in [Items -> Row]
  BY DEF PageTypes, JobRow
<1>c. UNCHANGED <<kind, list>> /\ UNCHANGED Items
  <2>1. kind' = kind /\ list' = list
    BY Zenon DEF Asks, LinksPage, MembersPage, TopUp, WallPage, UserWallPage, LatestPosts
  <2>2. UNCHANGED Items
    BY <2>1 DEF Items
  <2> QED BY <2>1, <2>2
<1>d. PICK start \in Nat, count \in Nat :
        \E answer \in Answers(start, count) : Asked(r, start, count, answer)
  <2>1. /\ 0 \in Nat /\ (job[r].offset < Maximum => Smaller(PageSize, Maximum - job[r].offset) \in Nat)
        /\ (job[r].collected < Maximum => Smaller(PageSize, Maximum - job[r].collected) \in Nat)
    BY <1>a, <1>b DEF Smaller
  <2>2. CASE LinksPage(r) \/ WallPage(r)
    BY <1>b, <2>1, <2>2, Zenon DEF LinksPage, WallPage
  <2>3. CASE UserWallPage(r)
    BY <1>b, <2>1, <2>3 DEF UserWallPage
  <2>4. CASE MembersPage(r)
    BY <1>a, <1>b, <2>4 DEF MembersPage
  <2>5. CASE TopUp(r) \/ LatestPosts(r)
    BY <1>a, <2>1, <2>5, Zenon DEF TopUp, LatestPosts
  <2> QED BY <2>2, <2>3, <2>4, <2>5 DEF Asks
<1>j. PICK items \in Answers(start, count) : Asked(r, start, count, items)
  BY <1>d
<1>e. items \in Seq(Items)
  BY AnswersAreItems
<1>f. /\ begun' = begun \cup {r}
      /\ \A s \in Runs \ {r} :
           /\ since'[s] = since[s]
           /\ touched'[s] = IF s \in begun THEN touched[s] \cup {"writer"} ELSE touched[s]
      /\ since'[r] = IF r \in begun THEN since[r] ELSE ToSet(list)
      /\ touched'[r] = touched[r] \/ touched'[r] = touched[r] \cup {"short"}
  <2> DEFINE extra == IF Len(items) < Smaller(count, Len(list) - start) THEN {"short"} ELSE {}
  <2>1. /\ begun' = begun \cup {r}
        /\ \A s \in Runs \ {r} :
             /\ since'[s] = since[s]
             /\ touched'[s] = IF s \in begun THEN touched[s] \cup {"writer"} ELSE touched[s]
        /\ since'[r] = IF r \in begun THEN since[r] ELSE ToSet(list)
        /\ touched'[r] = touched[r] \cup extra
    <3> HIDE DEF Asked, Asks
    <3> QED BY <1>e, <1>j, AskedFacts, Zenon
  <2>2. extra = {} \/ extra = {"short"}
    OBVIOUS
  <2> HIDE DEF extra
  <2>3. touched'[r] = touched[r] \/ touched'[r] = touched[r] \cup {"short"}
    BY <2>1, <2>2
  <2> QED BY <2>1, <2>3
<1>g. job[r].status = "running"
  BY Zenon DEF Asks, LinksPage, MembersPage, TopUp, WallPage, UserWallPage, LatestPosts, Running
<1>h. ASSUME NEW s \in Runs \ {r} PROVE job'[s] = job[s] /\ found'[s] = found[s]
  BY <1>b, Zenon DEF Asks, LinksPage, MembersPage, TopUp, WallPage, UserWallPage, LatestPosts
<1>i. /\ job'[r].status \in {"running", "enumerated", "collected"}
      /\ job'[r].status = "enumerated" => kind \in {"members", "baseline"}
  <2>1. CASE MembersPage(r)
    BY <1>b, <1>g, <2>1 DEF MembersPage, JobRow, Running
  <2>2. CASE LinksPage(r) \/ TopUp(r)
    <3>1. CASE TopUp(r)
      BY <1>b, <3>1 DEF TopUp
    <3>2. CASE LinksPage(r)
      <4>1. PICK n, st : /\ st \in {job[r].status, "collected"}
              /\ job' = [job EXCEPT ![r].offset = n, ![r].status = st]
        BY <3>2 DEF LinksPage
      <4> QED BY <1>b, <1>g, <4>1 DEF JobRow
    <3> QED BY <2>2, <3>1, <3>2
  <2>3. CASE WallPage(r)
    BY <1>b, <1>g, <2>3 DEF WallPage, JobRow
  <2>4. CASE LatestPosts(r)
    BY <1>b, <1>g, <2>4 DEF LatestPosts, JobRow
  <2>5. CASE UserWallPage(r)
    <3>1. PICK n, c, st : /\ st \in {job[r].status, "collected"}
            /\ job' = [job EXCEPT ![r].offset = n, ![r].collected = c, ![r].status = st]
      BY <2>5, Zenon DEF UserWallPage
    <3> QED BY <1>b, <1>g, <3>1 DEF JobRow
  <2> QED BY <2>1, <2>2, <2>3, <2>4, <2>5 DEF Asks
<1>k. /\ \A i \in Items : row'[i].run \in {row[i].run, r}
      /\ \A i \in Items : row'[i].run # r /\ row'[i].current => row[i].current
  <2>1. ASSUME NEW ids, NEW U, U = Upsert(r, ids)
        PROVE  /\ \A i \in Items : U[i] \in {row[i], [run |-> r, current |-> TRUE]}
               /\ \A i \in Items : /\ Retire(r, U)[i].run = U[i].run
                                   /\ Retire(r, U)[i].current => U[i].current
    <3>1. U \in [Items -> Row]
      BY <2>1, UpsertTypes
    <3>2. \A i \in Items : U[i] = IF i \in ids THEN [run |-> r, current |-> TRUE] ELSE row[i]
      BY <2>1, UpsertFacts
    <3>3. \A i \in Items : /\ Retire(r, U)[i].run = U[i].run
                           /\ Retire(r, U)[i].current => U[i].current
      <4>1. \A i \in Items :
              /\ Retire(r, U)[i].run = U[i].run
              /\ Retire(r, U)[i].current = (U[i].current /\ U[i].run \in {0, r})
              /\ U[i].run \in {0, r} => Retire(r, U)[i] = U[i]
        BY <3>1, RetireFacts
      <4> QED BY <4>1
    <3> QED BY <3>2, <3>3
  <2>2. \/ row' = row \/ \E ids : row' = Upsert(r, ids) \/ row' = Retire(r, Upsert(r, ids))
    <3>1. CASE LinksPage(r)
      BY <3>1 DEF LinksPage
    <3>2. CASE MembersPage(r) \/ TopUp(r)
      BY <3>2 DEF MembersPage, TopUp
    <3>3. CASE WallPage(r) \/ UserWallPage(r) \/ LatestPosts(r)
      BY <3>3, Zenon DEF WallPage, UserWallPage, LatestPosts
    <3> QED BY <3>1, <3>2, <3>3 DEF Asks
  <2>3. CASE row' = row
    BY <2>3
  <2>4. ASSUME NEW ids, row' = Upsert(r, ids) \/ row' = Retire(r, Upsert(r, ids))
        PROVE  \A i \in Items : /\ row'[i].run \in {row[i].run, r}
                                /\ row'[i].run # r /\ row'[i].current => row[i].current
    <3> DEFINE U == Upsert(r, ids)
               V == Retire(r, U)
    <3>1. /\ \A i \in Items : U[i] \in {row[i], [run |-> r, current |-> TRUE]}
          /\ \A i \in Items : V[i].run = U[i].run /\ (V[i].current => U[i].current)
      BY <2>1
    <3>2. row' = U \/ row' = V
      BY <2>4
    <3> HIDE DEF U, V
    <3> QED BY <3>1, <3>2
  <2> QED BY <2>2, <2>3, <2>4
<1> QED BY <1>b, <1>c, <1>f, <1>g, <1>h, <1>i, <1>k
(* A step that neither asks nor stores a sample leaves rows and memory.     *)
Quiet(r) == Start(r) \/ Conclude(r) \/ Denied(r) \/ Interrupt(r)

LEMMA QuietShape ==
  ASSUME PagesAssumption, PageTypes, NEW r \in Runs, Quiet(r)
  PROVE  /\ UNCHANGED <<kind, list, row, begun, since>> /\ UNCHANGED Items
         /\ \A s \in Runs \ {r} : job'[s] = job[s] /\ found'[s] = found[s] /\ touched'[s] = touched[s]
         /\ job'[r].offset = job[r].offset /\ job'[r].collected = job[r].collected
         /\ job'[r].status \in {"pending", "running", "done", "skipped"}
         /\ touched'[r] = touched[r] \/ (job[r].offset > 0 /\ touched'[r] = touched[r] \cup {"resumed"})
         /\ \/ found'[r] = found[r]
            \/ found'[r] = {} /\ (job[r].offset = 0 \/ "resumed" \in touched'[r])
         /\ job'[r].status = "done" => job[r].status = "collected" \/ AtMaximum(r)
         /\ kind = "links" => state' = state \/ state'.denied
<1>1. /\ kind' = kind /\ list' = list /\ row' = row /\ begun' = begun /\ since' = since
  BY DEF Quiet, Start, Conclude, Denied, Interrupt, historyVars
<1>2. UNCHANGED Items
  BY <1>1 DEF Items
<1>3. /\ \A s \in Runs \ {r} : job'[s] = job[s]
      /\ job'[r].offset = job[r].offset /\ job'[r].collected = job[r].collected
      /\ job'[r].status \in {"pending", "running", "done", "skipped"}
  BY DEF Quiet, Start, Conclude, Denied, Interrupt, PageTypes, JobRow
<1>4. /\ \A s \in Runs \ {r} : found'[s] = found[s]
      /\ \/ found'[r] = found[r]
         \/ found'[r] = {} /\ (job[r].offset = 0 \/ "resumed" \in touched'[r])
  <2>1. CASE Start(r) \/ Conclude(r) \/ Denied(r)
    BY <2>1 DEF Start, Conclude, Denied
  <2>2. CASE Interrupt(r)
    <3>1. {r} \in SUBSET Runs /\ "resumed" \in Events
      BY DEF Events
    <3>2. "resumed" \in Touch({r}, "resumed")[r]
      <4>1. \A q \in Runs : Touch({r}, "resumed")[q] =
                              IF q \in {r} THEN touched[q] \cup {"resumed"} ELSE touched[q]
        BY <3>1, TouchFacts
      <4> QED BY <4>1
    <3>3. job[r].offset \in Nat
      BY DEF PageTypes, JobRow
    <3> QED BY <2>2, <3>2, <3>3 DEF Interrupt, PageTypes
  <2> QED BY <2>1, <2>2 DEF Quiet
<1>5. /\ \A s \in Runs \ {r} : touched'[s] = touched[s]
      /\ touched'[r] = touched[r] \/ (job[r].offset > 0 /\ touched'[r] = touched[r] \cup {"resumed"})
  <2>1. {r} \in SUBSET Runs /\ "resumed" \in Events
    BY DEF Events
  <2>2. \A s \in Runs : Touch({r}, "resumed")[s] =
                          IF s \in {r} THEN touched[s] \cup {"resumed"} ELSE touched[s]
    BY <2>1, TouchFacts
  <2> QED BY <2>2 DEF Quiet, Start, Conclude, Denied, Interrupt, historyVars
<1>6. kind = "links" => state' = state \/ state'.denied
  BY DEF Quiet, Start, Conclude, Denied, Interrupt, PageTypes
<1>7. job'[r].status = "done" => job[r].status = "collected" \/ AtMaximum(r)
  BY DEF Quiet, Start, Conclude, Denied, Interrupt, PageTypes, JobRow
<1> QED BY <1>1, <1>2, <1>3, <1>4, <1>5, <1>6, <1>7

LEMMA StoreShape ==
  ASSUME PagesAssumption, PageTypes, NEW r \in Runs, MembersStore(r)
  PROVE  /\ UNCHANGED <<kind, list, found, begun, since>> /\ UNCHANGED Items
         /\ job[r].status = "enumerated"
         /\ \A s \in Runs \ {r} :
              /\ job'[s] = job[s]
              /\ touched'[s] = IF s \in begun THEN touched[s] \cup {"writer"} ELSE touched[s]
         /\ job'[r].offset = job[r].offset /\ job'[r].collected = job[r].collected
         /\ job'[r].status = "collected" /\ touched'[r] = touched[r]
         /\ \A i \in Items : IF i \in Sample(found[r]) THEN row'[i] = [run |-> r, current |-> TRUE]
              ELSE /\ row'[i].run = row[i].run
                   /\ row'[i].current = (row[i].current /\ row[i].run \in {0, r})
<1>1. kind' = kind /\ list' = list /\ found' = found /\ begun' = begun /\ since' = since
      /\ job[r].status = "enumerated"
  BY DEF MembersStore
<1>2. UNCHANGED Items
  BY <1>1 DEF Items
<1>3. /\ \A s \in Runs \ {r} : job'[s] = job[s]
      /\ job'[r].offset = job[r].offset /\ job'[r].collected = job[r].collected
      /\ job'[r].status = "collected"
  BY DEF MembersStore, PageTypes, JobRow
<1>4. \A s \in Runs : touched'[s] = IF s \in begun \ {r} THEN touched[s] \cup {"writer"} ELSE touched[s]
  <2>1. begun \ {r} \in SUBSET Runs /\ "writer" \in Events
    BY DEF Events, PageTypes
  <2> DEFINE T == Touch(begun \ {r}, "writer")
  <2>2. \A s \in Runs : T[s] = IF s \in begun \ {r} THEN touched[s] \cup {"writer"} ELSE touched[s]
    BY <2>1, TouchFacts
  <2>3. touched' = T
    BY DEF MembersStore
  <2> HIDE DEF T
  <2> QED BY <2>2, <2>3
<1>5. ASSUME NEW i \in Items
      PROVE  IF i \in Sample(found[r]) THEN row'[i] = [run |-> r, current |-> TRUE]
             ELSE /\ row'[i].run = row[i].run
                  /\ row'[i].current = (row[i].current /\ row[i].run \in {0, r})
  <2> DEFINE U == Upsert(r, Sample(found[r]))
  <2>1. U \in [Items -> Row] /\ row' = Retire(r, U)
    BY UpsertTypes DEF MembersStore
  <2>2. U[i] = IF i \in Sample(found[r]) THEN [run |-> r, current |-> TRUE] ELSE row[i]
    BY UpsertFacts
  <2> HIDE DEF U
  <2>3. /\ row'[i].run = U[i].run
        /\ row'[i].current = (U[i].current /\ U[i].run \in {0, r})
        /\ U[i].run \in {0, r} => row'[i] = U[i]
    BY <2>1, RetireFacts
  <2> QED BY <2>2, <2>3
<1> QED BY <1>1, <1>2, <1>3, <1>4, <1>5

LEMMA BasicsInit ==
  ASSUME Init PROVE RowsHaveRuns /\ NothingBefore /\ Enumerating
  BY DEF Init, RowsHaveRuns, NothingBefore, Enumerating

LEMMA StepCases ==
  ASSUME [Next]_vars
  PROVE  \/ \E r \in Runs : Quiet(r) \/ Asks(r) \/ MembersStore(r)
         \/ ListChanges \/ UNCHANGED vars
  BY DEF Next, Quiet, Asks

LEMMA ListShape ==
  ASSUME PageTypes, ListChanges
  PROVE  /\ UNCHANGED <<kind, row, job, found, state, begun, since>> /\ UNCHANGED Items
         /\ \/ /\ Spare \notin ToSet(list) /\ list' = InsertAt(list, Top, Spare)
               /\ \A s \in Runs : touched'[s] =
                    IF s \in begun THEN touched[s] \cup {"appeared"} ELSE touched[s]
            \/ /\ \E i \in DOMAIN list : list' = RemoveAt(list, i)
               /\ \A s \in Runs : touched'[s] =
                    IF s \in begun THEN touched[s] \cup {"removed"} ELSE touched[s]
<1>1. kind' = kind /\ row' = row /\ job' = job /\ found' = found /\ state' = state
      /\ begun' = begun /\ since' = since
  BY DEF ListChanges
<1>2. UNCHANGED Items
  BY <1>1 DEF Items
<1>3. begun \in SUBSET Runs /\ "appeared" \in Events /\ "removed" \in Events
  BY DEF PageTypes, Events
<1>4. /\ \A s \in Runs : Touch(begun, "appeared")[s] =
           IF s \in begun THEN touched[s] \cup {"appeared"} ELSE touched[s]
      /\ \A s \in Runs : Touch(begun, "removed")[s] =
           IF s \in begun THEN touched[s] \cup {"removed"} ELSE touched[s]
  BY <1>3, TouchFacts
<1> QED BY <1>1, <1>2, <1>4 DEF ListChanges

LEMMA BasicsNext ==
  ASSUME PagesAssumption, PageTypes, RowsHaveRuns, NothingBefore, Enumerating, [Next]_vars
  PROVE  RowsHaveRuns' /\ NothingBefore' /\ Enumerating'
<1> USE PagesAssumption
<1>a. \A r \in Runs : r # 0
  BY DEF PagesAssumption
<1>b. \A i \in Items : row[i].current \in BOOLEAN
  BY DEF PageTypes, Row
<1>1. ASSUME NEW r \in Runs, Asks(r) PROVE RowsHaveRuns' /\ NothingBefore' /\ Enumerating'
  <2>1. RowsHaveRuns'
    <3>1. /\ begun' = begun \cup {r} /\ Items' = Items
          /\ \A i \in Items : row'[i].run \in {row[i].run, r}
          /\ \A i \in Items : row'[i].run # r /\ row'[i].current => row[i].current
      BY <1>1, AsksShape
    <3>2. \A i \in Items : IF row'[i].run = 0 THEN ~row'[i].current ELSE row'[i].run \in begun'
      BY <1>a, <3>1 DEF RowsHaveRuns
    <3> QED BY <3>1, <3>2 DEF RowsHaveRuns
  <2>2. ASSUME NEW s \in Runs, s \notin begun'
        PROVE  /\ job'[s].status # "enumerated" /\ job'[s].offset = 0 /\ job'[s].collected = 0
               /\ found'[s] = {} /\ since'[s] = {} /\ touched'[s] = {}
    <3>1. s # r /\ s \notin begun
      BY <1>1, <2>2, AsksShape
    <3>2. /\ job'[s] = job[s] /\ found'[s] = found[s] /\ since'[s] = since[s]
          /\ touched'[s] = touched[s]
      <4>1. \A q \in Runs \ {r} :
              /\ job'[q] = job[q] /\ found'[q] = found[q] /\ since'[q] = since[q]
              /\ touched'[q] = IF q \in begun THEN touched[q] \cup {"writer"} ELSE touched[q]
        BY <1>1, AsksShape
      <4> QED BY <3>1, <4>1
    <3> QED BY <3>1, <3>2 DEF NothingBefore
  <2>3. Enumerating'
    <3>1. kind' = kind /\ job'[r].status = "enumerated" => kind \in {"members", "baseline"}
      BY <1>1, AsksShape
    <3>2. \A s \in Runs \ {r} :
            /\ job'[s] = job[s] /\ found'[s] = found[s] /\ since'[s] = since[s]
            /\ touched'[s] = IF s \in begun THEN touched[s] \cup {"writer"} ELSE touched[s]
      BY <1>1, AsksShape
    <3>3. kind' = kind
      BY <1>1, AsksShape
    <3> QED BY <3>1, <3>2, <3>3 DEF Enumerating
  <2> QED BY <2>1, <2>2, <2>3 DEF NothingBefore
<1>2. ASSUME NEW r \in Runs, Quiet(r) PROVE RowsHaveRuns' /\ NothingBefore' /\ Enumerating'
  BY <1>2, QuietShape DEF RowsHaveRuns, NothingBefore, Enumerating
<1>3. ASSUME NEW r \in Runs, MembersStore(r) PROVE RowsHaveRuns' /\ NothingBefore' /\ Enumerating'
  <2>1. r \in begun
    BY <1>3, StoreShape DEF NothingBefore
  <2>2. RowsHaveRuns'
    <3>1. /\ begun' = begun /\ Items' = Items
          /\ \A i \in Items : IF i \in Sample(found[r]) THEN row'[i] = [run |-> r, current |-> TRUE]
                ELSE /\ row'[i].run = row[i].run
                     /\ row'[i].current = (row[i].current /\ row[i].run \in {0, r})
      BY <1>3, StoreShape
    <3>2. \A i \in Items : IF row'[i].run = 0 THEN ~row'[i].current ELSE row'[i].run \in begun'
      <4> SUFFICES ASSUME NEW i \in Items
                   PROVE IF row'[i].run = 0 THEN ~row'[i].current ELSE row'[i].run \in begun'
        OBVIOUS
      <4>1. CASE i \in Sample(found[r])
        BY <1>a, <2>1, <3>1, <4>1
      <4>2. CASE i \notin Sample(found[r])
        <5>1. row'[i].run = row[i].run /\ (row'[i].current => row[i].current)
          BY <3>1, <4>2
        <5> QED BY <3>1, <5>1 DEF RowsHaveRuns
      <4> QED BY <4>1, <4>2
    <3> QED BY <3>1, <3>2 DEF RowsHaveRuns
  <2>3. ASSUME NEW s \in Runs, s \notin begun'
        PROVE  /\ job'[s].status # "enumerated" /\ job'[s].offset = 0 /\ job'[s].collected = 0
               /\ found'[s] = {} /\ since'[s] = {} /\ touched'[s] = {}
    <3>1. s # r /\ s \notin begun
      <4>1. begun' = begun
        BY <1>3, StoreShape
      <4> QED BY <2>1, <2>3, <4>1
    <3>2. /\ job'[s] = job[s] /\ found'[s] = found[s] /\ since'[s] = since[s]
          /\ touched'[s] = touched[s]
      <4>1. /\ found' = found /\ since' = since
            /\ \A q \in Runs \ {r} : job'[q] = job[q] /\
                 touched'[q] = IF q \in begun THEN touched[q] \cup {"writer"} ELSE touched[q]
        BY <1>3, StoreShape
      <4> QED BY <3>1, <4>1
    <3> QED BY <3>1, <3>2 DEF NothingBefore
  <2>4. Enumerating'
    <3>1. /\ kind' = kind /\ \A s \in Runs \ {r} : job'[s] = job[s]
          /\ job'[r].status # "enumerated"
      BY <1>3, StoreShape
    <3> QED BY <3>1 DEF Enumerating
  <2> QED BY <2>2, <2>3, <2>4 DEF NothingBefore
<1>4. ASSUME ListChanges PROVE RowsHaveRuns' /\ NothingBefore' /\ Enumerating'
  BY <1>4, ListShape DEF RowsHaveRuns, NothingBefore, Enumerating
<1>5. ASSUME UNCHANGED vars PROVE RowsHaveRuns' /\ NothingBefore' /\ Enumerating'
  <2>1. UNCHANGED Items
    BY <1>5 DEF vars, Items
  <2> QED BY <1>5, <2>1 DEF vars, historyVars, RowsHaveRuns, NothingBefore, Enumerating
<1> QED BY <1>1, <1>2, <1>3, <1>4, <1>5, StepCases
-----------------------------------------------------------------------------
(* The communities a user follows.                                          *)

LEMMA LinksInit ==
  ASSUME PagesAssumption, Init PROVE LinksInv
  BY DEF Init, LinksInv, LinksOf, PagesAssumption

(* The page of links: what it stores and what it retires.                   *)
LEMMA LinksPageShape ==
  ASSUME PagesAssumption, PageTypes, NEW r \in Runs, LinksPage(r)
  PROVE  \E n \in Nat :
           LET next == job[r].offset + n IN
           /\ job'[r].offset = next
           /\ \A k \in 1 .. n : job[r].offset + k \in DOMAIN list
           /\ next <= Len(list) \/ n = 0
           /\ state' = [run |-> r, collected |-> next, total |-> Len(list), denied |-> FALSE]
           /\ \A i \in Items :
                IF \E k \in 1 .. n : i = list[job[r].offset + k]
                THEN row'[i] = [run |-> r, current |-> TRUE]
                ELSE /\ row'[i].run = row[i].run
                     /\ \/ row'[i].current = row[i].current
                        \/ /\ row[i].run \notin {0, r} /\ ~row'[i].current
                           /\ next >= Len(list) /\ Len(list) <= Maximum
           /\ next >= Len(list) /\ Len(list) <= Maximum =>
                \A i \in Items : row'[i].run \notin {0, r} => ~row'[i].current
<1> USE PagesAssumption
<1> DEFINE o == job[r].offset
           count == Smaller(PageSize, Maximum - o)
<1>1. o \in Nat /\ count \in Nat /\ list \in Seq(Items) /\ Len(list) \in Nat
  <2>1. PageSize \in Nat /\ Maximum \in Nat /\ o \in Nat /\ o < Maximum
    BY DEF PagesAssumption, PageTypes, JobRow, LinksPage
  <2> QED BY <2>1 DEF Smaller, PageTypes
<1>2. PICK items \in Answers(o, count) :
        LET next  == o + Len(items)
            last  == next >= Maximum \/ next >= Len(list) \/ Len(items) < count
            rows  == Upsert(r, ToSet(items))
        IN  /\ row' = IF WholeSnapshot(last, next) THEN Retire(r, rows) ELSE rows
            /\ job' = [job EXCEPT ![r].offset = next,
                                  ![r].status = IF last THEN "collected" ELSE @]
            /\ state' = [run |-> r, collected |-> next, total |-> Len(list), denied |-> FALSE]
  BY DEF LinksPage
<1> DEFINE n == Len(items)
           next == o + n
           last == next >= Maximum \/ next >= Len(list) \/ n < count
           rows == Upsert(r, ToSet(items))
<1>3. /\ items \in Seq(Items) /\ n \in Nat
      /\ \A k \in 1 .. n : o + k \in DOMAIN list /\ items[k] = list[o + k]
      /\ next <= Len(list) \/ n = 0
  BY <1>1, AnswerFacts
<1>4. job'[r].offset = next
  BY <1>2 DEF PageTypes, JobRow
<1>5. \A i : i \in ToSet(items) <=> \E k \in 1 .. n : i = list[o + k]
  BY <1>3, SetOfSeq
<1>6. /\ rows \in [Items -> Row]
      /\ \A i \in Items : rows[i] = IF \E k \in 1 .. n : i = list[o + k]
                                    THEN [run |-> r, current |-> TRUE] ELSE row[i]
  BY <1>5, UpsertTypes, UpsertFacts
<1>7. WholeSnapshot(last, next) <=> next >= Len(list) /\ Len(list) <= Maximum
  BY DEF WholeSnapshot
<1>8. row' = IF WholeSnapshot(last, next) THEN Retire(r, rows) ELSE rows
  BY <1>2
<1>9. state' = [run |-> r, collected |-> next, total |-> Len(list), denied |-> FALSE]
  BY <1>2
<1>10. \A i \in Items : /\ Retire(r, rows)[i].run = rows[i].run
                        /\ Retire(r, rows)[i].current = (rows[i].current /\ rows[i].run \in {0, r})
                        /\ rows[i].run \in {0, r} => Retire(r, rows)[i] = rows[i]
  BY <1>6, RetireFacts
<1>11. \A i \in Items : row[i].current \in BOOLEAN
  BY DEF PageTypes, Row
<1> DEFINE whole == next >= Len(list) /\ Len(list) <= Maximum
           R == Retire(r, rows)
<1>12. row' = IF whole THEN R ELSE rows
  BY <1>7, <1>8
<1>13. \A i \in Items : /\ R[i].run = rows[i].run
                        /\ R[i].current = (rows[i].current /\ rows[i].run \in {0, r})
                        /\ rows[i].run \in {0, r} => R[i] = rows[i]
  BY <1>10
<1> HIDE DEF rows, last, count, R
<1>14. \A i \in Items :
         IF \E k \in 1 .. n : i = list[o + k]
         THEN row'[i] = [run |-> r, current |-> TRUE]
         ELSE /\ row'[i].run = row[i].run
              /\ row'[i].current = row[i].current
                 \/ (row[i].run \notin {0, r} /\ ~row'[i].current /\ whole)
  <2> SUFFICES ASSUME NEW i \in Items PROVE
         IF \E k \in 1 .. n : i = list[o + k]
         THEN row'[i] = [run |-> r, current |-> TRUE]
         ELSE /\ row'[i].run = row[i].run
              /\ row'[i].current = row[i].current
                 \/ (row[i].run \notin {0, r} /\ ~row'[i].current /\ whole)
    OBVIOUS
  <2> DEFINE hit == \E k \in 1 .. n : i = list[o + k]
  <2>1. rows[i] = IF hit THEN [run |-> r, current |-> TRUE] ELSE row[i]
    BY <1>6
  <2> HIDE DEF hit, whole
  <2>2. CASE hit
    BY <1>12, <1>13, <2>1, <2>2 DEF hit
  <2>3. CASE ~hit
    <3>1. rows[i] = row[i]
      BY <2>1, <2>3
    <3>2. /\ row'[i].run = row[i].run
          /\ row'[i].current = row[i].current
             \/ (row[i].run \notin {0, r} /\ ~row'[i].current /\ whole)
      BY <1>11, <1>12, <1>13, <3>1
    <3> QED BY <2>3, <3>2 DEF hit
  <2> QED BY <2>2, <2>3
<1>15. whole => \A i \in Items : row'[i].run \notin {0, r} => ~row'[i].current
  <2> HIDE DEF whole
  <2> QED BY <1>12, <1>13
<1> WITNESS n \in Nat
<1> QED BY <1>3, <1>4, <1>9, <1>14, <1>15
(* A job that has not begun has left nothing to be wrong.                   *)
LEMMA LinksBefore ==
  ASSUME PagesAssumption, RowsHaveRuns, NothingBefore, NEW r \in Runs, r \notin begun,
         state.run = r => state.denied
  PROVE  LinksOf(r)
<1>1. r # 0 /\ job[r].offset = 0
  BY DEF PagesAssumption, NothingBefore
<1>2. \A i \in Items : row[i].run # r
  BY <1>1 DEF RowsHaveRuns
<1> QED BY <1>1, <1>2 DEF LinksOf

LEMMA LinksNext ==
  ASSUME PagesAssumption, PageTypes, RowsHaveRuns, NothingBefore, Enumerating, LinksInv,
         PageTypes', RowsHaveRuns', NothingBefore', [Next]_vars
  PROVE  LinksInv'
<1> USE PagesAssumption
<1>a. kind' = kind
  BY StepCases, AsksShape, QuietShape, StoreShape, ListShape DEF vars
<1> SUFFICES ASSUME kind = "links", kind' = "links", NEW s \in Runs, Alone(s)'
             PROVE  LinksOf(s)'
  BY <1>a DEF LinksInv
<1>b. touched'[s] \cap {"writer", "appeared", "removed"} = {}
  BY DEF Alone
<1>c. Alone(s) => LinksOf(s)
  BY DEF LinksInv
<1>d. s # 0 /\ list \in Seq(Items)
  BY DEF PagesAssumption, PageTypes
<1>e. ASSUME s \notin begun', state'.run = s => state'.denied
      PROVE  LinksOf(s)'
  <2>1. job'[s].offset = 0
    BY <1>e DEF NothingBefore
  <2>2. \A i \in Items' : row'[i].run # s
    BY <1>d, <1>e DEF RowsHaveRuns
  <2> QED BY <1>e, <2>1, <2>2 DEF LinksOf
<1>1. ASSUME NEW r \in Runs, Asks(r) PROVE LinksOf(s)'
  <2>1. LinksPage(r)
    BY <1>1 DEF Asks, MembersPage, TopUp, WallPage, UserWallPage, LatestPosts, Running
  <2>2. /\ begun' = begun \cup {r} /\ list' = list /\ Items' = Items
        /\ \A q \in Runs \ {r} :
             touched'[q] = IF q \in begun THEN touched[q] \cup {"writer"} ELSE touched[q]
        /\ touched'[r] = touched[r] \/ touched'[r] = touched[r] \cup {"short"}
    BY <1>1, AsksShape
  <2>3. PICK n \in Nat :
           LET next == job[r].offset + n IN
           /\ job'[r].offset = next
           /\ \A k \in 1 .. n : job[r].offset + k \in DOMAIN list
           /\ next <= Len(list) \/ n = 0
           /\ state' = [run |-> r, collected |-> next, total |-> Len(list), denied |-> FALSE]
           /\ \A i \in Items :
                IF \E k \in 1 .. n : i = list[job[r].offset + k]
                THEN row'[i] = [run |-> r, current |-> TRUE]
                ELSE /\ row'[i].run = row[i].run
                     /\ \/ row'[i].current = row[i].current
                        \/ /\ row[i].run \notin {0, r} /\ ~row'[i].current
                           /\ next >= Len(list) /\ Len(list) <= Maximum
           /\ next >= Len(list) /\ Len(list) <= Maximum =>
                \A i \in Items : row'[i].run \notin {0, r} => ~row'[i].current
    BY <2>1, LinksPageShape
  <2>4. CASE s # r
    <3>1. s \notin begun'
      BY <1>b, <2>2, <2>4
    <3> QED BY <1>e, <2>3, <2>4, <3>1
  <2>5. CASE s = r
    <3>1. Alone(r) /\ r \in begun'
      BY <1>b, <2>2, <2>5 DEF Alone
    <3>2. LinksOf(r)
      BY <1>c, <2>5, <3>1
    <3>3. job[r].offset \in Nat /\ job'[r].offset = job[r].offset + n
      BY <2>3 DEF PageTypes, JobRow
    <3>4. ASSUME NEW p \in 1 .. job'[r].offset
          PROVE  p \in DOMAIN list' /\ row'[list'[p]] = [run |-> r, current |-> TRUE]
      <4>1. CASE p <= job[r].offset
        <5>1. p \in DOMAIN list /\ row[list[p]] = [run |-> r, current |-> TRUE]
          <6>1. p \in 1 .. job[r].offset
            BY <3>3, <4>1
          <6> QED BY <3>2, <6>1 DEF LinksOf
        <5>2. PICK i \in Items : i = list[p]
          BY <1>d, <5>1
        <5>3. row'[i].run = r /\ row'[i].current = TRUE
          BY <2>3, <5>1, <5>2
        <5>4. row'[i] \in Row
          BY <2>2 DEF PageTypes
        <5> QED BY <2>2, <5>1, <5>2, <5>3, <5>4 DEF Row
      <4>2. CASE p > job[r].offset
        <5>1. p - job[r].offset \in 1 .. n /\ job[r].offset + (p - job[r].offset) = p
          BY <3>3, <4>2
        <5>2. p \in DOMAIN list
          BY <2>3, <5>1
        <5>3. PICK i \in Items : i = list[p]
          BY <1>d, <5>2
        <5>4. row'[i] = [run |-> r, current |-> TRUE]
          BY <2>3, <5>1, <5>3
        <5> QED BY <2>2, <5>2, <5>3, <5>4
      <4> QED BY <3>3, <4>1, <4>2
    <3>5. ASSUME NEW i \in Items, row'[i].run = r PROVE i \in ToSet(list)
      <4>1. CASE \E k \in 1 .. n : i = list[job[r].offset + k]
        BY <1>d, <2>3, <4>1 DEF ToSet
      <4>2. CASE ~\E k \in 1 .. n : i = list[job[r].offset + k]
        <5>1. row[i].run = r
          BY <2>3, <3>5, <4>2
        <5> QED BY <3>2, <5>1 DEF LinksOf
      <4> QED BY <4>1, <4>2
    <3>6. job'[r].offset >= Len(list) /\ Len(list) <= Maximum =>
            \A i \in Items : row'[i].run \notin {0, r} => ~row'[i].current
      BY <2>3
    <3>7. state'.collected = job'[r].offset /\ state'.total = Len(list)
      BY <2>3
    <3> QED BY <2>2, <2>5, <3>1, <3>4, <3>5, <3>6, <3>7 DEF LinksOf
  <2> QED BY <2>4, <2>5
<1>2. ASSUME NEW r \in Runs, Quiet(r) PROVE LinksOf(s)'
  <2>1. /\ list' = list /\ row' = row /\ begun' = begun /\ Items' = Items
        /\ \A q \in Runs \ {r} : job'[q] = job[q] /\ touched'[q] = touched[q]
        /\ job'[r].offset = job[r].offset
        /\ touched'[r] = touched[r] \/ touched'[r] = touched[r] \cup {"resumed"}
        /\ state' = state \/ state'.denied
    BY <1>2, QuietShape
  <2>2. Alone(s) /\ job'[s].offset = job[s].offset
    BY <1>b, <2>1 DEF Alone
  <2>3. LinksOf(s)
    BY <1>c, <2>2
  <2> QED BY <2>1, <2>2, <2>3 DEF LinksOf
<1>3. ASSUME NEW r \in Runs, MembersStore(r) PROVE LinksOf(s)'
  BY <1>3, StoreShape DEF Enumerating
<1>4. ASSUME ListChanges PROVE LinksOf(s)'
  <2>1. s \notin begun' /\ touched[s] = touched'[s] /\ state' = state /\ s \notin begun
    BY <1>b, <1>4, ListShape
  <2>2. LinksOf(s)
    BY <1>b, <1>c, <2>1 DEF Alone
  <2> QED BY <1>e, <2>1, <2>2 DEF LinksOf
<1>5. ASSUME UNCHANGED vars PROVE LinksOf(s)'
  <2>1. UNCHANGED Items
    BY <1>a DEF Items
  <2>2. /\ list' = list /\ row' = row /\ job' = job /\ begun' = begun /\ state' = state
        /\ touched' = touched
    BY <1>5 DEF vars, historyVars
  <2>3. LinksOf(s)
    BY <1>b, <1>c, <2>2 DEF Alone
  <2> QED BY <2>1, <2>2, <2>3 DEF LinksOf
<1> QED BY <1>1, <1>2, <1>3, <1>4, <1>5, StepCases

LEMMA LinksAreExact ==
  ASSUME PagesAssumption, PageTypes, RowsHaveRuns, LinksInv
  PROVE  LinksExact
<1> SUFFICES ASSUME NEW r \in Runs, kind = "links", Alone(r), state.run = r, ~state.denied,
                    state.collected = state.total, state.total <= Maximum
             PROVE  Current = ToSet(list)
  BY DEF LinksExact
<1>1. LinksOf(r)
  BY DEF LinksInv
<1>2. r \in begun /\ job[r].offset = Len(list) /\ Len(list) <= Maximum
  BY <1>1 DEF LinksOf
<1>3. list \in Seq(Items) /\ Len(list) \in Nat
  BY DEF PageTypes
<1>4. ASSUME NEW i \in Items, row[i].current PROVE i \in ToSet(list)
  <2>1. row[i].run # 0
    BY <1>4 DEF RowsHaveRuns
  <2>2. row[i].run = r
    BY <1>1, <1>2, <1>3, <1>4, <2>1 DEF LinksOf
  <2> QED BY <1>1, <2>2 DEF LinksOf
<1>5. ASSUME NEW p \in 1 .. Len(list) PROVE list[p] \in Items /\ row[list[p]].current
  BY <1>1, <1>2, <1>3 DEF LinksOf
<1> QED BY <1>3, <1>4, <1>5, SetOfSeq DEF Current

LEMMA LinksAreKept ==
  ASSUME PagesAssumption, PageTypes, Enumerating, LinksInv, [Next]_vars
  PROVE  LinksStayMarked
<1> USE PagesAssumption
<1> SUFFICES ASSUME NEW r \in Runs, kind = "links", job'[r] # job[r], Alone(r),
                    NEW i \in Items, row[i].current, i \in ToSet(list)
             PROVE  i \in Current'
  BY DEF LinksStayMarked, Current
<1>1. ASSUME NEW q \in Runs, Asks(q) PROVE i \in Current'
  <2>1. LinksPage(q)
    BY <1>1 DEF Asks, MembersPage, TopUp, WallPage, UserWallPage, LatestPosts, Running
  <2>2. q = r /\ Items' = Items
    <3>1. Items' = Items
      BY <1>1, AsksShape
    <3>2. \A t \in Runs \ {q} :
            /\ job'[t] = job[t] /\ found'[t] = found[t] /\ since'[t] = since[t]
            /\ touched'[t] = IF t \in begun THEN touched[t] \cup {"writer"} ELSE touched[t]
      BY <1>1, AsksShape
    <3> QED BY <3>1, <3>2
  <2>3. PICK n \in Nat :
           LET next == job[r].offset + n IN
           /\ job'[r].offset = next
           /\ \A k \in 1 .. n : job[r].offset + k \in DOMAIN list
           /\ next <= Len(list) \/ n = 0
           /\ state' = [run |-> r, collected |-> next, total |-> Len(list), denied |-> FALSE]
           /\ \A j \in Items :
                IF \E k \in 1 .. n : j = list[job[r].offset + k]
                THEN row'[j] = [run |-> r, current |-> TRUE]
                ELSE /\ row'[j].run = row[j].run
                     /\ \/ row'[j].current = row[j].current
                        \/ /\ row[j].run \notin {0, r} /\ ~row'[j].current
                           /\ next >= Len(list) /\ Len(list) <= Maximum
           /\ next >= Len(list) /\ Len(list) <= Maximum =>
                \A j \in Items : row'[j].run \notin {0, r} => ~row'[j].current
    <3>1. LinksPage(r)
      BY <2>1, <2>2
    <3> QED BY <3>1, LinksPageShape
  <2>4. PICK p \in 1 .. Len(list) : i = list[p]
    BY SetOfSeq DEF PageTypes
  <2>5. job[r].offset \in Nat /\ Len(list) \in Nat
    BY DEF PageTypes, JobRow
  <2>6. CASE \E k \in 1 .. n : i = list[job[r].offset + k]
    <3>1. row'[i] = [run |-> r, current |-> TRUE]
      BY <2>3, <2>6
    <3>2. row'[i].current
      BY <3>1
    <3> QED BY <2>2, <3>2 DEF Current
  <2>7. CASE ~\E k \in 1 .. n : i = list[job[r].offset + k]
    <3>1. CASE p <= job[r].offset
      <4>1. row[i].run = r
        <5>1. LinksOf(r) /\ p \in 1 .. job[r].offset
          BY <2>4, <2>5, <3>1 DEF LinksInv
        <5> QED BY <2>4, <5>1 DEF LinksOf
      <4>2. row'[i].current
        BY <2>3, <2>7, <4>1
      <4> QED BY <2>2, <4>2 DEF Current
    <3>2. CASE p > job[r].offset
      <4>1. p - job[r].offset \in Nat \ {0} /\ p = job[r].offset + (p - job[r].offset)
        BY <2>4, <2>5, <3>2
      <4>2. p - job[r].offset > n
        BY <2>4, <2>7, <4>1
      <4>3. job[r].offset + n < Len(list)
        BY <2>4, <2>5, <4>1, <4>2
      <4>4. row'[i].current
        BY <2>3, <2>5, <2>7, <4>3
      <4> QED BY <2>2, <4>4 DEF Current
    <3> QED BY <2>4, <2>5, <3>1, <3>2
  <2> QED BY <2>6, <2>7
<1>2. ASSUME NEW q \in Runs, Quiet(q) PROVE i \in Current'
  BY <1>2, QuietShape DEF Current
<1>3. ASSUME NEW q \in Runs, MembersStore(q) PROVE i \in Current'
  BY <1>3, StoreShape DEF Enumerating
<1>4. ASSUME ListChanges PROVE i \in Current'
  BY <1>4, ListShape
<1>5. ASSUME UNCHANGED vars PROVE i \in Current'
  BY <1>5 DEF vars
<1> QED BY <1>1, <1>2, <1>3, <1>4, <1>5, StepCases
-----------------------------------------------------------------------------
(* The members of a group.                                                  *)

LEMMA MembersInit ==
  ASSUME PagesAssumption, Init, PageTypes PROVE MembersInv
<1>1. \A r \in Runs : r # 0
  BY DEF PagesAssumption
<1>2. Len(list) \in Nat
  BY DEF PageTypes
<1> QED BY <1>1, <1>2 DEF Init, MembersInv, MembersOf

(* A page of members that was not short: the list up to the new offset, and *)
(* if it was the last one, the whole list.                                  *)
LEMMA MembersPageShape ==
  ASSUME PagesAssumption, PageTypes, NEW r \in Runs, MembersPage(r),
         job[r].offset <= Len(list), touched'[r] = {},
         found[r] = {list[p] : p \in 1 .. job[r].offset}
  PROVE  /\ job'[r].offset \in Nat /\ job'[r].offset <= Len(list) /\ UNCHANGED row
         /\ found'[r] = {list[p] : p \in 1 .. job'[r].offset}
         /\ job'[r].status \in {"running", "enumerated"}
         /\ job'[r].status = "enumerated" => job'[r].offset = Len(list)
<1> USE PagesAssumption
<1> DEFINE o == job[r].offset
<1>1. o \in Nat /\ list \in Seq(Items) /\ Len(list) \in Nat /\ PageSize \in Nat \ {0}
      /\ job[r].status = "running" /\ job[r] \in JobRow
  BY DEF PageTypes, JobRow, PagesAssumption, MembersPage, Running
<1>2. PICK items \in Answers(o, PageSize) :
        LET next == o + Len(items)
            last == items = <<>> \/ next >= Len(list) \/ Len(items) < PageSize
        IN  /\ found' = [found EXCEPT ![r] = @ \cup ToSet(items)]
            /\ job' = [job EXCEPT ![r].offset = next,
                                  ![r].status = IF last THEN "enumerated" ELSE @]
            /\ Asked(r, o, PageSize, items)
  BY DEF MembersPage
<1> DEFINE n == Len(items)
           next == o + n
           last == items = <<>> \/ next >= Len(list) \/ n < PageSize
<1>3. /\ items \in Seq(Items) /\ n \in Nat
      /\ \A k \in 1 .. n : o + k \in DOMAIN list /\ items[k] = list[o + k]
      /\ o + n <= Len(list) \/ n = 0
      /\ n < Smaller(PageSize, Len(list) - o)
              \/ (o < Len(list) => n = Smaller(PageSize, Len(list) - o))
  <2>1. o \in Nat /\ PageSize \in Nat
    BY <1>1
  <2>2. items \in Seq(Items)
    BY <2>1, AnswerFacts
  <2>3. \A k \in 1 .. n : o + k \in DOMAIN list /\ items[k] = list[o + k]
    BY <2>1, AnswerFacts
  <2>4. o + n <= Len(list) \/ n = 0
    BY <2>1, AnswerFacts
  <2>5. n < Smaller(PageSize, Len(list) - o)
          \/ (o < Len(list) => n = Smaller(PageSize, Len(list) - o))
    BY <2>1, AnswerFacts
  <2> QED BY <2>2, <2>3, <2>4, <2>5
<1>4. touched'[r] = touched[r] \cup (IF n < Smaller(PageSize, Len(list) - o) THEN {"short"} ELSE {})
  BY <1>1, <1>2, <1>3, AskedFacts
<1>5. o < Len(list) => n = Smaller(PageSize, Len(list) - o)
  BY <1>3, <1>4
<1>6. next \in Nat /\ next <= Len(list)
  BY <1>1, <1>3
<1>7. last => next = Len(list)
  <2>1. CASE o < Len(list)
    <3>1. n = Smaller(PageSize, Len(list) - o) /\ n > 0
      BY <1>1, <1>5, <2>1 DEF Smaller
    <3>2. items # <<>>
      BY <3>1
    <3> QED BY <1>1, <1>6, <3>1, <3>2 DEF Smaller
  <2>2. CASE o = Len(list)
    BY <1>1, <1>3, <1>6, <2>2
  <2> QED BY <1>1, <2>1, <2>2
<1>8. job'[r].offset = next /\ job'[r].status = IF last THEN "enumerated" ELSE "running"
  BY <1>1, <1>2 DEF PageTypes, JobRow
<1>9. found'[r] = {list[p] : p \in 1 .. next}
  <2>1. found'[r] = found[r] \cup ToSet(items) /\ ToSet(items) = {items[k] : k \in 1 .. n}
    BY <1>2, <1>3, SetOfSeq DEF PageTypes
  <2>a. o \in Nat /\ n \in Nat /\ next = o + n
    BY <1>1, <1>3
  <2>2. ASSUME NEW k \in 1 .. n PROVE items[k] = list[o + k] /\ o + k \in 1 .. next
    <3>1. items[k] = list[o + k]
      BY <1>3
    <3> QED BY <2>a, <3>1
  <2>3. ASSUME NEW p \in 1 .. next, p \notin 1 .. o PROVE p - o \in 1 .. n /\ o + (p - o) = p
    BY <2>a, <2>3
  <2>4. \A p \in 1 .. o : p \in 1 .. next
    BY <2>a
  <2> QED
    <3>1. ASSUME NEW x \in found'[r] PROVE x \in {list[p] : p \in 1 .. next}
      BY <2>1, <2>2, <2>4, <3>1
    <3>2. ASSUME NEW p \in 1 .. next PROVE list[p] \in found'[r]
      <4>1. CASE p \in 1 .. o
        BY <2>1, <4>1
      <4>2. CASE p \notin 1 .. o
        <5>1. items[p - o] = list[p]
          BY <2>2, <2>3, <4>2
        <5> QED BY <2>1, <2>3, <4>2, <5>1
      <4> QED BY <4>1, <4>2
    <3> QED BY <3>1, <3>2
<1>10. UNCHANGED row
  BY DEF MembersPage
<1> QED BY <1>6, <1>7, <1>8, <1>9, <1>10

LEMMA MembersNext ==
  ASSUME PagesAssumption, PageTypes, RowsHaveRuns, NothingBefore, Enumerating, MembersInv,
         PageTypes', RowsHaveRuns', NothingBefore', [Next]_vars
  PROVE  MembersInv'
<1> USE PagesAssumption
<1>a. kind' = kind
  BY StepCases, AsksShape, QuietShape, StoreShape, ListShape DEF vars
<1>b. UNCHANGED Items
  BY <1>a DEF Items
<1> SUFFICES ASSUME kind \in {"members", "baseline"}, NEW s \in Runs, touched'[s] = {},
                    ~(kind = "baseline" /\ s = 1)
             PROVE  MembersOf(s)'
  BY <1>a DEF MembersInv
<1>c. touched[s] = {} => MembersOf(s)
  BY DEF MembersInv
<1>d. s # 0 /\ list \in Seq(Items) /\ Len(list) \in Nat /\ Len(list') \in Nat
  BY DEF PagesAssumption, PageTypes
<1>e. ASSUME s \notin begun', job'[s].status \notin {"enumerated", "collected", "done"}
      PROVE  MembersOf(s)'
  <2>1. job'[s].offset = 0 /\ found'[s] = {}
    BY <1>e DEF NothingBefore
  <2>2. \A i \in Items' : row'[i].run # s
    BY <1>d, <1>e DEF RowsHaveRuns
  <2> QED BY <1>d, <1>e, <2>1, <2>2 DEF MembersOf
<1>f. ASSUME s \notin begun', s \notin begun, touched[s] = {}, job'[s] = job[s]
      PROVE  MembersOf(s)'
  <2>1. job[s].status \notin {"enumerated", "collected", "done"}
    BY <1>c, <1>f DEF MembersOf
  <2> QED BY <1>e, <1>f, <2>1
<1>g. UNCHANGED <<list, row, begun>> /\ job'[s] = job[s] /\ found'[s] = found[s] /\ touched[s] = {}
        => MembersOf(s)'
  <2> HAVE UNCHANGED <<list, row, begun>> /\ job'[s] = job[s] /\ found'[s] = found[s] /\ touched[s] = {}
  <2>1. MembersOf(s) /\ Current' = Current /\ Sample(ToSet(list))' = Sample(ToSet(list))
    BY <1>b, <1>c DEF Current, Sample
  <2> QED BY <1>b, <2>1 DEF MembersOf
<1>1. ASSUME NEW r \in Runs, Asks(r) PROVE MembersOf(s)'
  <2>1. /\ begun' = begun \cup {r} /\ list' = list
        /\ touched'[r] = touched[r] \/ touched'[r] = touched[r] \cup {"short"}
    BY <1>1, AsksShape
  <2>2. \A q \in Runs \ {r} :
          /\ job'[q] = job[q] /\ found'[q] = found[q] /\ since'[q] = since[q]
          /\ touched'[q] = IF q \in begun THEN touched[q] \cup {"writer"} ELSE touched[q]
    BY <1>1, AsksShape
  <2>3. CASE s # r
    <3>1. s \notin begun /\ s \notin begun' /\ touched[s] = {} /\ job'[s] = job[s]
      BY <2>1, <2>2, <2>3
    <3> QED BY <1>f, <3>1
  <2>4. CASE s = r
    <3>1. MembersPage(s)
      BY <1>1, <2>4, Zenon DEF Asks, LinksPage, TopUp, WallPage, UserWallPage, LatestPosts, Running
    <3>2. touched[s] = {} /\ s \in begun'
      BY <2>1, <2>4
    <3>3. MembersOf(s)
      BY <1>c, <3>2
    <3>4. /\ job'[s].offset \in Nat /\ job'[s].offset <= Len(list) /\ UNCHANGED row
          /\ found'[s] = {list[p] : p \in 1 .. job'[s].offset}
          /\ job'[s].status \in {"running", "enumerated"}
          /\ job'[s].status = "enumerated" => job'[s].offset = Len(list)
      BY <3>1, <3>3, MembersPageShape DEF MembersOf
    <3>5. Sample(ToSet(list))' = Sample(ToSet(list))
      BY <2>1 DEF Sample
    <3>6. list' = list /\ Items' = Items /\ row' = row /\ Current' = Current
      BY <1>b, <2>1, <3>4 DEF Current
    <3>7. job'[s].status \notin {"collected", "done"}
      BY <3>4
    <3>8. \A i \in Items : row[i].run = s => i \in Sample(ToSet(list))
      BY <3>3 DEF MembersOf
    <3> HIDE <3>3
    <3> QED BY <3>2, <3>4, <3>5, <3>6, <3>7, <3>8 DEF MembersOf
  <2> QED BY <2>3, <2>4
<1>2. ASSUME NEW r \in Runs, Quiet(r) PROVE MembersOf(s)'
  <2>1. /\ list' = list /\ row' = row /\ begun' = begun
        /\ \A q \in Runs \ {r} : job'[q] = job[q] /\ found'[q] = found[q] /\ touched'[q] = touched[q]
        /\ job'[r].offset = job[r].offset
        /\ job'[r].status \in {"pending", "running", "done", "skipped"}
        /\ touched'[r] = touched[r] \/ touched'[r] = touched[r] \cup {"resumed"}
        /\ \/ found'[r] = found[r]
           \/ found'[r] = {} /\ (job[r].offset = 0 \/ "resumed" \in touched'[r])
        /\ job'[r].status = "done" => job[r].status = "collected" \/ AtMaximum(r)
    BY <1>2, QuietShape
  <2>2. CASE s # r
    BY <1>g, <2>1, <2>2
  <2>3. CASE s = r
    <3>1. touched[s] = {} /\ ~AtMaximum(s)
      BY <2>1, <2>3 DEF AtMaximum
    <3>2. MembersOf(s)
      BY <1>c, <3>1
    <3>3. found'[s] = found[s]
      BY <2>1, <2>3, <3>2 DEF MembersOf
    <3>4. Current' = Current /\ Sample(ToSet(list))' = Sample(ToSet(list))
      BY <1>b, <2>1 DEF Current, Sample
    <3> QED BY <1>b, <2>1, <2>3, <3>1, <3>2, <3>3, <3>4 DEF MembersOf
  <2> QED BY <2>2, <2>3
<1>3. ASSUME NEW r \in Runs, MembersStore(r) PROVE MembersOf(s)'
  <2>1. /\ list' = list /\ found' = found /\ begun' = begun
        /\ job[r].status = "enumerated"
        /\ \A q \in Runs \ {r} :
             /\ job'[q] = job[q]
             /\ touched'[q] = IF q \in begun THEN touched[q] \cup {"writer"} ELSE touched[q]
        /\ job'[r].offset = job[r].offset
        /\ job'[r].status = "collected" /\ touched'[r] = touched[r]
        /\ \A i \in Items : IF i \in Sample(found[r]) THEN row'[i] = [run |-> r, current |-> TRUE]
              ELSE /\ row'[i].run = row[i].run
                   /\ row'[i].current = (row[i].current /\ row[i].run \in {0, r})
    BY <1>3, StoreShape
  <2>2. CASE s # r
    <3>1. s \notin begun /\ s \notin begun' /\ touched[s] = {} /\ job'[s] = job[s]
      BY <2>1, <2>2
    <3> QED BY <1>f, <3>1
  <2>3. CASE s = r
    <3>1. MembersOf(s)
      BY <1>c, <2>1, <2>3
    <3>2. found[s] = ToSet(list) /\ job[s].offset = Len(list) /\ s \in begun
      BY <1>d, <2>1, <2>3, <3>1, SetOfSeq DEF MembersOf
    <3>3. Sample(ToSet(list)) \subseteq Items
      <4>1. ToSet(list) \in SUBSET Items /\ IsFiniteSet(Items)
        BY <1>d, SetOfSeq, ItemFacts DEF PageTypes
      <4>2. IsFiniteSet(ToSet(list))
        BY <4>1, FS_Subset
      <4> QED BY <4>1, <4>2, SampleFacts
    <3>4. ASSUME NEW i \in Items
          PROVE  /\ row'[i].run = s => i \in Sample(ToSet(list))
                 /\ row'[i].current => i \in Sample(ToSet(list))
                 /\ i \in Sample(ToSet(list)) => row'[i].current
      <4>1. CASE i \in Sample(ToSet(list))
        BY <2>1, <2>3, <3>2, <4>1
      <4>2. CASE i \notin Sample(ToSet(list))
        <5>1. /\ row'[i].run = row[i].run
              /\ row'[i].current = (row[i].current /\ row[i].run \in {0, s})
          BY <2>1, <2>3, <3>2, <4>2
        <5>2. row[i].run # s
          BY <3>1, <4>2 DEF MembersOf
        <5>3. ~row'[i].current
          BY <5>1, <5>2 DEF RowsHaveRuns
        <5> QED BY <4>2, <5>1, <5>2, <5>3
      <4> QED BY <4>1, <4>2
    <3>5. Current' = Sample(ToSet(list))
      <4>1. Current' = {i \in Items : row'[i].current}
        BY <1>b DEF Current
      <4>2. ASSUME NEW i \in Current' PROVE i \in Sample(ToSet(list))
        BY <3>4, <4>1
      <4>3. ASSUME NEW i \in Sample(ToSet(list)) PROVE i \in Current'
        BY <3>3, <3>4, <4>1
      <4> QED BY <4>2, <4>3
    <3>6. Sample(ToSet(list))' = Sample(ToSet(list))
      BY <2>1 DEF Sample
    <3> QED BY <1>b, <1>d, <2>1, <2>3, <3>1, <3>2, <3>4, <3>5, <3>6 DEF MembersOf
  <2> QED BY <2>2, <2>3
<1>4. ASSUME ListChanges PROVE MembersOf(s)'
  <2>1. s \notin begun /\ s \notin begun' /\ touched[s] = {} /\ job'[s] = job[s]
    BY <1>4, ListShape
  <2> QED BY <1>f, <2>1
<1>5. ASSUME UNCHANGED vars PROVE MembersOf(s)'
  <2>1. /\ UNCHANGED <<list, row, begun>> /\ job'[s] = job[s] /\ found'[s] = found[s]
        /\ touched[s] = {}
    BY <1>5 DEF vars, historyVars
  <2> QED BY <1>g, <2>1
<1> QED BY <1>1, <1>2, <1>3, <1>4, <1>5, StepCases

LEMMA SamplesAreWhole ==
  ASSUME MembersInv PROVE SampleOfAll
  BY DEF MembersInv, MembersOf, SampleOfAll
-----------------------------------------------------------------------------
(* Counting the posts up to a place of the list.                            *)

LEMMA PlacesFinite ==
  ASSUME NEW n \in Int, NEW A \in SUBSET (1 .. n)
  PROVE  IsFiniteSet(A) /\ Cardinality(A) \in Nat
<1>1. IsFiniteSet(1 .. n)
  BY FS_Interval
<1>2. IsFiniteSet(A)
  BY <1>1, FS_Subset
<1> QED BY <1>2, FS_CardinalityType

(* A post that appears at place t moves the ones from t on down by one.     *)
LEMMA CountMoved ==
  ASSUME NEW t \in Nat, NEW m \in Int, NEW A \in SUBSET (1 .. m), NEW B \in SUBSET (1 .. m + 1),
         \A s \in A : (IF s < t THEN s ELSE s + 1) \in B
  PROVE  Cardinality(A) <= Cardinality(B)
<1> DEFINE f == [s \in A |-> IF s < t THEN s ELSE s + 1]
<1>1. f \in [A -> B]
  OBVIOUS
<1>2. \A a, b \in A : f[a] = f[b] => a = b
  OBVIOUS
<1>3. f \in Injection(A, B)
  BY <1>1, <1>2 DEF Injection, IsInjective
<1>4. m + 1 \in Int
  OBVIOUS
<1>5. IsFiniteSet(B)
  BY <1>4, PlacesFinite
<1> QED BY <1>3, <1>5, FS_Injection

LEMMA CountKept ==
  ASSUME NEW n \in Nat, NEW t \in 1 .. n, NEW A \in SUBSET (1 .. n), NEW B \in SUBSET (1 .. n),
         n \in A, t \in B,
         \A s \in 1 .. n : s < n => (s \in A <=> (IF s < t THEN s ELSE s + 1) \in B)
  PROVE  Cardinality(A) = Cardinality(B)
<1> DEFINE f == [s \in A |-> IF s = n THEN t ELSE IF s < t THEN s ELSE s + 1]
<1>1. f \in [A -> B]
  OBVIOUS
<1>2. \A a, b \in A : f[a] = f[b] => a = b
  OBVIOUS
<1>3. ASSUME NEW b \in B PROVE \E a \in A : f[a] = b
  <2>1. CASE b < t
    <3>1. b \in 1 .. n /\ b < n /\ b \in A
      BY <2>1
    <3> QED BY <2>1, <3>1
  <2>2. CASE b = t
    BY <2>2
  <2>3. CASE b > t
    <3>1. b - 1 \in 1 .. n /\ b - 1 < n /\ ~(b - 1 < t) /\ (b - 1) + 1 = b
      BY <2>3
    <3>2. b - 1 \in A /\ b - 1 # n
      BY <3>1
    <3>3. f[b - 1] = b
      BY <3>1, <3>2
    <3> QED BY <3>2, <3>3
  <2> QED BY <2>1, <2>2, <2>3
<1> HIDE DEF f
<1>4. f \in Bijection(A, B)
  BY <1>1, <1>2, <1>3 DEF Bijection, Injection, Surjection, IsInjective
<1>5. n \in Int
  OBVIOUS
<1>6. IsFiniteSet(A)
  BY <1>5, PlacesFinite
<1> QED BY <1>4, <1>6, FS_Bijection DEF ExistsBijection

LEMMA NewestIs ==
  \A x : x \in Newest <=> \E q \in DOMAIN list : NewestAt(q) /\ x = list[q]
  BY DEF Newest, NewestAt

(* What is stored up to place n holds the newest posts, if none is beyond.  *)
LEMMA StoredUpTo ==
  ASSUME PageTypes, NEW X, NEW Y, NEW n \in Nat,
         \A p \in 1 .. n : Visible(p) /\ list[p] \in X => list[p] \in Y,
         \A q \in DOMAIN list : NewestAt(q) => q <= n
  PROVE  Newest \cap X \subseteq Y
<1> SUFFICES ASSUME NEW x \in Newest, x \in X PROVE x \in Y
  OBVIOUS
<1>1. PICK q \in DOMAIN list : NewestAt(q) /\ x = list[q]
  BY NewestIs
<1>2. q \in 1 .. n /\ Visible(q)
  BY <1>1 DEF PageTypes, NewestAt
<1> QED BY <1>1, <1>2

(* No newest post is beyond the place where the maximum is reached.         *)
LEMMA MaximumReached ==
  ASSUME PagesAssumption, PageTypes, NEW n \in Nat,
         Cardinality({p \in 1 .. n : Visible(p)}) >= Maximum
  PROVE  \A q \in DOMAIN list : NewestAt(q) => q <= n
<1> SUFFICES ASSUME NEW q \in DOMAIN list, NewestAt(q), q > n PROVE FALSE
  BY DEF PageTypes
<1> DEFINE A == {p \in 1 .. n : Visible(p)}
           B == {s \in 1 .. q - 1 : Visible(s)}
<1>1. q \in Nat /\ A \subseteq B
  BY DEF PageTypes
<1>2. B \in SUBSET (1 .. q - 1) /\ A \in SUBSET (1 .. n)
  OBVIOUS
<1>3. Cardinality(B) < Maximum /\ Cardinality(A) >= Maximum /\ Maximum \in Nat
  BY DEF NewestAt, PagesAssumption
<1> HIDE DEF A, B
<1>4. IsFiniteSet(B) /\ Cardinality(B) \in Nat /\ Cardinality(A) \in Nat
  <2>1. q - 1 \in Int /\ n \in Int
    BY <1>1
  <2>2. IsFiniteSet(B) /\ Cardinality(B) \in Nat
    BY <1>2, <2>1, PlacesFinite
  <2>3. Cardinality(A) \in Nat
    BY <1>2, <2>1, PlacesFinite
  <2> QED BY <2>2, <2>3
<1>5. Cardinality(A) <= Cardinality(B)
  BY <1>1, <1>4, FS_Subset
<1> QED BY <1>3, <1>4, <1>5

LEMMA MaximumPlain ==
  ASSUME PagesAssumption, PageTypes, kind # "userWall"
  PROVE  \A q \in DOMAIN list : NewestAt(q) => q <= Maximum
<1>1. {p \in 1 .. Maximum : Visible(p)} = 1 .. Maximum
  BY DEF Visible
<1>2. Cardinality(1 .. Maximum) = Maximum /\ Maximum \in Nat
  BY FS_Interval DEF PagesAssumption
<1> QED BY <1>1, <1>2, MaximumReached

(* The posts of a page that are kept are those of its places that are       *)
(* visible, and are counted with those before it.                           *)
LEMMA CountPage ==
  ASSUME PagesAssumption, PageTypes, kind = "userWall", InOrder(list),
         NEW o \in Nat, NEW items \in Seq(Items),
         \A k \in 1 .. Len(items) : o + k \in DOMAIN list /\ items[k] = list[o + k]
  PROVE  /\ Fresh(items) = {list[p] : p \in {q \in o + 1 .. o + Len(items) : Visible(q)}}
         /\ Cardinality({p \in 1 .. o + Len(items) : Visible(p)})
              = Cardinality({p \in 1 .. o : Visible(p)}) + Cardinality(Fresh(items))
<1> DEFINE n == Len(items)
           A == {p \in 1 .. o : Visible(p)}
           B == {q \in o + 1 .. o + n : Visible(q)}
           C == {p \in 1 .. o + n : Visible(p)}
           g == [q \in B |-> list[q]]
<1>1. n \in Nat /\ list \in Seq(Items) /\ DOMAIN items = 1 .. n
  BY DEF PageTypes
<1>2. ASSUME NEW q \in o + 1 .. o + n
      PROVE  q - o \in 1 .. n /\ o + (q - o) = q /\ q \in DOMAIN list /\ items[q - o] = list[q]
  <2>1. q - o \in 1 .. n /\ o + (q - o) = q
    BY <1>1
  <2> QED BY <2>1
<1>3. ASSUME NEW q \in B, NEW b \in Beyond(items) PROVE q - o < b
  <2>1. b \in 1 .. n /\ items[b] \in Old \ Pinned
    BY <1>1 DEF Beyond
  <2>2. list[o + b] \in Old \ Pinned /\ o + b \in DOMAIN list
    BY <2>1
  <2>3. list[q] \notin Old /\ q \in DOMAIN list /\ q \in Nat
    BY <1>1, <1>2 DEF Visible
  <2>4. ~(o + b < q)
    BY <2>2, <2>3 DEF InOrder
  <2>5. o + b # q
    BY <2>2, <2>3
  <2> QED BY <2>1, <2>3, <2>4, <2>5
<1>4. Fresh(items) = {list[q] : q \in B}
  <2>1. ASSUME NEW x \in Fresh(items) PROVE x \in {list[q] : q \in B}
    <3>1. PICK k \in 1 .. n : items[k] \notin Old /\ x = items[k]
      BY <1>1, <2>1 DEF Fresh
    <3>2. o + k \in B /\ list[o + k] = x
      BY <1>1, <3>1 DEF Visible
    <3> QED BY <3>2
  <2>2. ASSUME NEW q \in B PROVE list[q] \in Fresh(items)
    <3>1. q - o \in 1 .. n /\ items[q - o] = list[q] /\ list[q] \notin Old
      BY <1>2 DEF Visible
    <3>2. \A b \in Beyond(items) : q - o < b
      BY <1>3
    <3> QED BY <1>1, <3>1, <3>2 DEF Fresh
  <2> QED BY <2>1, <2>2
<1>5. g \in Bijection(B, {list[q] : q \in B})
  <2>1. \A a, b \in B : list[a] = list[b] => a = b
    BY <1>2 DEF InOrder
  <2> QED BY <2>1 DEF Bijection, Injection, Surjection, IsInjective
<1>6. /\ A \in SUBSET (1 .. o) /\ B \in SUBSET (1 .. o + n) /\ C = A \cup B /\ A \cap B = {}
  BY <1>1
<1>7. C \in SUBSET (1 .. o + n) /\ o + n \in Nat
  BY <1>1
<1> HIDE DEF A, B, C, g, n
<1>8. IsFiniteSet(A) /\ IsFiniteSet(B) /\ Cardinality(A) \in Nat /\ Cardinality(B) \in Nat
  <2>1. o \in Int /\ o + n \in Int
    BY <1>7
  <2>2. IsFiniteSet(A) /\ Cardinality(A) \in Nat
    BY <1>6, <2>1, PlacesFinite
  <2>3. IsFiniteSet(B) /\ Cardinality(B) \in Nat
    BY <1>6, <2>1, PlacesFinite
  <2> QED BY <2>2, <2>3
<1>9. Cardinality(C) = Cardinality(A) + Cardinality(B)
  <2>1. Cardinality(A \cup B) = Cardinality(A) + Cardinality(B) - Cardinality(A \cap B)
    BY <1>8, FS_Union
  <2>2. Cardinality(A \cap B) = 0
    BY <1>6, FS_EmptySet
  <2> QED BY <1>6, <1>8, <2>1, <2>2
<1>10. Cardinality(Fresh(items)) = Cardinality(B)
  BY <1>4, <1>5, <1>8, FS_Bijection DEF ExistsBijection
<1> QED BY <1>4, <1>9, <1>10 DEF A, B, C, n
-----------------------------------------------------------------------------
(* The posts of a wall.                                                     *)

(* A page that is not short ends with the list, if it is the last one.      *)
LEMMA LastPage ==
  ASSUME PageTypes, NEW o \in Nat, NEW count \in Nat \ {0}, NEW items \in Answers(o, count),
         o <= Len(list), ~(Len(items) < Smaller(count, Len(list) - o))
  PROVE  /\ items \in Seq(Items) /\ Len(items) \in Nat
         /\ \A k \in 1 .. Len(items) : o + k \in DOMAIN list /\ items[k] = list[o + k]
         /\ o + Len(items) \in Nat /\ o + Len(items) <= Len(list)
         /\ items = <<>> \/ o + Len(items) >= Len(list) \/ Len(items) < count
              => o + Len(items) = Len(list)
<1> DEFINE n == Len(items)
<1>1. count \in Nat /\ Len(list) \in Nat
  BY DEF PageTypes
<1>2. items \in Seq(Items) /\ \A k \in 1 .. n : o + k \in DOMAIN list /\ items[k] = list[o + k]
  BY <1>1, AnswerFacts
<1>3. o + n <= Len(list) \/ n = 0
  BY <1>1, AnswerFacts
<1>4. o < Len(list) => n = Smaller(count, Len(list) - o)
  BY <1>1, AnswerFacts
<1>5. n \in Nat
  BY <1>2
<1>6. ASSUME items = <<>> \/ o + n >= Len(list) \/ n < count PROVE o + n = Len(list)
  <2>1. CASE o < Len(list)
    <3>1. n = Smaller(count, Len(list) - o) /\ n > 0
      BY <1>1, <1>4, <2>1 DEF Smaller
    <3>2. items # <<>>
      BY <3>1
    <3> QED BY <1>1, <1>3, <1>5, <1>6, <3>1, <3>2 DEF Smaller
  <2>2. CASE o = Len(list)
    BY <1>1, <1>3, <1>5, <2>2
  <2> QED BY <1>1, <2>1, <2>2
<1> QED BY <1>1, <1>2, <1>3, <1>5, <1>6

LEMMA OrderInit ==
  ASSUME PagesAssumption, Init PROVE WallInOrder
  BY DEF PagesAssumption, Init, WallInOrder

LEMMA OrderNext ==
  ASSUME PagesAssumption, PageTypes, WallInOrder, PageTypes', [Next]_vars
  PROVE  WallInOrder'
<1> USE PagesAssumption
<1>a. kind' = kind
  BY StepCases, AsksShape, QuietShape, StoreShape, ListShape DEF vars
<1> SUFFICES ASSUME kind = "userWall" PROVE InOrder(list')
  BY <1>a DEF WallInOrder
<1>b. InOrder(list)
  BY DEF WallInOrder
<1>c. list \in Seq(Items) /\ Len(list) \in Nat
  BY DEF PageTypes
<1>1. CASE list' = list
  BY <1>b, <1>1
<1>2. CASE Spare \notin ToSet(list) /\ list' = InsertAt(list, Top, Spare)
  <2> DEFINE t == Top
  <2>1. t \in 1 .. Len(list) + 1 /\ Spare \in Items
    BY TopFacts DEF Items
  <2>2. Len(list') = Len(list) + 1
    BY <1>c, <1>2, <2>1, InsertFacts
  <2>3. \A q \in 1 .. Len(list) + 1 :
          list'[q] = IF q < t THEN list[q] ELSE IF q = t THEN Spare ELSE list[q - 1]
    <3>1. list' = InsertAt(list, t, Spare)
      BY <1>2
    <3> HIDE DEF t
    <3>2. \A q \in 1 .. Len(list) + 1 : InsertAt(list, t, Spare)[q] =
            IF q < t THEN list[q] ELSE IF q = t THEN Spare ELSE list[q - 1]
      BY <1>c, <2>1, InsertFacts
    <3> QED BY <3>1, <3>2
  <2>4. list' \in Seq(Items') /\ DOMAIN list' = 1 .. Len(list) + 1
    BY <2>2 DEF PageTypes
  <2>5. t > 1 => t = 2 /\ list[1] \in Pinned
    BY DEF Top
  <2>6. t = 1 => ~(list # <<>> /\ list[1] \in Pinned)
    BY DEF Top
  <2>7. Spare \notin Old /\ Spare \notin Pinned /\ \A p \in 1 .. Len(list) : list[p] # Spare
    BY <1>2, <1>c, SetOfSeq DEF PagesAssumption
  <2> HIDE DEF t
  <2>8. ASSUME NEW p \in DOMAIN list', NEW q \in DOMAIN list', p < q, list'[p] \in Old \ Pinned
        PROVE  list'[q] \in Old
    <3>1. p # t
      BY <2>3, <2>4, <2>7, <2>8
    <3>2. CASE p < t
      <4>1. t = 2 /\ list[1] \in Pinned /\ p = 1
        BY <2>1, <2>4, <2>5, <3>2
      <4> QED BY <2>3, <2>4, <2>8, <3>2, <4>1
    <3>3. CASE p > t
      <4>1. p - 1 \in DOMAIN list /\ q - 1 \in DOMAIN list /\ p - 1 < q - 1 /\ q > t
        BY <1>c, <2>1, <2>4, <2>8, <3>3
      <4>2. list'[p] = list[p - 1] /\ list'[q] = list[q - 1]
        BY <1>c, <2>1, <2>3, <2>4, <3>3, <4>1
      <4> QED BY <1>b, <2>8, <4>1, <4>2 DEF InOrder
    <3> QED BY <2>1, <2>4, <3>1, <3>2, <3>3
  <2>9. ASSUME NEW p \in DOMAIN list', list'[p] \in Pinned PROVE p = 1
    <3>1. p # t
      BY <2>3, <2>4, <2>7, <2>9
    <3>2. CASE p < t
      BY <2>1, <2>4, <2>5, <3>2
    <3>3. CASE p > t
      <4>1. p - 1 \in DOMAIN list /\ list'[p] = list[p - 1]
        BY <1>c, <2>1, <2>3, <2>4, <3>3
      <4>2. p - 1 = 1 /\ list[1] \in Pinned
        BY <1>b, <2>9, <4>1 DEF InOrder
      <4>3. t = 1 /\ list # <<>>
        BY <1>c, <2>1, <2>4, <3>3, <4>1, <4>2
      <4> QED BY <2>6, <4>2, <4>3
    <3> QED BY <2>1, <2>4, <3>1, <3>2, <3>3
  <2>10. ASSUME NEW p \in DOMAIN list', NEW q \in DOMAIN list', list'[p] = list'[q]
         PROVE  p = q
    <3> DEFINE back(k) == IF k < t THEN k ELSE k - 1
    <3>1. ASSUME NEW k \in DOMAIN list', k # t
          PROVE  back(k) \in DOMAIN list /\ list'[k] = list[back(k)]
      <4>1. CASE k < t
        BY <1>c, <2>1, <2>3, <2>4, <4>1
      <4>2. CASE k > t
        BY <1>c, <2>1, <2>3, <2>4, <4>2
      <4> QED BY <2>1, <2>4, <3>1, <4>1, <4>2
    <3>2. CASE p = t /\ q = t
      BY <3>2
    <3>3. CASE p = t /\ q # t
      <4>1. back(q) \in 1 .. Len(list) /\ list'[q] = list[back(q)]
        BY <1>c, <3>1, <3>3
      <4> QED BY <2>3, <2>4, <2>7, <2>10, <3>3, <4>1
    <3>4. CASE p # t /\ q = t
      <4>1. back(p) \in 1 .. Len(list) /\ list'[p] = list[back(p)]
        BY <1>c, <3>1, <3>4
      <4> QED BY <2>3, <2>4, <2>7, <2>10, <3>4, <4>1
    <3>5. CASE p # t /\ q # t
      <4>1. back(p) = back(q)
        <5>1. back(p) \in DOMAIN list /\ list'[p] = list[back(p)]
          BY <3>1, <3>5
        <5>2. back(q) \in DOMAIN list /\ list'[q] = list[back(q)]
          BY <3>1, <3>5
        <5> HIDE DEF back
        <5> QED BY <1>b, <2>10, <5>1, <5>2 DEF InOrder
      <4> QED BY <2>1, <2>4, <3>5, <4>1
    <3> QED BY <3>2, <3>3, <3>4, <3>5
  <2> QED BY <2>8, <2>9, <2>10 DEF InOrder
<1>3. ASSUME NEW i \in DOMAIN list, list' = RemoveAt(list, i) PROVE InOrder(list')
  <2>1. Len(list') = Len(list) - 1
    BY <1>c, <1>3, RemoveFacts
  <2>2. \A q \in 1 .. Len(list) - 1 : list'[q] = IF q < i THEN list[q] ELSE list[q + 1]
    BY <1>c, <1>3, RemoveFacts
  <2>3. list' \in Seq(Items') /\ DOMAIN list' = 1 .. Len(list) - 1
    BY <2>1 DEF PageTypes
  <2> DEFINE from(k) == IF k < i THEN k ELSE k + 1
  <2>4. ASSUME NEW k \in DOMAIN list'
        PROVE  from(k) \in DOMAIN list /\ list'[k] = list[from(k)]
    <3>1. CASE k < i
      BY <1>c, <2>2, <2>3, <3>1
    <3>2. CASE k >= i
      BY <1>c, <2>2, <2>3, <3>2
    <3> QED BY <1>c, <2>3, <3>1, <3>2
  <2>5. \A p, q \in DOMAIN list' : (p < q => from(p) < from(q)) /\ (from(p) = from(q) => p = q)
                                   /\ (from(p) = 1 => p = 1)
    BY <1>c, <2>3
  <2> HIDE DEF from
  <2> QED BY <1>b, <2>4, <2>5 DEF InOrder
<1>4. list' = list \/ ListChanges
  BY StepCases, AsksShape, QuietShape, StoreShape DEF vars
<1> QED BY <1>1, <1>2, <1>3, <1>4, ListShape
LEMMA PostsInit ==
  ASSUME PagesAssumption, Init, PageTypes PROVE PostsInv
<1> SUFFICES ASSUME NEW r \in Runs PROVE PostsOf(r)
  BY DEF PostsInv
<1>1. since[r] = {} /\ job[r].offset = 0 /\ Len(list) \in Nat
  BY DEF Init, PageTypes
<1> QED BY <1>1 DEF PostsOf, NewestStored

LEMMA PostsBefore ==
  ASSUME PageTypes, NothingBefore, NEW r \in Runs, r \notin begun
  PROVE  PostsOf(r)
<1>1. since[r] = {} /\ job[r].offset = 0 /\ Len(list) \in Nat
  BY DEF NothingBefore, PageTypes
<1> QED BY <1>1 DEF PostsOf, NewestStored

(* A page of a wall, as long as it was not short.                           *)
LEMMA WallPageKeeps ==
  ASSUME PagesAssumption, PageTypes, NothingBefore, kind = "wall", NEW r \in Runs, WallPage(r),
         PostsOf(r), Undisturbed(r)', NEW X, X = since'[r], NEW Y, Y = Stored', Stored \subseteq Y
  PROVE  /\ X \subseteq ToSet(list) /\ job'[r].offset \in Nat /\ job'[r].offset <= Len(list)
         /\ \A p \in 1 .. job'[r].offset : list[p] \in X => list[p] \in Y
         /\ job'[r].status \in {"collected", "done"} => Newest \cap X \subseteq Y
<1> USE PagesAssumption
<1> DEFINE o == job[r].offset
           count == Smaller(PageSize, Maximum - o)
<1>1. /\ o \in Nat /\ count \in Nat \ {0} /\ job[r].status = "running" /\ job[r] \in JobRow
      /\ list \in Seq(Items) /\ Len(list) \in Nat /\ r # 0
  <2>1. PageSize \in Nat \ {0} /\ Maximum \in Nat /\ o \in Nat /\ o < Maximum /\ r # 0
    BY DEF PagesAssumption, PageTypes, JobRow, WallPage
  <2>2. count \in Nat \ {0}
    BY <2>1 DEF Smaller
  <2>3. list \in Seq(Items) /\ Len(list) \in Nat /\ job[r] \in JobRow
    BY DEF PageTypes
  <2>4. job[r].status = "running"
    BY DEF WallPage, Running
  <2> QED BY <2>1, <2>2, <2>3, <2>4
<1>2. PICK items \in Answers(o, count) :
        LET next == o + Len(items)
            last == items = <<>> \/ next >= Len(list) \/ Len(items) < count
        IN  /\ row' = Upsert(r, ToSet(items))
            /\ job' = [job EXCEPT ![r].offset = next, ![r].collected = next,
                                  ![r].status = IF last THEN "collected" ELSE @]
            /\ Asked(r, o, count, items)
  BY Zenon DEF WallPage
<1> DEFINE n == Len(items)
           next == o + n
           last == items = <<>> \/ next >= Len(list) \/ n < count
<1> HIDE DEF count
<1>3. count \in Nat /\ items \in Seq(Items)
  BY <1>1, AnswersAreItems
<1>4. /\ touched'[r] = touched[r] \cup (IF n < Smaller(count, Len(list) - o) THEN {"short"} ELSE {})
      /\ X = IF r \in begun THEN since[r] ELSE ToSet(list)
  BY <1>1, <1>2, <1>3, AskedFacts
<1>5. ~(n < Smaller(count, Len(list) - o)) /\ o <= Len(list)
  BY <1>4 DEF Undisturbed, PostsOf
<1>6. /\ n \in Nat /\ \A k \in 1 .. n : o + k \in DOMAIN list /\ items[k] = list[o + k]
      /\ next \in Nat /\ next <= Len(list) /\ (last => next = Len(list))
  BY <1>1, <1>5, LastPage
<1>7. job'[r].offset = next /\ job'[r].status = IF last THEN "collected" ELSE "running"
  BY <1>1, <1>2 DEF PageTypes, JobRow
<1>8. X \subseteq ToSet(list)
  BY <1>4 DEF PostsOf
<1>9. ASSUME NEW p \in 1 .. next, list[p] \in X PROVE list[p] \in Y
  <2>1. CASE p <= o
    <3>1. r \in begun
      BY <1>1, <2>1 DEF NothingBefore
    <3>2. p \in 1 .. o
      BY <1>1, <1>6, <2>1
    <3> QED BY <1>4, <1>9, <3>1, <3>2 DEF PostsOf, Visible
  <2>2. CASE p > o
    <3>1. p - o \in 1 .. n /\ o + (p - o) = p
      BY <1>1, <1>6, <2>2
    <3>2. items[p - o] = list[p] /\ list[p] \in Items
      <4>1. o + (p - o) \in DOMAIN list /\ items[p - o] = list[o + (p - o)]
        BY <1>6, <3>1
      <4>2. p \in DOMAIN list
        BY <3>1, <4>1
      <4> QED BY <1>1, <3>1, <4>1, <4>2
    <3>3. list[p] \in ToSet(items)
      BY <1>3, <3>1, <3>2, SetOfSeq
    <3>4. row'[list[p]].run = r
      <4>1. \A i \in Items : Upsert(r, ToSet(items))[i] =
              IF i \in ToSet(items) THEN [run |-> r, current |-> TRUE] ELSE row[i]
        BY UpsertFacts
      <4>2. row' = Upsert(r, ToSet(items))
        BY <1>2
      <4> QED BY <3>2, <3>3, <4>1, <4>2
    <3>5. Items' = Items
      BY DEF WallPage, Items
    <3> QED BY <1>1, <3>2, <3>4, <3>5 DEF Stored
  <2> QED BY <1>1, <1>6, <2>1, <2>2
<1>10. ASSUME last PROVE Newest \cap X \subseteq Y
  <2>1. \A q \in DOMAIN list : NewestAt(q) => q <= next
    BY <1>1, <1>6, <1>10
  <2> HIDE DEF next, last
  <2> QED BY <1>6, <1>9, <2>1, StoredUpTo
<1> QED BY <1>6, <1>7, <1>8, <1>9, <1>10

(* The newest posts of a subscription, in one request.                      *)
LEMMA LatestPostsKeep ==
  ASSUME PagesAssumption, PageTypes, kind = "latest", NEW r \in Runs, LatestPosts(r),
         PostsOf(r), Undisturbed(r)', NEW X, X = since'[r], NEW Y, Y = Stored', Stored \subseteq Y
  PROVE  /\ X \subseteq ToSet(list) /\ job'[r].offset \in Nat /\ job'[r].offset <= Len(list)
         /\ \A p \in 1 .. job'[r].offset : list[p] \in X => list[p] \in Y
         /\ Newest \cap X \subseteq Y
<1> USE PagesAssumption
<1>1. Maximum \in Nat /\ list \in Seq(Items) /\ Len(list) \in Nat /\ r # 0
  BY DEF PageTypes, PagesAssumption
<1>2. PICK items \in Answers(0, Maximum) :
        /\ row' = Upsert(r, ToSet(items))
        /\ job' = [job EXCEPT ![r].offset = Len(items), ![r].status = "collected"]
        /\ Asked(r, 0, Maximum, items)
  BY DEF LatestPosts
<1> DEFINE n == Len(items)
<1>3. items \in Seq(Items) /\ \A k \in 1 .. n : 0 + k \in DOMAIN list /\ items[k] = list[0 + k]
  BY <1>1, AnswerFacts
<1>4. /\ touched'[r] = touched[r] \cup (IF n < Smaller(Maximum, Len(list) - 0) THEN {"short"} ELSE {})
      /\ X = IF r \in begun THEN since[r] ELSE ToSet(list)
  BY <1>1, <1>2, <1>3, AskedFacts
<1>5. 0 < Len(list) => n = Smaller(Maximum, Len(list) - 0)
  <2>1. ~(n < Smaller(Maximum, Len(list) - 0))
    BY <1>4 DEF Undisturbed
  <2> QED BY <1>1, <2>1, AnswerFacts
<1>6. n \in Nat /\ n <= Len(list) /\ \A k \in 1 .. n : items[k] = list[k]
  <2>1. 0 + n <= Len(list) \/ n = 0
    BY <1>1, AnswerFacts
  <2> QED BY <1>1, <1>3, <2>1
<1>7. job'[r].offset = n
  BY <1>2 DEF PageTypes, JobRow
<1>8. X \subseteq ToSet(list)
  BY <1>4 DEF PostsOf
<1>9. ASSUME NEW p \in 1 .. n PROVE list[p] \in Y
  <2>1. list[p] \in ToSet(items) /\ list[p] \in Items
    BY <1>1, <1>3, <1>6, SetOfSeq
  <2>2. row'[list[p]].run = r
    <3>1. \A i \in Items : Upsert(r, ToSet(items))[i] =
            IF i \in ToSet(items) THEN [run |-> r, current |-> TRUE] ELSE row[i]
      BY UpsertFacts
    <3>2. row' = Upsert(r, ToSet(items))
      BY <1>2
    <3> QED BY <2>1, <3>1, <3>2
  <2>3. Items' = Items
    BY DEF LatestPosts, Items
  <2> QED BY <1>1, <2>1, <2>2, <2>3 DEF Stored
<1>10. \A q \in DOMAIN list : NewestAt(q) => q <= n
  <2>1. \A q \in DOMAIN list : NewestAt(q) => q <= Maximum
    BY MaximumPlain
  <2> QED BY <1>1, <1>5, <2>1 DEF Smaller
<1>11. Newest \cap X \subseteq Y
  BY <1>6, <1>9, <1>10, StoredUpTo
<1> QED BY <1>6, <1>7, <1>8, <1>9, <1>11
(* A page of a user's wall: up to the cutoff it keeps and counts every      *)
(* visible post, and beyond it there is none.                               *)
LEMMA UserWallKeeps ==
  ASSUME PagesAssumption, PageTypes, NothingBefore, kind = "userWall", InOrder(list),
         NEW r \in Runs, UserWallPage(r), PostsOf(r), Undisturbed(r)',
         NEW X, X = since'[r], NEW Y, Y = Stored', Stored \subseteq Y
  PROVE  /\ X \subseteq ToSet(list) /\ job'[r].offset \in Nat /\ job'[r].offset <= Len(list)
         /\ \A p \in 1 .. job'[r].offset : Visible(p) /\ list[p] \in X => list[p] \in Y
         /\ job'[r].status \in {"collected", "done"} => Newest \cap X \subseteq Y
         /\ \/ Newest \cap X \subseteq Y
            \/ /\ \A p \in 1 .. job'[r].offset : list[p] \notin Old \ Pinned
               /\ job'[r].collected = Cardinality({p \in 1 .. job'[r].offset : Visible(p)})
<1> USE PagesAssumption
<1> DEFINE o == job[r].offset
           count == Smaller(PageSize, Maximum - job[r].collected)
<1>1. /\ o \in Nat /\ count \in Nat \ {0} /\ job[r].status = "running" /\ job[r] \in JobRow
      /\ list \in Seq(Items) /\ Len(list) \in Nat /\ r # 0 /\ job[r].collected \in Nat
      /\ Maximum \in Nat
  <2>1. /\ PageSize \in Nat \ {0} /\ Maximum \in Nat /\ o \in Nat /\ job[r].collected \in Nat
        /\ job[r].collected < Maximum /\ r # 0
    BY DEF PagesAssumption, PageTypes, JobRow, UserWallPage
  <2>2. count \in Nat \ {0}
    BY <2>1 DEF Smaller
  <2>3. list \in Seq(Items) /\ Len(list) \in Nat /\ job[r] \in JobRow
    BY DEF PageTypes
  <2>4. job[r].status = "running"
    BY DEF UserWallPage, Running
  <2> QED BY <2>1, <2>2, <2>3, <2>4
<1>2. PICK items \in Answers(o, count) :
        LET next == o + Len(items)
            kept == job[r].collected + Cardinality(Fresh(items))
            last == \/ items = <<>> \/ Beyond(items) # {} \/ kept >= Maximum
                    \/ next >= Len(list) \/ Len(items) < count
        IN  /\ row' = Upsert(r, Fresh(items))
            /\ job' = [job EXCEPT ![r].offset = next, ![r].collected = kept,
                                  ![r].status = IF last THEN "collected" ELSE @]
            /\ Asked(r, o, count, items)
  BY Zenon DEF UserWallPage
<1> DEFINE n == Len(items)
           next == o + n
           kept == job[r].collected + Cardinality(Fresh(items))
           end == items = <<>> \/ next >= Len(list) \/ n < count
           last == \/ items = <<>> \/ Beyond(items) # {} \/ kept >= Maximum
                   \/ next >= Len(list) \/ Len(items) < count
<1> HIDE DEF count
<1>3. count \in Nat /\ items \in Seq(Items)
  BY <1>1, AnswersAreItems
<1>4. /\ touched'[r] = touched[r] \cup (IF n < Smaller(count, Len(list) - o) THEN {"short"} ELSE {})
      /\ X = IF r \in begun THEN since[r] ELSE ToSet(list)
  BY <1>1, <1>2, <1>3, AskedFacts
<1>5. ~(n < Smaller(count, Len(list) - o)) /\ o <= Len(list)
  BY <1>4 DEF Undisturbed, PostsOf
<1>6. /\ n \in Nat /\ \A k \in 1 .. n : o + k \in DOMAIN list /\ items[k] = list[o + k]
      /\ next \in Nat /\ next <= Len(list) /\ (end => next = Len(list))
  BY <1>1, <1>5, LastPage
<1>7. /\ job'[r].offset = next /\ job'[r].collected = kept
      /\ job'[r].status = IF last THEN "collected" ELSE "running"
  BY <1>1, <1>2 DEF PageTypes, JobRow
<1>8. X \subseteq ToSet(list)
  BY <1>4 DEF PostsOf
<1>9. /\ Fresh(items) = {list[p] : p \in {q \in o + 1 .. o + n : Visible(q)}}
      /\ Cardinality({p \in 1 .. o + n : Visible(p)})
           = Cardinality({p \in 1 .. o : Visible(p)}) + Cardinality(Fresh(items))
  BY <1>1, <1>3, <1>6, CountPage
<1>10. ASSUME NEW p \in 1 .. next, Visible(p), list[p] \in X PROVE list[p] \in Y
  <2>1. CASE p <= o
    <3>1. r \in begun
      BY <1>1, <2>1 DEF NothingBefore
    <3>2. p \in 1 .. o
      BY <1>1, <1>6, <2>1
    <3> QED BY <1>4, <1>10, <3>1, <3>2 DEF PostsOf
  <2>2. CASE p > o
    <3>1. p \in o + 1 .. o + n
      BY <1>1, <1>6, <2>2
    <3>2. list[p] \in Fresh(items) /\ list[p] \in Items
      BY <1>1, <1>6, <1>9, <1>10, <3>1
    <3>3. row'[list[p]].run = r
      <4>1. \A i \in Items : Upsert(r, Fresh(items))[i] =
              IF i \in Fresh(items) THEN [run |-> r, current |-> TRUE] ELSE row[i]
        BY UpsertFacts
      <4>2. row' = Upsert(r, Fresh(items))
        BY <1>2
      <4> QED BY <3>2, <4>1, <4>2
    <3>4. Items' = Items
      BY DEF UserWallPage, Items
    <3> QED BY <1>1, <3>2, <3>3, <3>4 DEF Stored
  <2> QED BY <1>1, <1>6, <2>1, <2>2
<1> DEFINE counted == /\ \A p \in 1 .. next : list[p] \notin Old \ Pinned
                      /\ kept = Cardinality({p \in 1 .. next : Visible(p)})
<1>11. ASSUME \A q \in DOMAIN list : NewestAt(q) => q <= next PROVE Newest \cap X \subseteq Y
  <2> HIDE DEF next
  <2> QED BY <1>6, <1>10, <1>11, StoredUpTo
<1>12. ASSUME end PROVE Newest \cap X \subseteq Y
  <2>1. \A q \in DOMAIN list : q <= next
    BY <1>1, <1>6, <1>12
  <2> QED BY <1>11, <2>1
<1>13. ASSUME Beyond(items) # {} PROVE Newest \cap X \subseteq Y
  <2>1. PICK b \in 1 .. n : items[b] \in Old \ Pinned
    BY <1>3, <1>13 DEF Beyond
  <2>2. o + b \in DOMAIN list /\ list[o + b] \in Old \ Pinned /\ o + b <= next
    BY <1>1, <1>6, <2>1
  <2>3. ASSUME NEW q \in DOMAIN list, NewestAt(q), ~(q <= next) PROVE FALSE
    <3>1. o + b < q
      <4>1. q \in Nat
        BY <1>1, <2>3
      <4>2. o + b \in Nat
        BY <1>1, <2>2
      <4>3. next \in Nat
        BY <1>6
      <4> HIDE DEF next
      <4> QED BY <2>2, <2>3, <4>1, <4>2, <4>3
    <3>2. list[q] \in Old
      BY <2>2, <3>1 DEF InOrder
    <3> QED BY <2>3, <3>2 DEF NewestAt, Visible
  <2> QED BY <1>11, <2>3
<1>14. ASSUME Beyond(items) = {}, ~(Newest \cap X \subseteq Y) PROVE counted
  <2>1. Counted(r)
    <3>1. CASE r \in begun
      <4>1. X = since[r] /\ ~NewestStored(r)
        BY <1>4, <1>14, <3>1 DEF NewestStored
      <4> QED BY <4>1 DEF PostsOf
    <3>2. CASE r \notin begun
      <4>1. job[r].offset = 0 /\ job[r].collected = 0
        BY <3>2 DEF NothingBefore
      <4> QED BY <4>1, FS_EmptySet DEF Counted
    <3> QED BY <3>1, <3>2
  <2>2. ASSUME NEW p \in 1 .. next PROVE list[p] \notin Old \ Pinned
    <3>1. CASE p <= o
      <4>1. p \in 1 .. o
        BY <1>1, <1>6, <3>1
      <4> QED BY <2>1, <4>1 DEF Counted
    <3>2. CASE p > o
      <4>1. p - o \in 1 .. n /\ o + (p - o) = p
        <5>1. o \in Nat /\ n \in Nat /\ p \in 1 .. o + n
          BY <1>1, <1>6
        <5> QED BY <3>2, <5>1
      <4>2. items[p - o] = list[p] /\ p - o \in DOMAIN items
        BY <1>3, <1>6, <4>1
      <4> QED BY <1>14, <4>2 DEF Beyond
    <3> QED BY <1>1, <1>6, <3>1, <3>2
  <2>3. kept = Cardinality({p \in 1 .. next : Visible(p)})
    BY <1>9, <2>1 DEF Counted
  <2> QED BY <2>2, <2>3
<1>15. ASSUME Beyond(items) = {}, kept >= Maximum PROVE Newest \cap X \subseteq Y
  <2> SUFFICES ASSUME ~(Newest \cap X \subseteq Y) PROVE FALSE
    OBVIOUS
  <2>1. Cardinality({p \in 1 .. next : Visible(p)}) >= Maximum
    BY <1>14, <1>15
  <2> HIDE DEF next
  <2>2. \A q \in DOMAIN list : NewestAt(q) => q <= next
    BY <1>6, <2>1, MaximumReached
  <2> QED BY <1>11, <2>2
<1>16. last => Newest \cap X \subseteq Y
  BY <1>12, <1>13, <1>15
<1>17. Newest \cap X \subseteq Y \/ counted
  BY <1>13, <1>14
<1> HIDE DEF last, kept
<1> QED BY <1>6, <1>7, <1>8, <1>10, <1>16, <1>17
(* A post that appears at the top: what was there before moves down.        *)
LEMMA PostsMoved ==
  ASSUME PagesAssumption, PageTypes, PageTypes', kind' = kind, UNCHANGED Stored,
         kind = "userWall" => InOrder(list), NEW r \in Runs, PostsOf(r),
         Spare \notin ToSet(list), list' = InsertAt(list, Top, Spare),
         since'[r] = since[r], job'[r] = job[r]
  PROVE  PostsOf(r)'
<1> USE PagesAssumption
<1> DEFINE t == Top
           m == Len(list)
           o == job[r].offset
<1>1. /\ list \in Seq(Items) /\ m \in Nat /\ o \in Nat /\ o <= m /\ DOMAIN list = 1 .. m
      /\ t \in 1 .. m + 1 /\ Spare \in Items /\ t \in Nat
  <2>1. list \in Seq(Items) /\ o \in Nat /\ Spare \in Items
    BY DEF PageTypes, JobRow, Items
  <2>2. o <= m
    BY DEF PostsOf
  <2>3. t \in 1 .. m + 1
    BY TopFacts
  <2> QED BY <2>1, <2>2, <2>3
<1>2. list' = InsertAt(list, t, Spare)
  OBVIOUS
<1>3. t > 1 => t = 2 /\ list[1] \in Pinned
  BY DEF Top
<1>4. t = 1 => ~(list # <<>> /\ list[1] \in Pinned)
  BY DEF Top
<1>5. /\ Spare \notin Old /\ Spare \notin Pinned /\ \A p \in 1 .. m : list[p] # Spare
      /\ Spare \notin since[r]
  BY <1>1, SetOfSeq DEF PagesAssumption, PostsOf
<1> HIDE DEF t
<1>6. Len(list') = m + 1 /\ \A q \in 1 .. m + 1 : list'[q] =
            IF q < t THEN list[q] ELSE IF q = t THEN Spare ELSE list[q - 1]
  <2>1. Len(InsertAt(list, t, Spare)) = m + 1
    BY <1>1, InsertFacts
  <2>2. \A q \in 1 .. m + 1 : InsertAt(list, t, Spare)[q] =
            IF q < t THEN list[q] ELSE IF q = t THEN Spare ELSE list[q - 1]
    BY <1>1, InsertFacts
  <2> QED BY <1>2, <2>1, <2>2
<1>7. list' \in Seq(Items') /\ DOMAIN list' = 1 .. m + 1
  BY <1>6 DEF PageTypes
<1> DEFINE seen(p) == kind = "userWall" => list'[p] \notin Old
           down(p) == IF p < t THEN p ELSE p + 1
           up(p) == IF p < t THEN p ELSE p - 1
<1>8. ASSUME NEW p \in 1 .. m
      PROVE  /\ down(p) \in 1 .. m + 1 /\ list'[down(p)] = list[p] /\ (seen(down(p)) <=> Visible(p))
             /\ p <= down(p)
  <2>1. CASE p < t
    BY <1>1, <1>6, <2>1 DEF Visible
  <2>2. CASE p >= t
    <3>1. p + 1 \in 1 .. m + 1 /\ p + 1 > t /\ (p + 1) - 1 = p /\ down(p) = p + 1
      BY <1>1, <2>2
    <3>2. list'[p + 1] = list[p]
      BY <1>1, <1>6, <3>1
    <3> QED BY <1>1, <3>1, <3>2 DEF Visible
  <2> QED BY <1>1, <2>1, <2>2
<1>9. ASSUME NEW p \in 1 .. m + 1, p # t
      PROVE  up(p) \in 1 .. m /\ list'[p] = list[up(p)] /\ up(p) <= p /\ (seen(p) <=> Visible(up(p)))
  <2>1. CASE p < t
    BY <1>1, <1>6, <2>1 DEF Visible
  <2>2. CASE p > t
    <3>1. p - 1 \in 1 .. m /\ up(p) = p - 1
      BY <1>1, <2>2
    <3>2. list'[p] = list[p - 1]
      BY <1>1, <1>6, <2>2
    <3> QED BY <1>1, <3>1, <3>2 DEF Visible
  <2> QED BY <1>1, <1>9, <2>1, <2>2
<1>10. list'[t] = Spare
  BY <1>1, <1>6
<1>11. since[r] \subseteq ToSet(list')
  <2>1. ASSUME NEW x \in since[r] PROVE x \in ToSet(list')
    <3>1. PICK p \in 1 .. m : x = list[p]
      BY <1>1, SetOfSeq DEF PostsOf
    <3>2. down(p) \in DOMAIN list' /\ list'[down(p)] = x
      BY <1>7, <1>8, <3>1
    <3> HIDE DEF down
    <3> QED BY <3>2 DEF ToSet
  <2> QED BY <2>1
<1>12. ASSUME NEW p \in 1 .. o, seen(p), list'[p] \in since[r] PROVE list'[p] \in Stored
  <2>1. p # t /\ p \in 1 .. m + 1
    BY <1>1, <1>5, <1>10, <1>12
  <2>2. up(p) \in 1 .. m /\ list'[p] = list[up(p)] /\ up(p) <= p /\ Visible(up(p))
    BY <1>9, <1>12, <2>1
  <2> HIDE DEF up
  <2>3. up(p) \in 1 .. o
    BY <1>1, <2>2
  <2> QED BY <1>12, <2>2, <2>3 DEF PostsOf
<1>13. ASSUME NewestStored(r) PROVE NewestStored(r)'
  <2>1. ASSUME NEW x \in Newest', x \in since[r] PROVE x \in Newest
    <3>1. PICK q \in 1 .. m + 1 : /\ seen(q) /\ x = list'[q]
                                 /\ Cardinality({s \in 1 .. q - 1 : seen(s)}) < Maximum
      BY <1>7, <2>1 DEF Newest, Visible
    <3>2. q # t
      BY <1>5, <1>10, <2>1, <3>1
    <3>3. up(q) \in 1 .. m /\ x = list[up(q)] /\ Visible(up(q)) /\ up(q) \in {q, q - 1}
      BY <1>9, <3>1, <3>2
    <3> DEFINE A == {s \in 1 .. up(q) - 1 : Visible(s)}
               B == {s \in 1 .. q - 1 : seen(s)}
    <3>4. Cardinality(A) <= Cardinality(B) /\ Cardinality(A) \in Nat /\ Cardinality(B) \in Nat
      <4>1. CASE q < t
        <5>1. up(q) = q
          BY <4>1
        <5>2. ASSUME NEW s \in 1 .. q - 1 PROVE seen(s) <=> Visible(s)
          <6>1. s < t /\ s \in 1 .. m + 1 /\ s # t
            BY <1>1, <3>1, <4>1
          <6>2. up(s) = s
            BY <6>1
          <6>3. seen(s) <=> Visible(up(s))
            BY <1>9, <6>1
          <6> HIDE DEF up, seen
          <6> QED BY <6>2, <6>3
        <5>3. A = B
          <6>1. A = {s \in 1 .. q - 1 : Visible(s)}
            BY <5>1
          <6>2. {s \in 1 .. q - 1 : Visible(s)} = {s \in 1 .. q - 1 : seen(s)}
            BY <5>2
          <6> QED BY <6>1, <6>2
        <5>4. B \in SUBSET (1 .. q - 1) /\ q - 1 \in Int
          OBVIOUS
        <5> HIDE DEF A, B
        <5>5. Cardinality(B) \in Nat
          BY <5>4, PlacesFinite
        <5> QED BY <5>3, <5>5
      <4>2. CASE q > t
        <5>1. up(q) = q - 1
          BY <1>1, <4>2
        <5> DEFINE k == q - 2
        <5>2. k \in Int /\ k + 1 = q - 1 /\ A \in SUBSET (1 .. k) /\ B \in SUBSET (1 .. k + 1)
          BY <5>1
        <5>3. ASSUME NEW s \in A PROVE (IF s < t THEN s ELSE s + 1) \in B
          <6>1. s \in 1 .. m /\ Visible(s) /\ s <= q - 2
            BY <1>1, <5>1
          <6>2. seen(down(s)) /\ down(s) \in 1 .. q - 1
            BY <1>1, <1>8, <6>1
          <6> QED BY <6>2
        <5>4. k + 1 \in Int
          BY <5>2
        <5> HIDE DEF A, B, k
        <5>5. Cardinality(A) <= Cardinality(B)
          BY <1>1, <5>2, <5>3, CountMoved
        <5>6. Cardinality(A) \in Nat
          BY <5>2, PlacesFinite
        <5>7. Cardinality(B) \in Nat
          BY <5>2, <5>4, PlacesFinite
        <5> QED BY <5>5, <5>6, <5>7
      <4> QED BY <1>1, <3>2, <4>1, <4>2
    <3>5. NewestAt(up(q)) /\ up(q) \in DOMAIN list
      <4>1. Cardinality(B) < Maximum /\ Maximum \in Nat
        BY <3>1 DEF PagesAssumption
      <4> QED BY <1>1, <3>3, <3>4, <4>1 DEF NewestAt
    <3> QED BY <3>3, <3>5, NewestIs
  <2> QED BY <1>13, <2>1 DEF NewestStored
<1>14. ASSUME kind = "userWall", Counted(r) PROVE Counted(r)'
  <2> DEFINE A == {p \in 1 .. o : Visible(p)}
             B == {p \in 1 .. o : seen(p)}
  <2>1. ASSUME NEW p \in 1 .. o PROVE list'[p] \notin Old \ Pinned
    <3>1. CASE p = t
      BY <1>5, <1>10, <3>1
    <3>2. CASE p # t
      <4>1. p \in 1 .. m + 1
        BY <1>1
      <4>2. up(p) \in 1 .. m /\ list'[p] = list[up(p)] /\ up(p) <= p
        BY <1>9, <3>2, <4>1
      <4> HIDE DEF up
      <4>3. up(p) \in 1 .. o
        BY <1>1, <4>2
      <4> QED BY <1>14, <4>2, <4>3 DEF Counted
    <3> QED BY <3>1, <3>2
  <2>2. Cardinality(A) = Cardinality(B)
    <3>1. CASE o < t
      <4>1. ASSUME NEW s \in 1 .. o PROVE seen(s) <=> Visible(s)
        BY <1>1, <1>9, <3>1
      <4>2. A = B
        BY <4>1
      <4> QED BY <4>2
    <3>2. CASE o >= t
      <4>1. o \in 1 .. m /\ t \in 1 .. o
        BY <1>1, <3>2
      <4>2. o \in A
        <5>1. list[o] \notin Old \ Pinned
          BY <1>14, <4>1 DEF Counted
        <5>2. ASSUME list[o] \in Pinned PROVE FALSE
          <6>1. o = 1
            BY <1>1, <1>14, <4>1, <5>2 DEF InOrder
          <6>2. t = 1 /\ list # <<>>
            BY <1>1, <4>1, <6>1
          <6> QED BY <1>4, <5>2, <6>1, <6>2
        <5> QED BY <4>1, <5>1, <5>2 DEF Visible
      <4>3. t \in B
        BY <1>5, <1>10, <4>1
      <4>4. ASSUME NEW s \in 1 .. o, s < o PROVE s \in A <=> (IF s < t THEN s ELSE s + 1) \in B
        <5>1. s \in 1 .. m /\ down(s) \in 1 .. o
          BY <1>1, <4>4
        <5>2. seen(down(s)) <=> Visible(s)
          BY <1>8, <5>1
        <5>3. s \in A <=> down(s) \in B
          <6> HIDE DEF down, seen
          <6> QED BY <5>1, <5>2
        <5> QED BY <5>3
      <4>5. A \in SUBSET (1 .. o) /\ B \in SUBSET (1 .. o)
        OBVIOUS
      <4>6. \A s \in 1 .. o : s < o => (s \in A <=> (IF s < t THEN s ELSE s + 1) \in B)
        BY <4>4
      <4>7. o \in Nat
        BY <1>1
      <4> HIDE DEF A, B, o
      <4> QED BY <4>1, <4>2, <4>3, <4>5, <4>6, <4>7, CountKept
    <3> QED BY <1>1, <3>1, <3>2
  <2>3. job'[r].collected = Cardinality(B)
    BY <1>14, <2>2 DEF Counted
  <2> QED BY <1>14, <2>1, <2>3 DEF Counted, Visible
<1>15. o <= Len(list')
  BY <1>1, <1>6
<1>16. job'[r].status \in {"collected", "done"} => NewestStored(r)'
  BY <1>13 DEF PostsOf
<1>17. kind = "userWall" => NewestStored(r)' \/ Counted(r)'
  BY <1>13, <1>14 DEF PostsOf
<1>18. \A p \in 1 .. o : Visible(p)' /\ list'[p] \in since[r] => list'[p] \in Stored
  BY <1>12 DEF Visible
<1> QED BY <1>11, <1>15, <1>16, <1>17, <1>18 DEF PostsOf
LEMMA PostsNext ==
  ASSUME PagesAssumption, PageTypes, RowsHaveRuns, NothingBefore, Enumerating, WallInOrder, PostsInv,
         PageTypes', NothingBefore', [Next]_vars
  PROVE  PostsInv'
<1> USE PagesAssumption
<1>a. kind' = kind
  BY StepCases, AsksShape, QuietShape, StoreShape, ListShape DEF vars
<1>b. UNCHANGED Items
  BY <1>a DEF Items
<1> SUFFICES ASSUME kind \in {"wall", "userWall", "latest"}, NEW s \in Runs, Undisturbed(s)'
             PROVE  PostsOf(s)'
  BY <1>a DEF PostsInv
<1>c. kind = "userWall" => InOrder(list)
  BY DEF WallInOrder
<1>d. Undisturbed(s) => PostsOf(s)
  BY DEF PostsInv
(* As long as the list stays and rows only come, there is little to see.    *)
<1>e. ASSUME list' = list, Stored \subseteq Stored'
      PROVE  /\ Newest' = Newest /\ ToSet(list)' = ToSet(list)
             /\ \A p : Visible(p)' = Visible(p)
  BY <1>a, <1>e DEF Newest, Visible
<1>f. ASSUME list' = list, Stored \subseteq Stored', since'[s] = since[s],
             job'[s].offset = job[s].offset, job'[s].collected = job[s].collected, PostsOf(s),
             job'[s].status \in {"collected", "done"} => NewestStored(s)
      PROVE  PostsOf(s)'
  <2>1. NewestStored(s) => NewestStored(s)'
    BY <1>e, <1>f DEF NewestStored
  <2>2. Counted(s) => Counted(s)'
    BY <1>a, <1>f DEF Counted, Visible
  <2>3. since'[s] \subseteq ToSet(list') /\ job'[s].offset <= Len(list')
    BY <1>f DEF PostsOf
  <2>4. \A p \in 1 .. job'[s].offset :
          Visible(p)' /\ list'[p] \in since'[s] => list'[p] \in Stored'
    BY <1>a, <1>f DEF PostsOf, Visible
  <2>5. kind' = "userWall" => NewestStored(s)' \/ Counted(s)'
    BY <1>a, <1>f, <2>1, <2>2 DEF PostsOf
  <2> QED BY <1>f, <2>1, <2>3, <2>4, <2>5 DEF PostsOf
<1>1. ASSUME NEW r \in Runs, Asks(r) PROVE PostsOf(s)'
  <2>1. /\ begun' = begun \cup {r} /\ list' = list
        /\ touched'[r] = touched[r] \/ touched'[r] = touched[r] \cup {"short"}
    BY <1>1, AsksShape
  <2>2. \A q \in Runs \ {r} :
          /\ job'[q] = job[q] /\ found'[q] = found[q] /\ since'[q] = since[q]
          /\ touched'[q] = IF q \in begun THEN touched[q] \cup {"writer"} ELSE touched[q]
    BY <1>1, AsksShape
  <2>3. Stored \subseteq Stored'
    <3>1. r # 0 /\ \A i \in Items : row'[i].run \in {row[i].run, r}
      BY <1>1, AsksShape DEF PagesAssumption
    <3> QED BY <1>b, <3>1 DEF Stored
  <2>4. PostsOf(s)
    <3>1. Undisturbed(s)
      BY <2>1, <2>2 DEF Undisturbed
    <3> QED BY <1>d, <3>1
  <2>5. CASE s # r
    <3>1. job'[s] = job[s] /\ since'[s] = since[s]
      BY <2>2, <2>5
    <3>2. job'[s].status \in {"collected", "done"} => NewestStored(s)
      BY <2>4, <3>1 DEF PostsOf
    <3> QED BY <1>f, <2>1, <2>3, <2>4, <3>1, <3>2
  <2>6. CASE s = r
    <3>1. PICK X : X = since'[r]
      OBVIOUS
    <3>2. PICK Y : Y = Stored'
      OBVIOUS
    <3>3. Undisturbed(r)' /\ PostsOf(r) /\ Stored \subseteq Y
      BY <2>3, <2>4, <2>6, <3>2
    <3>4. WallPage(r) \/ UserWallPage(r) \/ LatestPosts(r)
      BY <1>1 DEF Asks, LinksPage, MembersPage, TopUp, Running
    <3>5. /\ X \subseteq ToSet(list) /\ job'[r].offset \in Nat /\ job'[r].offset <= Len(list)
          /\ \A p \in 1 .. job'[r].offset : Visible(p) /\ list[p] \in X => list[p] \in Y
          /\ job'[r].status \in {"collected", "done"} => Newest \cap X \subseteq Y
          /\ kind = "userWall" => \/ Newest \cap X \subseteq Y
               \/ /\ \A p \in 1 .. job'[r].offset : list[p] \notin Old \ Pinned
                  /\ job'[r].collected = Cardinality({p \in 1 .. job'[r].offset : Visible(p)})
      <4>1. CASE WallPage(r)
        <5>1. kind = "wall"
          BY <4>1 DEF WallPage, Running
        <5> QED BY <3>1, <3>2, <3>3, <4>1, <5>1, WallPageKeeps
      <4>2. CASE UserWallPage(r)
        <5>1. kind = "userWall"
          BY <4>2 DEF UserWallPage, Running
        <5> QED BY <1>c, <3>1, <3>2, <3>3, <4>2, <5>1, UserWallKeeps
      <4>3. CASE LatestPosts(r)
        <5>1. kind = "latest"
          BY <4>3 DEF LatestPosts, Running
        <5> QED BY <3>1, <3>2, <3>3, <4>3, <5>1, LatestPostsKeep
      <4> QED BY <3>4, <4>1, <4>2, <4>3
    <3>6. Newest' = Newest /\ ToSet(list)' = ToSet(list) /\ \A p : Visible(p)' = Visible(p)
      BY <1>e, <2>1, <2>3
    <3>7. Newest \cap X \subseteq Y => NewestStored(r)'
      BY <3>1, <3>2, <3>6 DEF NewestStored
    <3>8. /\ since'[r] \subseteq ToSet(list') /\ job'[r].offset <= Len(list')
          /\ \A p \in 1 .. job'[r].offset :
               Visible(p)' /\ list'[p] \in since'[r] => list'[p] \in Stored'
      BY <1>a, <2>1, <3>1, <3>2, <3>5 DEF Visible
    <3>9. kind' = "userWall" => NewestStored(r)' \/ Counted(r)'
      BY <1>a, <2>1, <3>5, <3>7 DEF Counted, Visible
    <3>10. job'[r].status \in {"collected", "done"} => NewestStored(r)'
      BY <3>5, <3>7
    <3> QED BY <2>6, <3>8, <3>9, <3>10 DEF PostsOf
  <2> QED BY <2>5, <2>6
<1>2. ASSUME NEW r \in Runs, Quiet(r) PROVE PostsOf(s)'
  <2>1. /\ list' = list /\ row' = row /\ since' = since
        /\ \A q \in Runs \ {r} : job'[q] = job[q] /\ touched'[q] = touched[q]
        /\ job'[r].offset = job[r].offset /\ job'[r].collected = job[r].collected
        /\ job'[r].status \in {"pending", "running", "done", "skipped"}
        /\ touched'[r] = touched[r] \/ touched'[r] = touched[r] \cup {"resumed"}
        /\ job'[r].status = "done" => job[r].status = "collected" \/ AtMaximum(r)
    BY <1>2, QuietShape
  <2>2. Undisturbed(s)
    BY <2>1 DEF Undisturbed
  <2>3. PostsOf(s) /\ Stored' = Stored
    BY <1>b, <1>d, <2>1, <2>2 DEF Stored
  <2>4. ASSUME AtMaximum(s) PROVE NewestStored(s)
    <3>1. /\ job[s].offset \in Nat /\ job[s].collected \in Nat /\ Maximum \in Nat
          /\ \A q \in DOMAIN list : q \in Nat
      <4>1. job[s] \in JobRow /\ list \in Seq(Items)
        BY DEF PageTypes
      <4> QED BY <4>1 DEF JobRow, PagesAssumption
    <3>2. PICK X : X = since[s]
      OBVIOUS
    <3>3. ASSUME \A q \in DOMAIN list : NewestAt(q) => q <= job[s].offset PROVE NewestStored(s)
      <4>1. \A p \in 1 .. job[s].offset : Visible(p) /\ list[p] \in X => list[p] \in Stored
        BY <2>3, <3>2 DEF PostsOf
      <4>2. Newest \cap X \subseteq Stored
        BY <3>1, <3>3, <4>1, StoredUpTo
      <4> QED BY <3>2, <4>2 DEF NewestStored
    <3>4. CASE kind = "wall"
      <4>1. \A q \in DOMAIN list : NewestAt(q) => q <= Maximum
        BY <3>4, MaximumPlain
      <4>2. job[s].offset >= Maximum
        BY <2>4, <3>4 DEF AtMaximum
      <4> QED BY <3>1, <3>3, <4>1, <4>2
    <3>5. CASE kind = "userWall"
      <4>1. job[s].collected >= Maximum
        BY <2>4, <3>5 DEF AtMaximum
      <4>2. CASE Counted(s)
        <5>1. Cardinality({p \in 1 .. job[s].offset : Visible(p)}) >= Maximum
          BY <4>1, <4>2 DEF Counted
        <5> QED BY <3>1, <3>3, <5>1, MaximumReached
      <4> QED BY <2>3, <3>5, <4>2 DEF PostsOf
    <3> QED BY <2>4, <3>4, <3>5 DEF AtMaximum
  <2>5. job'[s].status \in {"collected", "done"} => NewestStored(s)
    <3>1. job'[s].status \in {"collected", "done"} =>
            job[s].status \in {"collected", "done"} \/ AtMaximum(s)
      BY <2>1
    <3> QED BY <2>3, <2>4, <3>1 DEF PostsOf
  <2>6. job'[s].offset = job[s].offset /\ job'[s].collected = job[s].collected
    BY <2>1
  <2> QED BY <1>f, <2>1, <2>3, <2>5, <2>6
<1>3. ASSUME NEW r \in Runs, MembersStore(r) PROVE PostsOf(s)'
  BY <1>3, StoreShape DEF Enumerating
<1>4. ASSUME ListChanges PROVE PostsOf(s)'
  <2>1. /\ row' = row /\ job' = job /\ begun' = begun /\ since' = since
        /\ \/ /\ Spare \notin ToSet(list) /\ list' = InsertAt(list, Top, Spare)
              /\ \A q \in Runs : touched'[q] =
                    IF q \in begun THEN touched[q] \cup {"appeared"} ELSE touched[q]
           \/ \A q \in Runs : touched'[q] =
                    IF q \in begun THEN touched[q] \cup {"removed"} ELSE touched[q]
    BY <1>4, ListShape
  <2>2. CASE s \notin begun
    <3>1. since'[s] = {} /\ job'[s].offset = 0 /\ Len(list') \in Nat
      BY <2>1, <2>2 DEF NothingBefore, PageTypes
    <3> QED BY <3>1 DEF PostsOf, NewestStored
  <2>3. CASE s \in begun
    <3>1. /\ Spare \notin ToSet(list) /\ list' = InsertAt(list, Top, Spare)
          /\ touched'[s] = touched[s] \cup {"appeared"}
      BY <2>1, <2>3 DEF Undisturbed
    <3>2. PostsOf(s)
      BY <1>d, <3>1 DEF Undisturbed
    <3>3. UNCHANGED Stored
      BY <1>b, <2>1 DEF Stored
    <3> QED BY <1>a, <1>c, <2>1, <3>1, <3>2, <3>3, PostsMoved
  <2> QED BY <2>2, <2>3
<1>5. ASSUME UNCHANGED vars PROVE PostsOf(s)'
  <2>1. list' = list /\ row' = row /\ since' = since /\ job' = job /\ touched' = touched
    BY <1>5 DEF vars, historyVars
  <2>2. PostsOf(s) /\ Stored' = Stored
    BY <1>b, <1>d, <2>1 DEF Stored, Undisturbed
  <2>3. job'[s].status \in {"collected", "done"} => NewestStored(s)
    BY <2>1, <2>2 DEF PostsOf
  <2> QED BY <1>f, <2>1, <2>2, <2>3
<1> QED BY <1>1, <1>2, <1>3, <1>4, <1>5, StepCases

LEMMA PostsAreKept ==
  ASSUME PostsInv PROVE PostsKept
  BY DEF PostsInv, PostsOf, PostsKept, Undisturbed, NewestStored

-----------------------------------------------------------------------------
(* Together.                                                                *)

LEMMA InitPages ==
  ASSUME PagesAssumption, Init PROVE PagesInv
  BY TypesInit, BasicsInit, LinksInit, MembersInit, OrderInit, PostsInit DEF PagesInv

LEMMA NextKeepsPages ==
  ASSUME PagesAssumption, PagesInv, [Next]_vars PROVE PagesInv'
<1>1. PageTypes'
  BY TypesNext DEF PagesInv
<1>2. RowsHaveRuns' /\ NothingBefore' /\ Enumerating'
  BY BasicsNext DEF PagesInv
<1>3. LinksInv'
  BY <1>1, <1>2, LinksNext DEF PagesInv
<1>4. MembersInv'
  BY <1>1, <1>2, MembersNext DEF PagesInv
<1>5. WallInOrder'
  BY <1>1, OrderNext DEF PagesInv
<1>6. PostsInv'
  BY <1>1, <1>2, PostsNext DEF PagesInv
<1> QED BY <1>1, <1>2, <1>3, <1>4, <1>5, <1>6 DEF PagesInv
=============================================================================
