-------------------------- MODULE TokenPoolProofs --------------------------
(***************************************************************************)
(* Theorems about TokenPool, for any tokens, methods, processes, callers,  *)
(* intervals, cooldowns and faults that PoolAssumption allows.             *)
(***************************************************************************)
EXTENDS TokenPool, FiniteSetTheorems, WellFoundedInduction, TLAPS

(* A set of natural numbers that is not empty has a least element.         *)
LEMMA LeastExists ==
  ASSUME NEW S, S \subseteq Nat, S # {}
  PROVE  \E x \in S : \A y \in S : x <= y
<1>1. PICK x \in S : \A y \in S : ~(<<y, x>> \in OpToRel(<, Nat))
  BY NatLessThanWellFounded, WFMin, Zenon
<1>2. \A y \in S : ~(y < x)
  BY <1>1 DEF OpToRel
<1>3. \A y \in S : y \in Nat /\ x \in Nat
  OBVIOUS
<1> QED BY <1>2, <1>3

-----------------------------------------------------------------------------
(* Types.                                                                   *)

LimitRow == [blocked : 0 .. MaxCooldown, probe : Nat, hits : Nat,
             code : LimitCodes \cup {0}, age : 0 .. LongAgo]

(* The history variable, and the callers that are in a call.                *)
HistoryType ==
  /\ sinceUse \in [Tokens -> [Methods -> 0 .. ProbeTime]]
  /\ \A c \in Callers : phase[c] # "idle" => method[c] \in Methods

(* The constants, as numbers.                                               *)
LEMMA ConstantFacts ==
  /\ TokenCount \in Nat \ {0} /\ 0 \in Tokens /\ IsFiniteSet(Methods)
  /\ ProbationInterval \in Nat /\ PoolInterval \in Nat /\ MaxCooldown \in Nat
  /\ ProbeTime \in Nat \ {0} /\ TokenCooldown \in Nat
  /\ ProbationWindow \in Nat /\ EscalationWindow \in Nat /\ EscalationMethods \in Nat
  /\ MaxRetries \in Nat /\ LongAgo \in Nat /\ MaxCalls \in Nat /\ MaxFaults \in Nat
  /\ \A m \in Methods : Interval[m] \in Nat /\ Interval[m] <= ProbeTime
  /\ ProbationInterval <= ProbeTime /\ PoolInterval <= ProbeTime
  /\ Paced \subseteq Methods /\ ProcessOf \in [Callers -> Processes]
<1>1. 0 \in Tokens
  BY PoolAssumption DEF PoolAssumption, Tokens
<1> QED BY <1>1, PoolAssumption DEF PoolAssumption

-----------------------------------------------------------------------------
(* What the operators return.                                               *)

LEMMA IntervalType ==
  ASSUME TypeOK, NEW t \in Tokens, NEW m \in Methods PROVE IntervalFor(t, m) \in Nat
  BY ConstantFacts DEF IntervalFor, Larger

LEMMA ReadyInType == ASSUME TypeOK, NEW t \in Tokens PROVE ReadyIn(t) \in Nat
  BY DEF TypeOK, ReadyIn, Larger

LEMMA RestType == ASSUME TypeOK, NEW t \in Tokens PROVE Rest(t) \in Nat
  BY ConstantFacts DEF TypeOK, Rest, Larger

(* A cooldown never exceeds the maximum, however often it is doubled.       *)
LEMMA CooldownType == \A code, hits : CooldownTime(code, hits) \in 0 .. MaxCooldown
  BY ConstantFacts DEF CooldownTime

(* acquire takes one of the tokens that are ready.                          *)
LEMMA NextTokenIsReady ==
  ASSUME TypeOK, NEW p \in Processes, NEW m \in Methods, Ready(m) # {}
  PROVE  NextToken(p, m) \in Ready(m)
<1> DEFINE D == {Distance(p, t) : t \in Ready(m)}
<1>1. \A t \in Ready(m) : Distance(p, t) \in Nat
  <2>1. \A t \in Tokens : t - cursor[p] + TokenCount \in Nat
    <3>1. cursor[p] \in Tokens
      BY DEF TypeOK
    <3>2. \A t, u \in 0 .. TokenCount - 1 : t - u + TokenCount \in Nat
      BY ConstantFacts
    <3> QED BY <3>1, <3>2 DEF Tokens
  <2>2. \A x \in Nat : x % TokenCount \in Nat
    BY ConstantFacts
  <2> QED BY <2>1, <2>2 DEF Distance, Ready, Capable, Enabled
<1>2. D \subseteq Nat /\ D # {}
  <2>1. D \subseteq Nat
    BY <1>1
  <2>2. D # {}
    OBVIOUS
  <2> QED BY <2>1, <2>2
<1>3. PICK d \in D : \A e \in D : d <= e
  <2> HIDE DEF D
  <2> QED BY <1>2, LeastExists
<1>4. \E t \in Ready(m) : \A u \in Ready(m) : Distance(p, t) <= Distance(p, u)
  BY <1>3
<1> QED BY <1>4 DEF NextToken

(* So the lease is for an enabled token that is not at rest, and that is    *)
(* not limited for the method unless a probe is due.                        *)
LEMMA LeasedToken ==
  ASSUME TypeOK, HistoryType, NEW c \in Callers, Lease(c)
  PROVE  LET m == method[c]
             t == NextToken(ProcessOf[c], m)
         IN  /\ m \in Methods /\ t \in Tokens /\ ProcessOf[c] \in Processes
             /\ ~token[t].disabled /\ token[t].next = 0 /\ token[t].cooldown = 0
             /\ limit[t][m].blocked = 0 \/ limit[t][m].probe = 0
             /\ m \in Paced => gate[m] = 0
<1> DEFINE m == method[c]
           t == NextToken(ProcessOf[c], m)
<1>1. m \in Methods /\ ProcessOf[c] \in Processes
  BY ConstantFacts DEF Lease, Acquiring, HistoryType
<1>2. t \in Ready(m)
  BY <1>1, NextTokenIsReady DEF Lease
<1>3. /\ t \in Tokens /\ ~token[t].disabled /\ ReadyIn(t) = 0
      /\ limit[t][m].blocked = 0 \/ limit[t][m].probe = 0
  BY <1>2 DEF Ready, Capable, Enabled
<1>4. token[t].next = 0 /\ token[t].cooldown = 0
  BY <1>3 DEF ReadyIn, Larger, TypeOK
<1>5. m \in Paced => gate[m] = 0
  BY DEF Lease, Gated, TypeOK
<1> QED BY <1>1, <1>3, <1>4, <1>5

-----------------------------------------------------------------------------
(* Type correctness.                                                        *)

TypeInv == TypeOK /\ HistoryType

TokenRow == [next : Nat, cooldown : Nat, disabled : BOOLEAN]

(* A new value for one row keeps the type of its table.                     *)
LEMMA TokenUpdate ==
  ASSUME TypeOK, NEW t \in Tokens, NEW row \in TokenRow
  PROVE  [token EXCEPT ![t] = row] \in [Tokens -> TokenRow]
  BY DEF TypeOK, TokenRow

LEMMA LimitUpdate ==
  ASSUME TypeOK, NEW t \in Tokens, NEW m \in Methods, NEW row \in LimitRow
  PROVE  [limit EXCEPT ![t][m] = row] \in [Tokens -> [Methods -> LimitRow]]
<1>1. limit \in [Tokens -> [Methods -> LimitRow]]
  BY DEF TypeOK, LimitRow
<1> QED BY <1>1

LEMMA InitTypes == Init => TypeInv
  BY ConstantFacts DEF Init, TypeInv, TypeOK, HistoryType, LimitCodes

LEMMA TypeStep == TypeInv /\ [Next]_vars => TypeInv'
<1> SUFFICES ASSUME TypeInv, [Next]_vars PROVE TypeInv'
  OBVIOUS
<1> USE DEF TypeInv
<1>1. ASSUME NEW c \in Callers, NEW m \in Methods, Begin(c, m) PROVE TypeInv'
  BY <1>1, ConstantFacts DEF Begin, TypeOK, HistoryType, poolVars
<1>2. ASSUME NEW c \in Callers, Lease(c) PROVE TypeInv'
  <2> DEFINE m == method[c]
             t == NextToken(ProcessOf[c], m)
  <2>1. m \in Methods /\ t \in Tokens /\ ProcessOf[c] \in Processes
    BY <1>2, LeasedToken
  <2>2. /\ token' = [token EXCEPT ![t].next = IntervalFor(t, m)]
        /\ limit' = IF limit[t][m].blocked > 0
                    THEN [limit EXCEPT ![t][m].probe = ProbeTime] ELSE limit
        /\ gate' = [n \in Paced |-> IF n = m THEN PoolInterval ELSE gate[n]]
        /\ cursor' = [cursor EXCEPT ![ProcessOf[c]] = (t + 1) % TokenCount]
        /\ lease' = [lease EXCEPT ![c] = t]
        /\ phase' = [phase EXCEPT ![c] = "asking"]
        /\ sinceUse' = [sinceUse EXCEPT ![t][m] = 0]
        /\ UNCHANGED <<method, sleep, retries, calls, faults>>
    BY <1>2 DEF Lease
  <2> HIDE DEF t, m
  <2>3. (t + 1) % TokenCount \in Tokens
    BY <2>1, ConstantFacts DEF Tokens
  <2>4. token' \in [Tokens -> [next : Nat, cooldown : Nat, disabled : BOOLEAN]]
    BY <2>1, <2>2, IntervalType DEF TypeOK
  <2>5. limit' \in [Tokens -> [Methods -> LimitRow]]
    <3>1. limit \in [Tokens -> [Methods -> LimitRow]]
      BY DEF TypeOK, LimitRow
    <3>2. [limit[t][m] EXCEPT !.probe = ProbeTime] \in LimitRow
      <4>1. limit[t][m] \in LimitRow
        BY <2>1, <3>1
      <4> QED BY <4>1, ConstantFacts DEF LimitRow
    <3>3. [limit EXCEPT ![t][m].probe = ProbeTime]
            = [limit EXCEPT ![t][m] = [limit[t][m] EXCEPT !.probe = ProbeTime]]
      OBVIOUS
    <3> QED BY <2>1, <2>2, <3>1, <3>2, <3>3, LimitUpdate
  <2>6. gate' \in [Paced -> Nat] /\ cursor' \in [Processes -> Tokens]
    BY <2>1, <2>2, <2>3, ConstantFacts DEF TypeOK
  <2>7. sinceUse' \in [Tokens -> [Methods -> 0 .. ProbeTime]]
    BY <2>1, <2>2, ConstantFacts DEF HistoryType
  <2>8. \A d \in Callers : phase'[d] # "idle" => method'[d] \in Methods
    BY <2>1, <2>2 DEF HistoryType, TypeOK, m
  <2>9. phase' \in [Callers -> {"idle", "acquiring", "asking", "delayed"}]
        /\ lease' \in [Callers -> Tokens]
    BY <2>1, <2>2 DEF TypeOK
  <2> QED BY <2>2, <2>4, <2>5, <2>6, <2>7, <2>8, <2>9 DEF TypeOK, HistoryType, LimitRow
<1>3. ASSUME NEW c \in Callers, Wait(c) PROVE TypeInv'
  <2>1. PICK n \in Nat : sleep' = [sleep EXCEPT ![c] = n]
    <3>1. CASE Gated(method[c])
      BY <1>3, <3>1 DEF Wait, Gated, TypeOK
    <3>2. CASE ~Gated(method[c])
      <4> DEFINE S == {ReadyIn(t) : t \in Capable(method[c])}
      <4>1. S \subseteq Nat
        BY ReadyInType DEF Capable, Enabled
      <4>2. S # {}
        BY <1>3, <3>2 DEF Wait
      <4>3. sleep' = [sleep EXCEPT ![c] = Least(S)]
        BY <1>3, <3>2 DEF Wait
      <4> HIDE DEF S
      <4>4. Least(S) \in Nat
        BY <4>1, <4>2, LeastExists DEF Least
      <4> QED BY <4>3, <4>4
    <3> QED BY <3>1, <3>2
  <2> QED BY <1>3, <2>1 DEF Wait, TypeOK, HistoryType, poolVars
<1>4. ASSUME NEW c \in Callers, GiveUp(c) PROVE TypeInv'
  BY <1>4, ConstantFacts DEF GiveUp, EndCall, TypeOK, HistoryType, poolVars
<1>5. ASSUME NEW c \in Callers, Succeed(c) PROVE TypeInv'
  <2>1. limit' = [limit EXCEPT ![lease[c]][method[c]] =
                    [@ EXCEPT !.blocked = 0, !.probe = 0, !.hits = 0, !.code = 0]]
    BY <1>5 DEF Succeed
  <2>2. lease[c] \in Tokens /\ method[c] \in Methods
    BY <1>5 DEF Succeed, TypeOK, HistoryType
  <2>3. limit' \in [Tokens -> [Methods -> LimitRow]]
    <3>1. limit \in [Tokens -> [Methods -> LimitRow]]
      BY DEF TypeOK, LimitRow
    <3>2. [limit[lease[c]][method[c]] EXCEPT !.blocked = 0, !.probe = 0, !.hits = 0, !.code = 0]
            \in LimitRow
      <4>1. limit[lease[c]][method[c]] \in LimitRow
        BY <2>2, <3>1
      <4>2. 0 \in 0 .. MaxCooldown /\ 0 \in LimitCodes \cup {0}
        BY ConstantFacts
      <4> QED BY <4>1, <4>2 DEF LimitRow
    <3>3. limit' = [limit EXCEPT ![lease[c]][method[c]] =
            [limit[lease[c]][method[c]] EXCEPT !.blocked = 0, !.probe = 0, !.hits = 0, !.code = 0]]
      BY <2>1
    <3> QED BY <2>2, <3>2, <3>3, LimitUpdate
  <2> QED BY <1>5, <2>3, ConstantFacts
      DEF Succeed, EndCall, TypeOK, HistoryType, LimitRow
<1>6. ASSUME NEW c \in Callers, Fail(c) PROVE TypeInv'
  BY <1>6, ConstantFacts DEF Fail, Fault, EndCall, TypeOK, HistoryType, poolVars
<1>7. ASSUME NEW c \in Callers, AuthError(c) PROVE TypeInv'
  <2>1. lease[c] \in Tokens /\ token[lease[c]] \in TokenRow
    BY DEF TypeOK, TokenRow
  <2>2. [token[lease[c]] EXCEPT !.disabled = TRUE] \in TokenRow
    BY <2>1 DEF TokenRow
  <2>3. token' = [token EXCEPT ![lease[c]] = [token[lease[c]] EXCEPT !.disabled = TRUE]]
    BY <1>7 DEF AuthError
  <2>4. token' \in [Tokens -> TokenRow]
    BY <2>1, <2>2, <2>3, TokenUpdate
  <2> QED BY <1>7, <2>4, ConstantFacts
      DEF AuthError, Fault, AcquireAgain, TypeOK, HistoryType, TokenRow
<1>8. ASSUME NEW c \in Callers, RateError(c) PROVE TypeInv'
  <2>1. lease[c] \in Tokens /\ token[lease[c]] \in TokenRow
    BY DEF TypeOK, TokenRow
  <2>2. [token[lease[c]] EXCEPT !.cooldown = Rest(lease[c])] \in TokenRow
    BY <2>1, RestType DEF TokenRow
  <2>3. token' = [token EXCEPT ![lease[c]] = [token[lease[c]] EXCEPT !.cooldown = Rest(lease[c])]]
    BY <1>8 DEF RateError
  <2>4. token' \in [Tokens -> TokenRow]
    BY <2>1, <2>2, <2>3, TokenUpdate
  <2> QED BY <1>8, <2>4, ConstantFacts
      DEF RateError, Fault, AcquireAgain, TypeOK, HistoryType, TokenRow
<1>9. ASSUME NEW c \in Callers, NEW code \in LimitCodes, LimitError(c, code) PROVE TypeInv'
  <2> DEFINE t == lease[c]
             m == method[c]
  <2>1. t \in Tokens /\ m \in Methods
    BY <1>9 DEF LimitError, TypeOK, HistoryType
  <2>2. PICK row \in LimitRow : limit' = [limit EXCEPT ![t][m] = row]
    <3> DEFINE hits == 1 + IF limit[t][m].code = code THEN limit[t][m].hits ELSE 0
               time == CooldownTime(code, hits)
               row  == [blocked |-> time, probe |-> Smaller(time, ProbeTime),
                        hits |-> hits, code |-> code, age |-> 0]
    <3>1. hits \in Nat
      BY <2>1 DEF TypeOK
    <3>2. time \in 0 .. MaxCooldown /\ Smaller(time, ProbeTime) \in Nat
      BY CooldownType, ConstantFacts DEF Smaller
    <3>3. row \in LimitRow
      <4> HIDE DEF hits, time
      <4> QED BY <3>1, <3>2, ConstantFacts DEF LimitRow
    <3>4. limit' = [limit EXCEPT ![t][m] = row]
      BY <1>9 DEF LimitError
    <3> QED BY <3>3, <3>4
  <2>3. limit' \in [Tokens -> [Methods -> LimitRow]]
    <3>1. limit \in [Tokens -> [Methods -> LimitRow]]
      BY DEF TypeOK, LimitRow
    <3> QED BY <2>1, <2>2, <3>1
  <2>4. token' = token \/ token' = [token EXCEPT ![t].cooldown = Rest(t)]
    BY <1>9 DEF LimitError
  <2>5. token' \in [Tokens -> [next : Nat, cooldown : Nat, disabled : BOOLEAN]]
    <3>1. token[t] \in TokenRow
      BY <2>1 DEF TypeOK, TokenRow
    <3>2. [token[t] EXCEPT !.cooldown = Rest(t)] \in TokenRow
      BY <2>1, <3>1, RestType DEF TokenRow
    <3>3. [token EXCEPT ![t].cooldown = Rest(t)]
            = [token EXCEPT ![t] = [token[t] EXCEPT !.cooldown = Rest(t)]]
      OBVIOUS
    <3>4. token \in [Tokens -> TokenRow]
      BY DEF TypeOK, TokenRow
    <3> QED BY <2>1, <2>4, <3>2, <3>3, <3>4, TokenUpdate DEF TokenRow
  <2>6. /\ faults' \in 0 .. MaxFaults /\ phase' = [phase EXCEPT ![c] = "acquiring"]
        /\ lease' = [lease EXCEPT ![c] = 0]
        /\ UNCHANGED <<gate, cursor, method, sleep, retries, calls, sinceUse>>
    BY <1>9, ConstantFacts DEF LimitError, Fault, AcquireAgain, TypeOK
  <2>7. HistoryType'
    BY <1>9, <2>6 DEF LimitError, TypeOK, HistoryType
  <2>8. TypeOK'
    BY <2>3, <2>5, <2>6, ConstantFacts DEF TypeOK, LimitRow
  <2> QED BY <2>7, <2>8
<1>10. ASSUME NEW c \in Callers, Retry(c) PROVE TypeInv'
  <2>0. /\ phase[c] = "asking" /\ faults' \in 0 .. MaxFaults
        /\ UNCHANGED <<token, limit, gate, cursor, sleep, calls, sinceUse>>
    BY <1>10, ConstantFacts DEF Retry, Fault, TypeOK, poolVars
  <2>1. CASE retries[c] >= MaxRetries
    <3>1. EndCall(c)
      BY <1>10, <2>1 DEF Retry
    <3> QED BY <2>0, <3>1, ConstantFacts DEF EndCall, TypeOK, HistoryType
  <2>2. CASE ~(retries[c] >= MaxRetries)
    <3>1. retries' = [retries EXCEPT ![c] = retries[c] + 1] /\ retries[c] + 1 \in 0 .. MaxRetries
      BY <1>10, <2>2, ConstantFacts DEF Retry, TypeOK
    <3>2. phase' = [phase EXCEPT ![c] = "delayed"] /\ UNCHANGED <<method, lease>>
      BY <1>10, <2>2 DEF Retry
    <3> QED BY <2>0, <3>1, <3>2 DEF TypeOK, HistoryType
  <2> QED BY <2>1, <2>2
<1>11. ASSUME NEW c \in Callers, Resend(c) PROVE TypeInv'
  BY <1>11, ConstantFacts DEF Resend, AcquireAgain, TypeOK, HistoryType, poolVars
<1>12. CASE Tick
  <2>1. \A n \in Nat : Earlier(n) \in Nat
    BY DEF Earlier
  <2>2. \A n \in 0 .. MaxCooldown : Earlier(n) \in 0 .. MaxCooldown
    BY ConstantFacts DEF Earlier
  <2>3. \A n \in 0 .. LongAgo : Older(n, LongAgo) \in 0 .. LongAgo
    BY ConstantFacts DEF Older, Smaller
  <2>4. \A n \in 0 .. ProbeTime : Older(n, ProbeTime) \in 0 .. ProbeTime
    BY ConstantFacts DEF Older, Smaller
  <2>5. token' \in [Tokens -> [next : Nat, cooldown : Nat, disabled : BOOLEAN]]
    BY <1>12, <2>1, Zenon DEF Tick, TypeOK
  <2>6. limit' \in [Tokens -> [Methods -> LimitRow]]
    <3>1. limit \in [Tokens -> [Methods -> LimitRow]]
      BY DEF TypeOK, LimitRow
    <3>2. \A r \in LimitRow :
            [r EXCEPT !.blocked = Earlier(@), !.probe = Earlier(@), !.age = Older(@, LongAgo)]
              \in LimitRow
      BY <2>1, <2>2, <2>3 DEF LimitRow
    <3> QED BY <1>12, <3>1, <3>2, Zenon DEF Tick
  <2>7. gate' \in [Paced -> Nat] /\ sleep' \in [Callers -> Nat]
    BY <1>12, <2>1, Zenon DEF Tick, TypeOK
  <2>8. sinceUse' \in [Tokens -> [Methods -> 0 .. ProbeTime]]
    BY <1>12, <2>4, Zenon DEF Tick, HistoryType
  <2> QED BY <1>12, <2>5, <2>6, <2>7, <2>8, Zenon DEF Tick, TypeOK, HistoryType, LimitRow
<1>13. CASE UNCHANGED vars
  BY <1>13 DEF vars, poolVars, callerVars, TypeOK, HistoryType
<1> QED
  BY <1>1, <1>2, <1>3, <1>4, <1>5, <1>6, <1>7, <1>8, <1>9, <1>10, <1>11, <1>12, <1>13
  DEF Next, CallStep

LEMMA Types == Spec => []TypeInv
  BY InitTypes, TypeStep, PTL DEF Spec

(* The tables and the calls keep their types: times are natural numbers,    *)
(* and a limit never lasts longer than the maximum, however often it is     *)
(* doubled (method_cooldown).                                               *)
THEOREM PoolTypes == Spec => []TypeOK
<1>1. TypeInv => TypeOK
  BY DEF TypeInv
<1> QED BY <1>1, Types, PTL

-----------------------------------------------------------------------------
(* Spacing of requests: what a table still asks to wait, and what has       *)
(* passed since the last request, together make up the interval.            *)

SpacingFor(t, n) ==
  IF OnProbation(t, n) THEN Larger(Interval[n], ProbationInterval) ELSE Interval[n]

SlotKept ==
  \A t \in Tokens, n \in Methods : token[t].next + sinceUse[t][n] >= SpacingFor(t, n)

GateKept ==
  \A m \in Paced, t \in Tokens : gate[m] + sinceUse[t][m] >= PoolInterval

(* A limit shorter than the probe time has no probe before its end.         *)
ProbeKept ==
  \A t \in Tokens, m \in Methods :
    limit[t][m].blocked > 0 =>
      \/ limit[t][m].probe + sinceUse[t][m] >= ProbeTime
      \/ limit[t][m].probe = limit[t][m].blocked

RateInv == TypeInv /\ SlotKept /\ GateKept /\ ProbeKept

(* The columns that the spacing is about, unchanged.                        *)
SameTimes ==
  /\ \A t \in Tokens : token'[t].next = token[t].next
  /\ \A t \in Tokens, m \in Methods :
       /\ limit'[t][m].blocked = limit[t][m].blocked
       /\ limit'[t][m].probe = limit[t][m].probe
       /\ limit'[t][m].age = limit[t][m].age
  /\ UNCHANGED <<gate, sinceUse>>

LEMMA SameTimesKeep == RateInv /\ SameTimes /\ TypeInv' => RateInv'
<1> SUFFICES ASSUME RateInv, SameTimes, TypeInv' PROVE RateInv'
  OBVIOUS
<1>1. SlotKept'
  BY DEF RateInv, SlotKept, SameTimes, SpacingFor, OnProbation
<1>2. GateKept'
  BY DEF RateInv, GateKept, SameTimes
<1>3. ProbeKept'
  BY DEF RateInv, ProbeKept, SameTimes
<1> QED BY <1>1, <1>2, <1>3 DEF RateInv

LEMMA InitRates == Init => RateInv
<1> SUFFICES ASSUME Init PROVE RateInv
  OBVIOUS
<1>1. TypeInv
  BY InitTypes
<1>2. SlotKept
  BY ConstantFacts DEF Init, SlotKept, SpacingFor, Larger
<1>3. GateKept
  BY ConstantFacts DEF Init, GateKept
<1>4. ProbeKept
  BY DEF Init, ProbeKept
<1> QED BY <1>1, <1>2, <1>3, <1>4 DEF RateInv

LEMMA LeaseRates ==
  ASSUME RateInv, NEW c \in Callers, Lease(c) PROVE SlotKept' /\ GateKept' /\ ProbeKept'
<1> DEFINE m == method[c]
           t == NextToken(ProcessOf[c], m)
<1>1. /\ m \in Methods /\ t \in Tokens
      /\ token[t].next = 0
      /\ m \in Paced => gate[m] = 0
  BY LeasedToken DEF RateInv, TypeInv
<1>2. /\ token' = [token EXCEPT ![t].next = IntervalFor(t, m)]
      /\ limit' = IF limit[t][m].blocked > 0
                  THEN [limit EXCEPT ![t][m].probe = ProbeTime] ELSE limit
      /\ gate' = [n \in Paced |-> IF n = m THEN PoolInterval ELSE gate[n]]
      /\ sinceUse' = [sinceUse EXCEPT ![t][m] = 0]
  BY DEF Lease
<1> HIDE DEF t, m
<1>3. TypeOK /\ HistoryType
  BY DEF RateInv, TypeInv
<1>4. IntervalFor(t, m) \in Nat
  BY <1>1, <1>3, IntervalType
<1>5. \A u \in Tokens, n \in Methods :
        /\ sinceUse'[u][n] = IF u = t /\ n = m THEN 0 ELSE sinceUse[u][n]
        /\ limit'[u][n].blocked = limit[u][n].blocked
        /\ limit'[u][n].age = limit[u][n].age
        /\ limit'[u][n].probe = IF u = t /\ n = m /\ limit[t][m].blocked > 0
                                THEN ProbeTime ELSE limit[u][n].probe
  BY <1>1, <1>2, <1>3 DEF TypeOK, HistoryType
<1>6. \A u \in Tokens :
        token'[u].next = IF u = t THEN IntervalFor(t, m) ELSE token[u].next
  BY <1>1, <1>2, <1>3 DEF TypeOK
<1>7. SlotKept'
  <2> SUFFICES ASSUME NEW u \in Tokens, NEW n \in Methods
               PROVE  token'[u].next + sinceUse'[u][n] >= SpacingFor(u, n)'
    BY DEF SlotKept
  <2>0. token[u].next + sinceUse[u][n] >= SpacingFor(u, n)
    BY DEF RateInv, SlotKept
  <2>1. CASE u = t /\ n = m
    <3>1. limit[u][n].age \in Nat /\ Interval[n] \in Nat /\ ProbationInterval \in Nat
          /\ ProbationWindow \in Nat
      BY <1>1, <1>3, ConstantFacts DEF TypeOK
    <3>2. sinceUse'[u][n] = 0 /\ limit'[u][n].age = limit[u][n].age
      BY <1>5, <2>1
    <3>3. OnProbation(u, n)' => limit[u][n].age < ProbationWindow
      BY <3>1, <3>2 DEF OnProbation
    <3>4. SpacingFor(u, n)' <= IntervalFor(u, n) /\ SpacingFor(u, n)' \in Nat
      BY <3>1, <3>3 DEF SpacingFor, IntervalFor, Larger
    <3> QED BY <1>1, <1>4, <1>6, <2>1, <3>2, <3>4
  <2>2. CASE ~(u = t /\ n = m)
    <3>1. SpacingFor(u, n)' = SpacingFor(u, n)
      BY <1>5, <2>2 DEF SpacingFor, OnProbation
    <3>2. SpacingFor(u, n) \in Nat /\ sinceUse[u][n] \in Nat /\ token[u].next \in Nat
      BY <1>3, ConstantFacts DEF SpacingFor, Larger, TypeOK, HistoryType
    <3>3. token'[u].next >= token[u].next
      BY <1>1, <1>4, <1>6, <3>2
    <3>4. token'[u].next \in Nat
      BY <1>4, <1>6, <3>2
    <3> QED BY <1>5, <2>0, <2>2, <3>1, <3>2, <3>3, <3>4
  <2> QED BY <2>1, <2>2
<1>8. GateKept'
  <2> SUFFICES ASSUME NEW n \in Paced, NEW u \in Tokens
               PROVE  gate'[n] + sinceUse'[u][n] >= PoolInterval
    BY DEF GateKept
  <2>1. n \in Methods /\ sinceUse[u][n] \in Nat /\ PoolInterval \in Nat
    BY <1>3, ConstantFacts DEF HistoryType
  <2>2. gate[n] + sinceUse[u][n] >= PoolInterval
    BY DEF RateInv, GateKept
  <2>3. gate'[n] = IF n = m THEN PoolInterval ELSE gate[n]
    BY <1>2
  <2> QED BY <1>5, <2>1, <2>2, <2>3
<1>9. ProbeKept'
  <2> SUFFICES ASSUME NEW u \in Tokens, NEW n \in Methods, limit'[u][n].blocked > 0
               PROVE  \/ limit'[u][n].probe + sinceUse'[u][n] >= ProbeTime
                      \/ limit'[u][n].probe = limit'[u][n].blocked
    BY DEF ProbeKept
  <2>1. \/ limit[u][n].probe + sinceUse[u][n] >= ProbeTime
        \/ limit[u][n].probe = limit[u][n].blocked
    BY <1>5 DEF RateInv, ProbeKept
  <2> QED BY <1>5, <2>1, ConstantFacts
<1> QED BY <1>7, <1>8, <1>9

LEMMA LimitErrorRates ==
  ASSUME RateInv, NEW c \in Callers, NEW code \in LimitCodes, LimitError(c, code)
  PROVE  SlotKept' /\ GateKept' /\ ProbeKept'
<1> DEFINE t    == lease[c]
           m    == method[c]
           hits == 1 + IF limit[t][m].code = code THEN limit[t][m].hits ELSE 0
           time == CooldownTime(code, hits)
<1>1. t \in Tokens /\ m \in Methods /\ TypeOK /\ HistoryType
  BY DEF LimitError, RateInv, TypeInv, TypeOK, HistoryType
<1>2. /\ limit' = [limit EXCEPT ![t][m] =
            [blocked |-> time, probe |-> Smaller(time, ProbeTime),
             hits |-> hits, code |-> code, age |-> 0]]
      /\ token' = token \/ token' = [token EXCEPT ![t].cooldown = Rest(t)]
      /\ UNCHANGED <<gate, sinceUse>>
  BY DEF LimitError
<1>3. time \in Nat
  BY CooldownType, ConstantFacts
<1> HIDE DEF t, m, hits, time
<1>4. ASSUME NEW u \in Tokens PROVE token'[u].next = token[u].next
  <2>1. CASE token' = token
    BY <2>1
  <2>2. CASE token' = [token EXCEPT ![t].cooldown = Rest(t)]
    BY <1>1, <2>2 DEF TypeOK
  <2> QED BY <1>2, <2>1, <2>2
<1>5. \A u \in Tokens, n \in Methods :
        IF u = t /\ n = m
        THEN /\ limit'[u][n].blocked = time /\ limit'[u][n].age = 0
             /\ limit'[u][n].probe = Smaller(time, ProbeTime)
        ELSE limit'[u][n] = limit[u][n]
  BY <1>1, <1>2 DEF TypeOK
<1>6. SlotKept'
  <2> SUFFICES ASSUME NEW u \in Tokens, NEW n \in Methods
               PROVE  token'[u].next + sinceUse'[u][n] >= SpacingFor(u, n)'
    BY DEF SlotKept
  <2>1. token[u].next + sinceUse[u][n] >= SpacingFor(u, n)
    BY DEF RateInv, SlotKept
  <2>2. sinceUse[u][n] \in Nat /\ token[u].next \in Nat /\ Interval[n] \in Nat
        /\ ProbationInterval \in Nat
    BY <1>1, ConstantFacts DEF TypeOK, HistoryType
  <2>3. CASE u = t /\ n = m
    <3>1. ~OnProbation(u, n)'
      BY <1>2, <1>5, <2>2, <2>3 DEF OnProbation
    <3>2. SpacingFor(u, n)' = Interval[n]
      BY <3>1 DEF SpacingFor
    <3>3. SpacingFor(u, n) >= Interval[n] /\ SpacingFor(u, n) \in Nat
      BY <2>2 DEF SpacingFor, Larger
    <3> QED BY <1>2, <1>4, <2>1, <2>2, <3>2, <3>3
  <2>4. CASE ~(u = t /\ n = m)
    <3>1. SpacingFor(u, n)' = SpacingFor(u, n)
      BY <1>2, <1>5, <2>4 DEF SpacingFor, OnProbation
    <3> QED BY <1>2, <1>4, <2>1, <3>1
  <2> QED BY <2>3, <2>4
<1>7. GateKept'
  BY <1>2 DEF RateInv, GateKept
<1>8. ProbeKept'
  <2> SUFFICES ASSUME NEW u \in Tokens, NEW n \in Methods, limit'[u][n].blocked > 0
               PROVE  \/ limit'[u][n].probe + sinceUse'[u][n] >= ProbeTime
                      \/ limit'[u][n].probe = limit'[u][n].blocked
    BY DEF ProbeKept
  <2>1. CASE u = t /\ n = m
    <3>1. sinceUse[u][n] \in Nat /\ ProbeTime \in Nat
      BY <1>1, ConstantFacts DEF HistoryType
    <3> QED BY <1>2, <1>3, <1>5, <2>1, <3>1 DEF Smaller
  <2>2. CASE ~(u = t /\ n = m)
    BY <1>2, <1>5, <2>2 DEF RateInv, ProbeKept
  <2> QED BY <2>1, <2>2
<1> QED BY <1>6, <1>7, <1>8

LEMMA SucceedRates ==
  ASSUME RateInv, NEW c \in Callers, Succeed(c) PROVE SlotKept' /\ GateKept' /\ ProbeKept'
<1> DEFINE t == lease[c]
           m == method[c]
<1>1. t \in Tokens /\ m \in Methods /\ TypeOK /\ HistoryType
  BY DEF Succeed, RateInv, TypeInv, TypeOK, HistoryType
<1>2. /\ limit' = [limit EXCEPT ![t][m] =
                     [@ EXCEPT !.blocked = 0, !.probe = 0, !.hits = 0, !.code = 0]]
      /\ UNCHANGED <<token, gate, sinceUse>>
  BY DEF Succeed
<1> HIDE DEF t, m
<1>3. \A u \in Tokens, n \in Methods :
        /\ limit'[u][n].age = limit[u][n].age
        /\ IF u = t /\ n = m THEN limit'[u][n].blocked = 0 ELSE limit'[u][n] = limit[u][n]
  BY <1>1, <1>2 DEF TypeOK
<1>4. SlotKept'
  BY <1>2, <1>3 DEF RateInv, SlotKept, SpacingFor, OnProbation
<1>5. GateKept'
  BY <1>2 DEF RateInv, GateKept
<1>6. ProbeKept'
  BY <1>2, <1>3 DEF RateInv, ProbeKept
<1> QED BY <1>4, <1>5, <1>6

LEMMA TickRates == ASSUME RateInv, Tick PROVE SlotKept' /\ GateKept' /\ ProbeKept'
<1>1. TypeOK /\ HistoryType
  BY DEF RateInv, TypeInv
<1>2. \A u \in Tokens, n \in Methods :
        /\ token'[u].next = Earlier(token[u].next)
        /\ sinceUse'[u][n] = Older(sinceUse[u][n], ProbeTime)
        /\ limit'[u][n].blocked = Earlier(limit[u][n].blocked)
        /\ limit'[u][n].probe = Earlier(limit[u][n].probe)
        /\ limit'[u][n].age = Older(limit[u][n].age, LongAgo)
  <2> TAKE u \in Tokens, n \in Methods
  <2>1. token'[u] = [token[u] EXCEPT !.next = Earlier(@), !.cooldown = Earlier(@)]
    BY Zenon DEF Tick
  <2>2. limit'[u][n] = [limit[u][n] EXCEPT !.blocked = Earlier(@), !.probe = Earlier(@),
                                           !.age = Older(@, LongAgo)]
    BY Zenon DEF Tick
  <2>3. sinceUse'[u][n] = Older(sinceUse[u][n], ProbeTime)
    BY Zenon DEF Tick
  <2>4. token[u] \in TokenRow /\ limit[u][n] \in LimitRow
    BY <1>1 DEF TypeOK, TokenRow, LimitRow
  <2>5. token'[u].next = Earlier(token[u].next)
    BY <2>1, <2>4 DEF TokenRow
  <2> QED BY <2>2, <2>3, <2>4, <2>5 DEF LimitRow
<1>3. \A u \in Tokens, n \in Methods :
        /\ token[u].next \in Nat /\ sinceUse[u][n] \in Nat /\ sinceUse[u][n] <= ProbeTime
        /\ limit[u][n].blocked \in Nat /\ limit[u][n].probe \in Nat
        /\ limit[u][n].age \in Nat /\ limit[u][n].age <= LongAgo
  BY <1>1, ConstantFacts DEF TypeOK, HistoryType
<1>4. SlotKept'
  <2> SUFFICES ASSUME NEW u \in Tokens, NEW n \in Methods
               PROVE  token'[u].next + sinceUse'[u][n] >= SpacingFor(u, n)'
    BY DEF SlotKept
  <2>1. token[u].next + sinceUse[u][n] >= SpacingFor(u, n)
    BY DEF RateInv, SlotKept
  <2>2. /\ SpacingFor(u, n) \in Nat /\ SpacingFor(u, n)' \in Nat
        /\ SpacingFor(u, n)' <= ProbeTime /\ ProbeTime \in Nat
    BY ConstantFacts DEF SpacingFor, Larger
  <2>3. token'[u].next \in Nat
    BY <1>2, <1>3 DEF Earlier
  <2>4. CASE sinceUse[u][n] = ProbeTime
    <3>1. sinceUse'[u][n] = ProbeTime
      BY <1>2, <1>3, <2>2, <2>4 DEF Older, Smaller
    <3> QED BY <2>2, <2>3, <3>1
  <2>5. CASE sinceUse[u][n] # ProbeTime
    <3>1. sinceUse'[u][n] = sinceUse[u][n] + 1
      BY <1>2, <1>3, <2>2, <2>5 DEF Older, Smaller
    <3>2. OnProbation(u, n)' => OnProbation(u, n)
      BY <1>2, <1>3, <3>1, ConstantFacts DEF OnProbation, Older, Smaller
    <3>3. SpacingFor(u, n)' <= SpacingFor(u, n)
      BY <3>2, ConstantFacts DEF SpacingFor, Larger
    <3>4. token'[u].next + sinceUse'[u][n] >= token[u].next + sinceUse[u][n]
      BY <1>2, <1>3, <3>1 DEF Earlier
    <3> QED BY <1>3, <2>1, <2>2, <2>3, <3>1, <3>3, <3>4
  <2> QED BY <2>4, <2>5
<1>5. GateKept'
  <2> SUFFICES ASSUME NEW n \in Paced, NEW u \in Tokens
               PROVE  gate'[n] + sinceUse'[u][n] >= PoolInterval
    BY DEF GateKept
  <2>1. gate[n] + sinceUse[u][n] >= PoolInterval /\ gate[n] \in Nat /\ n \in Methods
    BY <1>1, ConstantFacts DEF RateInv, GateKept, TypeOK
  <2>2. gate'[n] = Earlier(gate[n])
    BY Zenon DEF Tick
  <2>3. PoolInterval \in Nat /\ PoolInterval <= ProbeTime /\ ProbeTime \in Nat
    BY ConstantFacts
  <2> QED BY <1>2, <1>3, <2>1, <2>2, <2>3 DEF Earlier, Older, Smaller
<1>6. ProbeKept'
  <2> SUFFICES ASSUME NEW u \in Tokens, NEW n \in Methods, limit'[u][n].blocked > 0
               PROVE  \/ limit'[u][n].probe + sinceUse'[u][n] >= ProbeTime
                      \/ limit'[u][n].probe = limit'[u][n].blocked
    BY DEF ProbeKept
  <2>1. limit[u][n].blocked > 0
    BY <1>2, <1>3 DEF Earlier
  <2>2. CASE limit[u][n].probe = limit[u][n].blocked
    BY <1>2, <2>2
  <2>3. CASE limit[u][n].probe + sinceUse[u][n] >= ProbeTime
    BY <1>2, <1>3, <2>3, ConstantFacts DEF Earlier, Older, Smaller
  <2> QED BY <2>1, <2>2, <2>3 DEF RateInv, ProbeKept
<1> QED BY <1>4, <1>5, <1>6

LEMMA RateStep == RateInv /\ [Next]_vars => RateInv'
<1> SUFFICES ASSUME RateInv, [Next]_vars PROVE RateInv'
  OBVIOUS
<1>0. TypeInv' /\ TypeOK /\ HistoryType
  BY TypeStep DEF RateInv, TypeInv
<1>1. ASSUME NEW c \in Callers, Lease(c) PROVE RateInv'
  BY <1>0, <1>1, LeaseRates DEF RateInv
<1>2. ASSUME NEW c \in Callers, Succeed(c) PROVE RateInv'
  BY <1>0, <1>2, SucceedRates DEF RateInv
<1>3. ASSUME NEW c \in Callers, NEW code \in LimitCodes, LimitError(c, code) PROVE RateInv'
  BY <1>0, <1>3, LimitErrorRates DEF RateInv
<1>4. CASE Tick
  BY <1>0, <1>4, TickRates DEF RateInv
<1>5. ASSUME NEW c \in Callers, AuthError(c) PROVE SameTimes
  BY <1>0, <1>5 DEF AuthError, SameTimes, TypeOK
<1>6. ASSUME NEW c \in Callers, RateError(c) PROVE SameTimes
  BY <1>0, <1>6 DEF RateError, SameTimes, TypeOK
<1>7. ASSUME NEW c \in Callers,
             \/ \E m \in Methods : Begin(c, m)
             \/ Wait(c) \/ GiveUp(c) \/ Fail(c) \/ Retry(c) \/ Resend(c)
      PROVE  SameTimes
  <2>1. UNCHANGED <<token, limit, gate, sinceUse>>
    BY <1>7 DEF Begin, Wait, GiveUp, Fail, Retry, Resend, poolVars
  <2> QED BY <2>1 DEF SameTimes
<1>8. ASSUME UNCHANGED vars PROVE SameTimes
  <2>1. UNCHANGED <<token, limit, gate, sinceUse>>
    BY <1>8 DEF vars, poolVars
  <2> QED BY <2>1 DEF SameTimes
<1>9. SameTimes => RateInv'
  BY <1>0, SameTimesKeep
<1> QED
  BY <1>1, <1>2, <1>3, <1>4, <1>5, <1>6, <1>7, <1>8, <1>9 DEF Next, CallStep

LEMMA Rates == Spec => []RateInv
  BY InitRates, RateStep, PTL DEF Spec

(* Only a lease sends a request, and it sends the one the pool chose.       *)
LEMMA SendIsLease ==
  ASSUME TypeInv, [Next]_vars, NEW c \in Callers, NEW t \in Tokens, NEW m \in Methods,
         Sends(c, t, m)
  PROVE  Lease(c) /\ t = NextToken(ProcessOf[c], m) /\ m = method[c]
<1>0. phase[c] = "acquiring" /\ phase'[c] = "asking" /\ lease'[c] = t /\ method[c] = m
      /\ phase \in [Callers -> {"idle", "acquiring", "asking", "delayed"}]
      /\ lease \in [Callers -> Tokens]
  BY DEF Sends, TypeInv, TypeOK
<1>1. \E d \in Callers : Lease(d)
  <2>1. ASSUME NEW d \in Callers,
               \/ \E n \in Methods : Begin(d, n)
               \/ Wait(d) \/ GiveUp(d) \/ Retry(d) \/ Resend(d)
        PROVE  FALSE
    <3>1. CASE \E n \in Methods : Begin(d, n)
      BY <1>0, <3>1 DEF Begin
    <3>2. CASE Wait(d)
      BY <1>0, <3>2 DEF Wait
    <3>3. CASE GiveUp(d) \/ Retry(d)
      BY <1>0, <3>3 DEF GiveUp, Retry, EndCall
    <3>4. CASE Resend(d)
      <4>1. phase' = [phase EXCEPT ![d] = "acquiring"]
        BY <3>4 DEF Resend, AcquireAgain
      <4> QED BY <1>0, <4>1
    <3> QED BY <2>1, <3>1, <3>2, <3>3, <3>4
  <2>2. ASSUME NEW d \in Callers,
               \/ Succeed(d) \/ Fail(d) \/ AuthError(d) \/ RateError(d)
               \/ \E code \in LimitCodes : LimitError(d, code)
        PROVE  FALSE
    <3>1. PICK p : phase' = [phase EXCEPT ![d] = p] /\ phase[d] = "asking"
      <4>1. CASE Succeed(d) \/ Fail(d)
        BY <4>1 DEF Succeed, Fail, EndCall
      <4>2. CASE AuthError(d) \/ RateError(d)
        BY <4>2 DEF AuthError, RateError, AcquireAgain
      <4>3. CASE \E code \in LimitCodes : LimitError(d, code)
        BY <4>3 DEF LimitError, AcquireAgain
      <4> QED BY <2>2, <4>1, <4>2, <4>3
    <3> QED BY <1>0, <3>1
  <2>3. ~Tick /\ vars' # vars
    BY <1>0, Zenon DEF Tick, vars, callerVars
  <2> QED BY <2>1, <2>2, <2>3 DEF Next, CallStep
<1>2. PICK d \in Callers : Lease(d)
  BY <1>1
<1>3. phase' = [phase EXCEPT ![d] = "asking"]
      /\ lease' = [lease EXCEPT ![d] = NextToken(ProcessOf[d], method[d])]
  BY <1>2 DEF Lease
<1>4. d = c
  BY <1>0, <1>3
<1> QED BY <1>0, <1>2, <1>3, <1>4

(* Over all processes a token is never asked before its interval is over,   *)
(* nor a paced method before the pool's; no request uses a token that is    *)
(* disabled or at rest (acquire).                                           *)
THEOREM IntervalsHold == Spec => RatesKept
<1> DEFINE Kept(c, t, m) ==
      Sends(c, t, m) =>
       /\ ~token[t].disabled /\ token[t].cooldown = 0
       /\ \A n \in Methods :
            sinceUse[t][n] >= IF OnProbation(t, n)
                              THEN Larger(Interval[n], ProbationInterval)
                              ELSE Interval[n]
       /\ m \in Paced => \A u \in Tokens : sinceUse[u][m] >= PoolInterval
<1>1. ASSUME RateInv, [Next]_vars, NEW c \in Callers, NEW t \in Tokens, NEW m \in Methods
      PROVE  Kept(c, t, m)
  <2> SUFFICES ASSUME Sends(c, t, m)
               PROVE  /\ ~token[t].disabled /\ token[t].cooldown = 0
                      /\ \A n \in Methods : sinceUse[t][n] >= SpacingFor(t, n)
                      /\ m \in Paced => \A u \in Tokens : sinceUse[u][m] >= PoolInterval
    BY DEF SpacingFor
  <2>1. TypeInv /\ TypeOK /\ HistoryType
    BY <1>1 DEF RateInv, TypeInv
  <2>2. Lease(c) /\ t = NextToken(ProcessOf[c], m) /\ m = method[c]
    BY <1>1, <2>1, SendIsLease
  <2>3. /\ ~token[t].disabled /\ token[t].next = 0 /\ token[t].cooldown = 0
        /\ m \in Paced => gate[m] = 0
    BY <2>1, <2>2, LeasedToken
  <2>4. \A n \in Methods : sinceUse[t][n] >= SpacingFor(t, n)
    BY <1>1, <2>1, <2>3 DEF RateInv, SlotKept, HistoryType
  <2>5. m \in Paced => \A u \in Tokens : sinceUse[u][m] >= PoolInterval
    BY <1>1, <2>1, <2>3 DEF RateInv, GateKept, HistoryType
  <2> QED BY <2>3, <2>4, <2>5
<1>2. RateInv /\ [Next]_vars => [\A c \in Callers, t \in Tokens, m \in Methods : Kept(c, t, m)]_vars
  BY <1>1
<1> QED BY <1>2, Rates, PTL DEF Spec, RatesKept

(* While the limit of a method lasts, one request per probe time tries it,  *)
(* over all processes and however late the answers are (acquire,            *)
(* method_cooldown).                                                        *)
THEOREM ProbesAreRare == Spec => ProbesSpaced
<1>1. ASSUME RateInv, [Next]_vars, NEW c \in Callers, NEW t \in Tokens, NEW m \in Methods,
             Sends(c, t, m), limit[t][m].blocked > 0
      PROVE  sinceUse[t][m] >= ProbeTime
  <2>1. TypeInv /\ TypeOK /\ HistoryType
    BY <1>1 DEF RateInv, TypeInv
  <2>2. Lease(c) /\ t = NextToken(ProcessOf[c], m) /\ m = method[c]
    BY <1>1, <2>1, SendIsLease
  <2>3. limit[t][m].blocked = 0 \/ limit[t][m].probe = 0
    BY <2>1, <2>2, LeasedToken
  <2>4. limit[t][m].blocked \in Nat /\ limit[t][m].probe \in Nat /\ sinceUse[t][m] \in Nat
    BY <2>1, ConstantFacts DEF TypeOK, HistoryType
  <2> QED BY <1>1, <2>3, <2>4 DEF RateInv, ProbeKept
<1>2. RateInv /\ [Next]_vars =>
        [\A c \in Callers, t \in Tokens, m \in Methods :
           Sends(c, t, m) /\ limit[t][m].blocked > 0 => sinceUse[t][m] >= ProbeTime]_vars
  BY <1>1
<1> QED BY <1>2, Rates, PTL DEF Spec, ProbesSpaced

-----------------------------------------------------------------------------
(* Waking up.                                                               *)

LEMMA HonestState == TypeOK => WakeupsHonest
<1> SUFFICES ASSUME TypeOK, NEW m \in Methods, Enabled # {}
    PROVE LET readyAfter(n) ==
                \E t \in Enabled : /\ ReadyIn(t) <= n
                                   /\ limit[t][m].blocked <= n \/ limit[t][m].probe <= n
              wakeup == NextAvailable(m)
          IN /\ readyAfter(wakeup)
             /\ \A n \in 0 .. wakeup - 1 : ~readyAfter(n)
             /\ IF Available(m) THEN Capable(m) # {} ELSE wakeup > 0
  BY DEF WakeupsHonest
<1> DEFINE ready(t, n) == /\ ReadyIn(t) <= n
                          /\ limit[t][m].blocked <= n \/ limit[t][m].probe <= n
           when(t) == Larger(ReadyIn(t), Smaller(limit[t][m].blocked, limit[t][m].probe))
           S == {when(t) : t \in Enabled}
           wakeup == NextAvailable(m)
<1>1. \A t \in Enabled :
        /\ ReadyIn(t) \in Nat /\ limit[t][m].blocked \in Nat /\ limit[t][m].probe \in Nat
        /\ token[t].cooldown \in Nat /\ token[t].next \in Nat /\ ~token[t].disabled
  BY ReadyInType, ConstantFacts DEF TypeOK, Enabled
<1>2. \A t \in Enabled : when(t) \in Nat /\ (\A n \in Nat : ready(t, n) <=> when(t) <= n)
  BY <1>1 DEF Larger, Smaller
<1>3. wakeup \in S /\ wakeup \in Nat /\ \A w \in S : wakeup <= w
  <2>1. S \subseteq Nat
    BY <1>2
  <2>2. S # {}
    OBVIOUS
  <2>3. wakeup = Least(S)
    BY DEF NextAvailable
  <2> HIDE DEF S, wakeup
  <2>4. PICK x \in S : \A y \in S : x <= y
    BY <2>1, <2>2, LeastExists
  <2>5. Least(S) \in S /\ \A y \in S : Least(S) <= y
    BY <2>4 DEF Least
  <2> QED BY <2>1, <2>3, <2>5
<1>4. PICK u \in Enabled : wakeup = when(u)
  BY <1>3
<1> HIDE DEF wakeup
<1>5. ready(u, wakeup)
  BY <1>2, <1>3, <1>4
<1>6. ASSUME NEW n \in 0 .. wakeup - 1, NEW t \in Enabled, ready(t, n) PROVE FALSE
  <2>1. n \in Nat /\ n < wakeup
    BY <1>3, <1>6
  <2>2. when(t) <= n /\ when(t) \in Nat
    BY <1>2, <1>6, <2>1
  <2>3. wakeup <= when(t)
    BY <1>3
  <2> HIDE DEF when
  <2> QED BY <1>3, <2>1, <2>2, <2>3
<1>7. CASE Available(m)
  <2>1. Capable(m) # {}
    BY <1>7 DEF Available
  <2> QED BY <1>5, <1>6, <1>7, <2>1 DEF wakeup
<1>8. CASE ~Available(m)
  <2>1. wakeup > 0
    <3>1. SUFFICES ASSUME wakeup = 0 PROVE FALSE
      BY <1>3
    <3>2. ReadyIn(u) = 0 /\ (limit[u][m].blocked = 0 \/ limit[u][m].probe = 0)
      BY <1>1, <1>5, <3>1
    <3>3. token[u].cooldown = 0
      BY <1>1, <3>2 DEF ReadyIn, Larger
    <3> QED BY <1>8, <3>2, <3>3 DEF Available, Capable
  <2> QED BY <1>5, <1>6, <1>8, <2>1 DEF wakeup
<1> QED BY <1>7, <1>8

(* The time next_available_at names is the first at which some token may    *)
(* ask, and it agrees with is_method_available and acquire.                 *)
THEOREM WakeupsAreHonest == Spec => []WakeupsHonest
  BY PoolTypes, HonestState, PTL
=============================================================================
