----------------------------- MODULE TokenPool -----------------------------
(***************************************************************************)
(* The tokens of the VK API (vk/tokens.py) and the calls made with them    *)
(* (vk/client.py).                                                         *)
(*                                                                         *)
(* Processes share what they know of a token in two tables; acquire and    *)
(* the writers of an answer lock the token's row, so each is one action.   *)
(* Between a lease and its answer, and between two attempts of one call,   *)
(* the other callers run and time passes.                                  *)
(*                                                                         *)
(* Every point in time is kept as what is left until it: 0 stands for      *)
(* null, now or the past, and Tick takes one unit from all.                *)
(***************************************************************************)
EXTENDS Integers, FiniteSets

CONSTANTS
  TokenCount,        (* tokens of the file, numbered from 0                    *)
  Methods,           (* VK methods                                             *)
  NoMethod,          (* of a caller without a call                             *)
  Paced,             (* those with an interval for the whole pool              *)
  Processes,
  Callers,           (* asyncio tasks that call the API                        *)
  ProcessOf,         (* [Callers -> Processes]                                 *)
  Interval,          (* [Methods -> Nat], between two requests with one token  *)
  ProbationInterval, (* the same, after a recent limit                         *)
  ProbationWindow,   (* how recent                                             *)
  PoolInterval,      (* between two requests of a paced method                 *)
  FirstCooldown,     (* [{9, 29} -> Nat], of a method, doubled with every hit  *)
  MaxCooldown,
  ProbeTime,         (* until a limited method is tried again                  *)
  TokenCooldown,     (* of a token, after code 6 or an escalation              *)
  EscalationWindow,
  EscalationMethods,
  MaxRetries,        (* len(retry_delays)                                      *)
  LongAgo,           (* ages are counted up to this, beyond every window       *)
  MaxCalls,          (* bounds the calls that are made                         *)
  MaxFaults          (* bounds the answers that are not a success              *)

Tokens     == 0 .. TokenCount - 1
LimitCodes == {9, 29}

ASSUME PoolAssumption ==
  /\ TokenCount \in Nat \ {0}
  /\ IsFiniteSet(Methods) /\ Methods # {} /\ NoMethod \notin Methods /\ Paced \subseteq Methods
  /\ ProcessOf \in [Callers -> Processes]
  /\ Interval \in [Methods -> Nat \ {0}]
  /\ FirstCooldown \in [LimitCodes -> Nat \ {0}]
  /\ {ProbationInterval, PoolInterval, MaxCooldown, ProbeTime, TokenCooldown}
       \subseteq Nat \ {0}
  /\ {ProbationWindow, EscalationWindow, EscalationMethods, MaxRetries,
      LongAgo, MaxCalls, MaxFaults} \subseteq Nat
  /\ ProbationWindow < LongAgo /\ EscalationWindow < LongAgo
  /\ \A n \in {ProbationInterval, PoolInterval} \cup {Interval[m] : m \in Methods} :
       n <= ProbeTime

VARIABLES
  token,     (* vk_token_states: next_request_at, global_blocked_until, disabled *)
  limit,     (* vk_token_method_states: blocked_until, next_probe_at, hits,    *)
             (* last_error_code (0: null) and the age of last_error_at         *)
  gate,      (* vk_method_global_states: next_request_at                       *)
  cursor,    (* each process's round-robin position                            *)
  phase,     (* where each caller stands in call()                             *)
  method,    (* the method it calls                                            *)
  lease,     (* the token it was given                                         *)
  sleep,     (* how long it still sleeps                                       *)
  retries,   (* retry_index                                                    *)
  calls,     (* started so far                                                 *)
  sinceUse,  (* history: age of the last request per token and method, up to    *)
             (* ProbeTime, which is the longest interval between requests       *)
  faults

poolVars   == <<token, limit, gate, cursor>>
callerVars == <<phase, method, lease, sleep, retries>>
vars       == <<poolVars, callerVars, sinceUse, calls, faults>>

Larger(a, b)  == IF a > b THEN a ELSE b
Smaller(a, b) == IF a < b THEN a ELSE b
Earlier(n)    == IF n = 0 THEN 0 ELSE n - 1
Least(S)      == CHOOSE a \in S : \A b \in S : a <= b

Init ==
  /\ token = [t \in Tokens |-> [next |-> 0, cooldown |-> 0, disabled |-> FALSE]]
  /\ limit = [t \in Tokens |-> [m \in Methods |->
       [blocked |-> 0, probe |-> 0, hits |-> 0, code |-> 0, age |-> LongAgo]]]
  /\ gate = [m \in Paced |-> 0]
  /\ cursor = [p \in Processes |-> 0]
  /\ phase = [c \in Callers |-> "idle"]
  /\ method = [c \in Callers |-> NoMethod]
  /\ lease = [c \in Callers |-> 0]
  /\ sleep = [c \in Callers |-> 0]
  /\ retries = [c \in Callers |-> 0]
  /\ sinceUse = [t \in Tokens |-> [m \in Methods |-> ProbeTime]]
  /\ calls = 0
  /\ faults = 0

-----------------------------------------------------------------------------
(* What the tables say of a token.                                          *)

Enabled == {t \in Tokens : ~token[t].disabled}

(* Tokens that may try m, now or after a short wait.                        *)
Capable(m) == {t \in Enabled : limit[t][m].blocked = 0 \/ limit[t][m].probe = 0}

(* ... and those that may do it at once.                                    *)
ReadyIn(t) == Larger(token[t].next, token[t].cooldown)
Ready(m)   == {t \in Capable(m) : ReadyIn(t) = 0}

Gated(m) == m \in Paced /\ gate[m] > 0

(* Faulty variant: a recent limit is forgotten.                             *)
BaseInterval(t, m) == Interval[m]
IntervalFor(t, m) ==
  IF limit[t][m].age < ProbationWindow
  THEN Larger(Interval[m], ProbationInterval)
  ELSE Interval[m]

(* is_method_available                                                      *)
Available(m) == \E t \in Capable(m) : token[t].cooldown = 0

(* Faulty variant: the probe is overlooked.                                 *)
NextAvailableUnprobed(m) ==
  Least({Larger(ReadyIn(t), limit[t][m].blocked) : t \in Enabled})
(* next_available_at, of a pool with an enabled token.                      *)
NextAvailable(m) ==
  Least({Larger(ReadyIn(t), Smaller(limit[t][m].blocked, limit[t][m].probe)) :
           t \in Enabled})

Distance(p, t) == (t - cursor[p] + TokenCount) % TokenCount
(* The first ready token, from the cursor on.                               *)
NextToken(p, m) ==
  CHOOSE t \in Ready(m) : \A u \in Ready(m) : Distance(p, t) <= Distance(p, u)

-----------------------------------------------------------------------------
(* VKClient.call, up to the request.                                        *)

Begin(c, m) ==
  /\ phase[c] = "idle" /\ calls < MaxCalls
  /\ phase' = [phase EXCEPT ![c] = "acquiring"]
  /\ method' = [method EXCEPT ![c] = m]
  /\ calls' = calls + 1
  /\ UNCHANGED <<poolVars, lease, sleep, retries, sinceUse, faults>>

Acquiring(c) == phase[c] = "acquiring" /\ sleep[c] = 0

(* Faulty variant: the probe is not reserved.                               *)
LeaseUnreserved(c) ==
  LET m == method[c]
      t == NextToken(ProcessOf[c], m)
  IN /\ Acquiring(c) /\ ~Gated(m) /\ Ready(m) # {}
     /\ token' = [token EXCEPT ![t].next = IntervalFor(t, m)]
     /\ gate' = [n \in Paced |-> IF n = m THEN PoolInterval ELSE gate[n]]
     /\ cursor' = [cursor EXCEPT ![ProcessOf[c]] = (t + 1) % TokenCount]
     /\ lease' = [lease EXCEPT ![c] = t]
     /\ phase' = [phase EXCEPT ![c] = "asking"]
     /\ sinceUse' = [sinceUse EXCEPT ![t][m] = 0]
     /\ UNCHANGED <<limit, method, sleep, retries, calls, faults>>

(* acquire finds a token: its next slot, the probe and the pool-wide slot   *)
(* are reserved, and the request is sent.                                   *)
Lease(c) ==
  LET m == method[c]
      t == NextToken(ProcessOf[c], m)
  IN /\ Acquiring(c) /\ ~Gated(m) /\ Ready(m) # {}
     /\ token' = [token EXCEPT ![t].next = IntervalFor(t, m)]
     /\ limit' = IF limit[t][m].blocked > 0
                 THEN [limit EXCEPT ![t][m].probe = ProbeTime]
                 ELSE limit
     /\ gate' = [n \in Paced |-> IF n = m THEN PoolInterval ELSE gate[n]]
     /\ cursor' = [cursor EXCEPT ![ProcessOf[c]] = (t + 1) % TokenCount]
     /\ lease' = [lease EXCEPT ![c] = t]
     /\ phase' = [phase EXCEPT ![c] = "asking"]
     /\ sinceUse' = [sinceUse EXCEPT ![t][m] = 0]
     /\ UNCHANGED <<method, sleep, retries, calls, faults>>

(* acquire waits for the pool-wide slot, or for the first token's.          *)
Wait(c) ==
  LET m == method[c]
  IN /\ Acquiring(c) /\ Enabled # {}
     /\ \/ Gated(m) /\ sleep' = [sleep EXCEPT ![c] = gate[m]]
        \/ /\ ~Gated(m) /\ Ready(m) = {} /\ Capable(m) # {}
           /\ sleep' = [sleep EXCEPT ![c] = Least({ReadyIn(t) : t \in Capable(m)})]
     /\ UNCHANGED <<poolVars, phase, method, lease, retries, calls, sinceUse, faults>>

EndCall(c) ==
  /\ phase' = [phase EXCEPT ![c] = "idle"]
  /\ method' = [method EXCEPT ![c] = NoMethod]
  /\ lease' = [lease EXCEPT ![c] = 0]
  /\ retries' = [retries EXCEPT ![c] = 0]

(* Faulty variant: no token is left, and nobody notices.                    *)
GiveUpIfEnabled(c) ==
  /\ Acquiring(c)
  /\ Enabled # {} /\ ~Gated(method[c]) /\ Capable(method[c]) = {}
  /\ EndCall(c)
  /\ UNCHANGED <<poolVars, sleep, calls, sinceUse, faults>>

(* VKMethodUnavailable, or VKTokensUnavailable.                             *)
GiveUp(c) ==
  /\ Acquiring(c)
  /\ Enabled = {} \/ (~Gated(method[c]) /\ Capable(method[c]) = {})
  /\ EndCall(c)
  /\ UNCHANGED <<poolVars, sleep, calls, sinceUse, faults>>

-----------------------------------------------------------------------------
(* The answers.                                                             *)

Fault == faults < MaxFaults /\ faults' = faults + 1
AcquireAgain(c) ==
  /\ phase' = [phase EXCEPT ![c] = "acquiring"]
  /\ lease' = [lease EXCEPT ![c] = 0]

(* A proper answer: mark_success forgets the limit of the method.           *)
Succeed(c) ==
  /\ phase[c] = "asking"
  /\ limit' = [limit EXCEPT ![lease[c]][method[c]] =
                 [@ EXCEPT !.blocked = 0, !.probe = 0, !.hits = 0, !.code = 0]]
  /\ EndCall(c)
  /\ UNCHANGED <<token, gate, cursor, sleep, calls, sinceUse, faults>>

(* Any other error, and an answer without structure, ends the call.         *)
Fail(c) ==
  /\ phase[c] = "asking"
  /\ Fault
  /\ EndCall(c)
  /\ UNCHANGED <<poolVars, sleep, calls, sinceUse>>

(* Codes 5, 27, 28: disable.                                                *)
AuthError(c) ==
  /\ phase[c] = "asking"
  /\ Fault
  /\ token' = [token EXCEPT ![lease[c]].disabled = TRUE]
  /\ AcquireAgain(c)
  /\ UNCHANGED <<limit, gate, cursor, method, sleep, retries, calls, sinceUse>>

Rest(t) == Larger(token[t].cooldown, TokenCooldown)

(* Code 6: global_cooldown.                                                 *)
RateError(c) ==
  /\ phase[c] = "asking"
  /\ Fault
  /\ token' = [token EXCEPT ![lease[c]].cooldown = Rest(lease[c])]
  /\ AcquireAgain(c)
  /\ UNCHANGED <<limit, gate, cursor, method, sleep, retries, calls, sinceUse>>

(* Limits of several methods, in a window, are a limit of the token.        *)
Escalates(t, m, row) ==
  LET pairs == [limit[t] EXCEPT ![m] = row]
  IN Cardinality({n \in Methods : pairs[n].age <= EscalationWindow /\ pairs[n].code # 0})
       >= EscalationMethods

(* Faulty variant: doubled without a limit.                                 *)
UncappedTime(code, hits) == FirstCooldown[code] * 2 ^ (hits - 1)
CooldownTime(code, hits) ==
  LET doubled == FirstCooldown[code] * 2 ^ (hits - 1)
  IN  IF doubled \in 0 .. MaxCooldown THEN doubled ELSE MaxCooldown

(* Codes 9 and 29: method_cooldown, longer with every hit in a row.         *)
LimitError(c, code) ==
  LET t    == lease[c]
      m    == method[c]
      hits == 1 + IF limit[t][m].code = code THEN limit[t][m].hits ELSE 0
      time == CooldownTime(code, hits)
      row  == [blocked |-> time, probe |-> Smaller(time, ProbeTime),
               hits |-> hits, code |-> code, age |-> 0]
  IN /\ phase[c] = "asking"
     /\ Fault
     /\ limit' = [limit EXCEPT ![t][m] = row]
     /\ token' = IF Escalates(t, m, row)
                 THEN [token EXCEPT ![t].cooldown = Rest(t)]
                 ELSE token
     /\ AcquireAgain(c)
     /\ UNCHANGED <<gate, cursor, method, sleep, retries, calls, sinceUse>>

(* No answer, or codes 1 and 10: again after a delay, but not forever.      *)
Retry(c) ==
  /\ phase[c] = "asking"
  /\ Fault
  /\ IF retries[c] >= MaxRetries
     THEN EndCall(c)
     ELSE /\ phase' = [phase EXCEPT ![c] = "delayed"]
          /\ retries' = [retries EXCEPT ![c] = @ + 1]
          /\ UNCHANGED <<method, lease>>
  /\ UNCHANGED <<poolVars, sleep, calls, sinceUse>>

(* The delay, which has a random part, is over.                             *)
Resend(c) ==
  /\ phase[c] = "delayed"
  /\ AcquireAgain(c)
  /\ UNCHANGED <<poolVars, method, sleep, retries, calls, sinceUse, faults>>

-----------------------------------------------------------------------------
Older(n, most) == Smaller(n + 1, most)

Tick ==
  /\ token' = [t \in Tokens |->
       [token[t] EXCEPT !.next = Earlier(@), !.cooldown = Earlier(@)]]
  /\ limit' = [t \in Tokens |-> [m \in Methods |->
       [limit[t][m] EXCEPT !.blocked = Earlier(@), !.probe = Earlier(@), !.age = Older(@, LongAgo)]]]
  /\ gate' = [m \in Paced |-> Earlier(gate[m])]
  /\ sleep' = [c \in Callers |-> Earlier(sleep[c])]
  /\ sinceUse' = [t \in Tokens |-> [m \in Methods |-> Older(sinceUse[t][m], ProbeTime)]]
  /\ UNCHANGED <<cursor, phase, method, lease, retries, calls, faults>>

CallStep(c) ==
  \/ Lease(c)
  \/ Wait(c)
  \/ GiveUp(c)
  \/ Succeed(c)
  \/ Fail(c)
  \/ AuthError(c)
  \/ RateError(c)
  \/ \E code \in LimitCodes : LimitError(c, code)
  \/ Retry(c)
  \/ Resend(c)

Next ==
  \/ \E c \in Callers : \/ \E m \in Methods : Begin(c, m)
                        \/ CallStep(c)
  \/ Tick

Spec == Init /\ [][Next]_vars

(* Time passes, and while some task can go on some task does: the event     *)
(* loop runs, and VK, or the timeout, answers.                              *)
Fairness == WF_vars(Tick) /\ WF_vars(\E c \in Callers : CallStep(c))
FairSpec == Spec /\ Fairness

-----------------------------------------------------------------------------
(* Properties.                                                              *)

(* Types of the tables and of what a call keeps.                            *)
TypeOK ==
  /\ token \in [Tokens -> [next : Nat, cooldown : Nat, disabled : BOOLEAN]]
  /\ limit \in [Tokens -> [Methods -> [blocked : 0 .. MaxCooldown, probe : Nat,
                 hits : Nat, code : LimitCodes \cup {0}, age : 0 .. LongAgo]]]
  /\ gate \in [Paced -> Nat]
  /\ cursor \in [Processes -> Tokens]
  /\ phase \in [Callers -> {"idle", "acquiring", "asking", "delayed"}]
  /\ method \in [Callers -> Methods \cup {NoMethod}]
  /\ lease \in [Callers -> Tokens]
  /\ sleep \in [Callers -> Nat]
  /\ retries \in [Callers -> 0 .. MaxRetries]
  /\ calls \in 0 .. MaxCalls
  /\ faults \in 0 .. MaxFaults

Sends(c, t, m) ==
  phase[c] = "acquiring" /\ phase'[c] = "asking" /\ lease'[c] = t /\ method[c] = m

(* When n was last asked with t, a limit of it was recent.                  *)
OnProbation(t, n) ==
  LET past == limit[t][n].age - sinceUse[t][n]
  IN limit[t][n].age < LongAgo /\ 0 < past /\ past < ProbationWindow

(* Over all processes, no token is asked more often than its interval (the  *)
(* longer one after a limit), no paced method more often than the pool's,   *)
(* and none that is disabled or at rest.                                    *)
RatesKept ==
  [][\A c \in Callers, t \in Tokens, m \in Methods : Sends(c, t, m) =>
       /\ ~token[t].disabled /\ token[t].cooldown = 0
       /\ \A n \in Methods :
            sinceUse[t][n] >= IF OnProbation(t, n)
                              THEN Larger(Interval[n], ProbationInterval)
                              ELSE Interval[n]
       /\ m \in Paced => \A u \in Tokens : sinceUse[u][m] >= PoolInterval]_vars

(* A limited method gets one probe per probe time, whoever is waiting for   *)
(* it and however late the answer is.                                       *)
ProbesSpaced ==
  [][\A c \in Callers, t \in Tokens, m \in Methods :
       Sends(c, t, m) /\ limit[t][m].blocked > 0 => sinceUse[t][m] >= ProbeTime]_vars

(* What acquire, is_method_available and next_available_at make of the same *)
(* tables agrees: at the time a worker is told to wake up for a method, and *)
(* no earlier, some token may ask for it; told that it is available, acquire *)
(* does not refuse it, and otherwise the wake-up lies ahead.                *)
WakeupsHonest ==
  \A m \in Methods : Enabled # {} =>
    LET readyAfter(n) ==
          \E t \in Enabled : /\ ReadyIn(t) <= n
                             /\ limit[t][m].blocked <= n \/ limit[t][m].probe <= n
        wakeup == NextAvailable(m)
    IN /\ readyAfter(wakeup)
       /\ \A n \in 0 .. wakeup - 1 : ~readyAfter(n)
       /\ IF Available(m) THEN Capable(m) # {} ELSE wakeup > 0

(* Every call comes to an end: with an answer, an error or an exception.    *)
CallsEnd == \A c \in Callers : phase[c] # "idle" ~> phase[c] = "idle"
=============================================================================
