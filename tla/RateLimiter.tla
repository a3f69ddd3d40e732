----------------------------- MODULE RateLimiter -----------------------------
(***************************************************************************)
(* rateLimitMiddleware (src/internal/server/middleware.go) and the Redis   *)
(* key it counts in.                                                       *)
(*                                                                         *)
(* Keys of different paths and clients do not interact: the module has one *)
(* key.  Handlers run at the same time, in one process or in several; each *)
(* sends INCR, and the one that got 1 sends EXPIRE afterwards, in a second *)
(* command that may fail, or never be sent.                                *)
(***************************************************************************)
EXTENDS Integers, FiniteSets

CONSTANTS
  Request,   \* requests under way or remembered; used again when forgotten
  Loss,      \* restarts of Redis remembered; used again when forgotten
  Limit,     \* RATE_LIMIT_LIMIT
  Window,    \* RATE_LIMIT_WINDOW_SECONDS, in ticks
  Faults     \* what may go wrong

(* The answer to INCR is lost, EXPIRE fails, the process dies, Redis       *)
(* restarts, Redis writes a snapshot a restart may bring back.             *)
Fault == {"answer", "expire", "death", "restart", "snapshot"}

(* config.Load checks neither number (config.go:125-129).  Below zero they *)
(* do what zero does: no count is within the limit, and EXPIRE deletes the *)
(* key.                                                                    *)
ASSUME LimiterAssumption ==
  /\ Limit \in Nat
  /\ Window \in Nat
  /\ Faults \subseteq Fault

(* Only so many things are in any window.                                  *)
ASSUME FiniteAssumption == IsFiniteSet(Request) /\ IsFiniteSet(Loss)

VARIABLES
  counter,  \* value of the key, 0 when there is none
  ttl,      \* ticks the key has left, or NoTtl
  disk,     \* the key in the last snapshot of Redis
  stage,    \* per request, where its handler is: see Stage
  count,    \* per request, the answer to its INCR
  age,      \* history: per request, ticks since its INCR, up to Window
  lossAge   \* history: per restart of Redis, ticks since then, up to Window

limiterVars == <<counter, ttl, disk, stage, count, age, lossAge>>

NoTtl == -1

(* A request that was refused, or whose process died, leaves nothing to    *)
(* remember, and is idle again.                                            *)
Stage == {"idle", "counted", "checked", "served", "open"}

(* Values above the limit need not be told apart; 1 has to be.             *)
Enough == Limit + 2
Next1(n) == IF n < Enough THEN n + 1 ELSE n

Key   == [counter |-> counter, ttl |-> ttl]
NoKey == [counter |-> 0, ttl |-> NoTtl]

-----------------------------------------------------------------------------

LimiterInit ==
  /\ counter = 0
  /\ ttl   = NoTtl
  /\ disk  = NoKey
  /\ stage = [r \in Request |-> "idle"]
  /\ count = [r \in Request |-> 0]
  /\ age   = [r \in Request |-> Window]
  /\ lossAge = [l \in Loss |-> Window]

(* INCR creates the key without a time to live, or keeps the one it has.   *)
Incr(r) ==
  /\ stage[r] = "idle"
  /\ counter' = Next1(counter)
  /\ count' = [count EXCEPT ![r] = Next1(counter)]
  /\ stage' = [stage EXCEPT ![r] = "counted"]
  /\ age'   = [age EXCEPT ![r] = 0]
  /\ UNCHANGED <<ttl, disk, lossAge>>

(* Redis counts, and its answer is lost: the client sends INCR again (Incr)*)
(* or gives up (IncrFails).                                                *)
IncrUnanswered(r) ==
  /\ "answer" \in Faults
  /\ stage[r] = "idle"
  /\ counter' = Next1(counter)
  /\ UNCHANGED <<ttl, disk, stage, count, age, lossAge>>

(* Redis does not answer: the request is served uncounted.                 *)
IncrFails(r) ==
  /\ stage[r] = "idle"
  /\ stage' = [stage EXCEPT ![r] = "open"]
  /\ age'   = [age EXCEPT ![r] = 0]
  /\ UNCHANGED <<counter, ttl, disk, count, lossAge>>

(* Mutants of Expire: sent on every count; with the window in the wrong    *)
(* unit.                                                                   *)
ExpireAlways(r) ==
  /\ stage[r] = "counted"
  /\ ttl'   = IF counter > 0 THEN Window ELSE NoTtl
  /\ stage' = [stage EXCEPT ![r] = "checked"]
  /\ UNCHANGED <<counter, disk, count, age, lossAge>>

ExpireMillis(r) ==
  /\ stage[r] = "counted"
  /\ count[r] = 1
  /\ ttl'   = IF counter > 0 THEN 1000 * Window ELSE NoTtl
  /\ stage' = [stage EXCEPT ![r] = "checked"]
  /\ UNCHANGED <<counter, disk, count, age, lossAge>>

(* EXPIRE finds the key this handler created, a later one, or none; a time *)
(* to live of zero deletes it.                                             *)
Expire(r) ==
  /\ stage[r] = "counted"
  /\ count[r] = 1
  /\ counter' = IF Window = 0 THEN 0 ELSE counter
  /\ ttl'   = IF counter > 0 /\ Window > 0 THEN Window ELSE NoTtl
  /\ stage' = [stage EXCEPT ![r] = "checked"]
  /\ UNCHANGED <<disk, count, age, lossAge>>

(* The error of EXPIRE is dropped, a cancelled request context included.   *)
ExpireFails(r) ==
  /\ "expire" \in Faults
  /\ stage[r] = "counted"
  /\ count[r] = 1
  /\ stage' = [stage EXCEPT ![r] = "checked"]
  /\ UNCHANGED <<counter, ttl, disk, count, age, lossAge>>

(* Mutant of Admits: the count before the INCR is compared.                *)
AdmitsFromZero(n) == n <= Limit + 1
Admits(n)         == n <= Limit

Decides(r) == stage[r] = "checked" \/ (stage[r] = "counted" /\ count[r] # 1)

Serve(r) ==
  /\ Decides(r)
  /\ Admits(count[r])
  /\ stage' = [stage EXCEPT ![r] = "served"]
  /\ UNCHANGED <<counter, ttl, disk, count, age, lossAge>>

(* These requests are over, and idle again.                                *)
Over(R) ==
  /\ stage' = [r \in Request |-> IF r \in R THEN "idle" ELSE stage[r]]
  /\ count' = [r \in Request |-> IF r \in R THEN 0 ELSE count[r]]
  /\ age'   = [r \in Request |-> IF r \in R THEN Window ELSE age[r]]
  /\ UNCHANGED <<counter, ttl, disk, lossAge>>

(* 429.                                                                    *)
Refuse(r) ==
  /\ Decides(r)
  /\ ~Admits(count[r])
  /\ Over({r})

(* The process ends under its handlers.                                    *)
AppDies ==
  /\ "death" \in Faults
  /\ Over({r \in Request : stage[r] \in {"counted", "checked"}})

Aged(ages) == [x \in DOMAIN ages |-> IF ages[x] < Window THEN ages[x] + 1 ELSE ages[x]]
KeyAged(k) == IF k.ttl = 1 THEN NoKey
              ELSE [k EXCEPT !.ttl = IF k.ttl > 1 THEN k.ttl - 1 ELSE NoTtl]

(* A second passes.  The snapshot holds the time at which the key expires: *)
(* a restart after it does not bring the key back.                         *)
Tick ==
  /\ counter' = KeyAged(Key).counter
  /\ ttl'     = KeyAged(Key).ttl
  /\ disk'    = KeyAged(disk)
  /\ age'     = Aged(age)
  /\ lossAge' = Aged(lossAge)
  /\ UNCHANGED <<stage, count>>

(* env/docker-compose.yaml runs Redis as the image comes, which saves now  *)
(* and then.                                                               *)
Save ==
  /\ "snapshot" \in Faults
  /\ disk' = Key
  /\ UNCHANGED <<counter, ttl, stage, count, age, lossAge>>

(* Redis goes on from its snapshot, and has lost what it counted since.    *)
RedisRestarts(l) ==
  /\ "restart" \in Faults
  /\ lossAge[l] = Window
  /\ disk # Key
  /\ counter' = disk.counter
  /\ ttl'     = disk.ttl
  /\ lossAge' = [lossAge EXCEPT ![l] = 0]
  /\ UNCHANGED <<disk, stage, count, age>>

(* A request that was served and is no longer in any window is forgotten.  *)
Forget(r) ==
  /\ stage[r] \in {"served", "open"}
  /\ age[r] = Window
  /\ Over({r})

LimiterNext ==
  \/ \E r \in Request : Incr(r) \/ IncrUnanswered(r) \/ IncrFails(r) \/ Expire(r) \/ ExpireFails(r)
                        \/ Serve(r) \/ Refuse(r) \/ Forget(r)
  \/ AppDies
  \/ Tick
  \/ Save
  \/ \E l \in Loss : RedisRestarts(l)

(* Time passes, and a handler that has begun goes on.                      *)
LimiterFairness ==
  /\ WF_limiterVars(Tick)
  /\ \A r \in Request : WF_limiterVars(Expire(r))

LimiterSpec == LimiterInit /\ [][LimiterNext]_limiterVars /\ LimiterFairness

-----------------------------------------------------------------------------

(* Types.                                                                  *)
LimiterTypeOK ==
  /\ counter \in 0..Enough
  /\ ttl \in {NoTtl} \cup 1..Window
  /\ disk \in [counter : 0..Enough, ttl : {NoTtl} \cup 1..Window]
  /\ stage \in [Request -> Stage]
  /\ count \in [Request -> 0..Enough]
  /\ age \in [Request -> 0..Window]
  /\ lossAge \in [Loss -> 0..Window]

(* The requests that pass, or will, in the last Window: those whose count  *)
(* is within the limit, and those Redis did not answer.                    *)
Recent    == {r \in Request : /\ stage[r] \in {"counted", "checked", "served"}
                              /\ Admits(count[r])
                              /\ age[r] < Window}
Uncounted == {r \in Request : stage[r] = "open" /\ age[r] < Window}
Passing   == Recent \cup Uncounted

Losses == {l \in Loss : lossAge[l] < Window}

(* In any Window a client gets through: the rest of one counting period    *)
(* and the beginning of the next, the limit each, but for the request that *)
(* created the first key, which is older than the EXPIRE that ended it,    *)
(* however late that came, or from whichever handler; the limit once more  *)
(* for every time Redis restarts and counts again what it had counted; and *)
(* what Redis did not answer, which is served uncounted                    *)
(* (middleware.go:13-25).                                                  *)
LimitsPerWindow ==
  LET periods == 2 + Cardinality(Losses)
  IN  \/ Limit = 0 /\ Passing = Uncounted
      \/ Cardinality(Passing) < periods * Limit + Cardinality(Uncounted)

(* A counting period ends, whatever arrives in the meantime, so a client   *)
(* that was refused is served again (middleware.go:19-21; README.md:99,    *)
(* RATE_LIMIT_WINDOW_SECONDS).                                             *)
PeriodEnds == counter > 0 ~> counter = 0

=============================================================================
