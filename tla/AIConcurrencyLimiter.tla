------------------------ MODULE AIConcurrencyLimiter ------------------------
(***************************************************************************)
(* AIConcurrencyLimiter of app/services/ai_pipeline.py: a semaphore whose  *)
(* number of permits is the limit, and a limit that an administrator       *)
(* changes while calls to the AI backends run.  A smaller limit takes the  *)
(* permits that are free and remembers the rest as a debt (_pending_shrink)*)
(* that calls pay as they end.                                             *)
(*                                                                         *)
(* The lock covers the counters, not the semaphore: a call waits for its   *)
(* permit before it takes the lock and returns it after, while configure   *)
(* moves permits one at a time under the lock.                             *)
(***************************************************************************)
EXTENDS Integers, FiniteSets

CONSTANTS
  Threads,    \* the threads that call backends
  MinLimit,   \* MIN_AI_MAX_CONCURRENT_REQUESTS
  MaxLimit,   \* MAX_AI_MAX_CONCURRENT_REQUESTS
  Settings,   \* the values an administrator may enter
  MaxChanges  \* changes of the setting (bound)

ASSUME LimiterConstants ==
  /\ IsFiniteSet(Threads)
  /\ MinLimit \in Nat \ {0}
  /\ MaxLimit \in Nat /\ MinLimit <= MaxLimit
  /\ Settings \subseteq Int
  /\ MaxChanges \in Nat

VARIABLES
  limit, pending, active,   \* _limit, _pending_shrink, _active
  permits,                  \* the semaphore's value
  call,                     \* where each thread is in acquire
  change,                   \* configure in progress: it holds the lock
  changes

limiterVars == <<limit, pending, active, permits, call, change, changes>>

Limits == MinLimit .. MaxLimit
Idle == [kind |-> "none", goal |-> 0, left |-> 0]

\* waiting for a permit; has it; inside the with block; has left the block and
\* must return the permit.
Stages == {"idle", "waiting", "permitted", "calling", "returning"}
In(stage) == {t \in Threads : call[t] = stage}
Holders == {t \in Threads : call[t] \in {"permitted", "calling", "returning"}}

LimiterTypeOK ==
  /\ limit \in Limits
  /\ pending \in Nat /\ active \in Nat /\ permits \in Nat
  /\ call \in [Threads -> Stages]
  /\ change \in [kind : {"none", "grow", "shrink"}, goal : Limits \cup {0}, left : Nat]
  /\ change.kind /= "none" => change.goal \in Limits
  /\ changes \in 0 .. MaxChanges

LimiterInit ==
  /\ limit \in Limits
  /\ pending = 0 /\ active = 0
  /\ permits = limit
  /\ call = [t \in Threads |-> "idle"]
  /\ change = Idle
  /\ changes = 0

-----------------------------------------------------------------------------
(* acquire *)

Move(t, from, to) ==
  /\ call[t] = from
  /\ call' = [call EXCEPT ![t] = to]

\* _lock is taken for a moment, and not while configure holds it.
Locked == change.kind /= "none"

Arrive(t) ==
  /\ Move(t, "idle", "waiting")
  /\ UNCHANGED <<limit, pending, active, permits, change, changes>>

TakePermit(t) ==
  /\ permits > 0
  /\ Move(t, "waiting", "permitted")
  /\ permits' = permits - 1
  /\ UNCHANGED <<limit, pending, active, change, changes>>

Enter(t) ==
  /\ ~Locked
  /\ Move(t, "permitted", "calling")
  /\ active' = active + 1
  /\ UNCHANGED <<limit, pending, permits, change, changes>>

\* Mistake: the permit is returned although it pays the debt.
PayAndReturn(t) ==
  /\ Move(t, "calling", "returning")
  /\ pending' = IF pending > 0 THEN pending - 1 ELSE 0

PayOrReturn(t) ==
  IF pending > 0
  THEN Move(t, "calling", "idle") /\ pending' = pending - 1
  ELSE Move(t, "calling", "returning") /\ UNCHANGED pending

Leave(t) ==
  /\ ~Locked
  /\ PayOrReturn(t)
  /\ active' = IF active = 0 THEN 0 ELSE active - 1
  /\ UNCHANGED <<limit, permits, change, changes>>

ReturnPermit(t) ==
  /\ Move(t, "returning", "idle")
  /\ permits' = permits + 1
  /\ UNCHANGED <<limit, pending, active, change, changes>>

-----------------------------------------------------------------------------
(* configure *)

\* Mistake: zero switches the backends off.
Uncoerced(value) == IF value > MaxLimit THEN MaxLimit ELSE value

\* _coerce_ai_concurrency_limit
Coerce(value) ==
  IF value < MinLimit THEN MinLimit ELSE IF value > MaxLimit THEN MaxLimit ELSE value

Absorbed(more) == IF pending < more THEN pending ELSE more

StartChange(value) ==
  LET goal == Coerce(value) IN
  /\ ~Locked /\ changes < MaxChanges /\ goal /= limit
  /\ changes' = changes + 1
  /\ \/ /\ goal > limit
        /\ pending' = pending - Absorbed(goal - limit)
        /\ change' = [kind |-> "grow", goal |-> goal,
                      left |-> goal - limit - Absorbed(goal - limit)]
     \/ /\ goal < limit
        /\ change' = [kind |-> "shrink", goal |-> goal, left |-> limit - goal]
        /\ UNCHANGED pending
  /\ UNCHANGED <<limit, active, permits, call>>

AddPermit ==
  /\ change.kind = "grow" /\ change.left > 0
  /\ permits' = permits + 1
  /\ change' = [change EXCEPT !.left = @ - 1]
  /\ UNCHANGED <<limit, pending, active, call, changes>>

\* acquire(blocking=False) succeeds.
RemovePermit ==
  /\ change.kind = "shrink" /\ change.left > 0 /\ permits > 0
  /\ permits' = permits - 1
  /\ change' = [change EXCEPT !.left = @ - 1]
  /\ UNCHANGED <<limit, pending, active, call, changes>>

\* All permits are moved, or the next one to remove is not free.
EndChange ==
  /\ \/ change.kind = "grow" /\ change.left = 0
     \/ change.kind = "shrink" /\ (change.left = 0 \/ permits = 0)
  /\ pending' = IF change.kind = "shrink" THEN pending + change.left ELSE pending
  /\ limit' = change.goal
  /\ change' = Idle
  /\ UNCHANGED <<active, permits, call, changes>>

Configure == AddPermit \/ RemovePermit \/ EndChange

LimiterNext ==
  \/ \E t \in Threads :
       Arrive(t) \/ TakePermit(t) \/ Enter(t) \/ Leave(t) \/ ReturnPermit(t)
  \/ \E value \in Settings : StartChange(value)
  \/ Configure

LimiterSpec == LimiterInit /\ [][LimiterNext]_limiterVars

\* Threads run and calls end (they have a timeout); the semaphore wakes a
\* waiting thread when it has a permit.  Nobody has to call or to configure.
LimiterFairness ==
  /\ \A t \in Threads :
       /\ SF_limiterVars(Enter(t)) /\ SF_limiterVars(Leave(t)) /\ WF_limiterVars(ReturnPermit(t))
       /\ WF_limiterVars(TakePermit(t))
  /\ WF_limiterVars(Configure)

FairLimiterSpec == LimiterSpec /\ LimiterFairness

-----------------------------------------------------------------------------
(* Properties *)

\* No permit is lost or made up: the free ones and those in the hands of calls
\* are the limit and the debt, at every moment of a change in either direction,
\* with calls taking and returning permits while it counts (configure, acquire).
Conservation ==
  permits + Cardinality(Holders) =
    CASE change.kind = "none"   -> limit + pending
      [] change.kind = "grow"   -> change.goal + pending - change.left
      [] change.kind = "shrink" -> change.goal + pending + change.left

\* As many calls run at once as the limit allows, and after the limit shrank no
\* more than those that still have to pay the debt.
BoundedConcurrency ==
  Cardinality(In("calling")) <=
    (IF change.kind = "none" \/ change.goal < limit THEN limit ELSE change.goal) + pending

\* What BoundedConcurrency needs besides Conservation: a change in progress has
\* at most the permits to move that it set out to move.
ChangeIsOnItsWay ==
  /\ change.kind = "grow" => limit < change.goal
  /\ change.kind = "shrink" => change.goal < limit /\ change.left <= limit - change.goal

\* While a call waits, calls are made: no change of the limit strands them.
CallsAreMade == In("waiting") /= {} ~> In("calling") /= {}
=============================================================================
