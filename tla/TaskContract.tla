---------------------------- MODULE TaskContract ----------------------------
(***************************************************************************)
(* What the task queue promises about a job, with no workers, clocks,      *)
(* transactions or retry delays: it is executed at most MaxAttempts times  *)
(* before somebody asks for more, one execution at a time; it is given up  *)
(* only when its tries are spent; and once done it stays done.  A job goes *)
(* with its subject when that is deleted for good.                         *)
(***************************************************************************)
EXTENDS Integers

CONSTANTS
  Jobs, MaxAttempts,
  Withdrawable   \* the jobs whose subject may be deleted for good, and they with it

VARIABLES
  phase,   \* unknown, open, executing, done, abandoned, forgotten
  tries    \* executions started since the job was submitted or reopened

promiseVars == <<phase, tries>>

Init ==
  /\ phase = [j \in Jobs |-> "unknown"]
  /\ tries = [j \in Jobs |-> 0]

Submit(j) ==
  /\ phase[j] = "unknown"
  /\ phase' = [phase EXCEPT ![j] = "open"]
  /\ UNCHANGED tries

Start(j) ==
  /\ phase[j] = "open"
  /\ tries[j] < MaxAttempts
  /\ phase' = [phase EXCEPT ![j] = "executing"]
  /\ tries' = [tries EXCEPT ![j] = @ + 1]

Finish(j) ==
  /\ phase[j] = "executing"
  /\ phase' = [phase EXCEPT ![j] = "done"]
  /\ UNCHANGED tries

\* Executions that failed, or whose worker is given up for dead.
Fail(S) ==
  /\ \A j \in S : phase[j] = "executing"
  /\ phase' = [j \in Jobs |-> IF j \notin S THEN phase[j]
                              ELSE IF tries[j] = MaxAttempts THEN "abandoned" ELSE "open"]
  /\ UNCHANGED tries

\* A manager asks for more tries of a job that was given up.
Reopen(j) ==
  /\ phase[j] = "abandoned"
  /\ phase' = [phase EXCEPT ![j] = "open"]
  /\ tries' = [tries EXCEPT ![j] = 0]

Forget(j) ==
  /\ phase[j] = "done"
  /\ phase' = [phase EXCEPT ![j] = "forgotten"]
  /\ UNCHANGED tries

\* The subject of some jobs is deleted for good.
Withdraw(S) ==
  /\ S \subseteq Withdrawable
  /\ \A j \in S : phase[j] /= "unknown"
  /\ phase' = [j \in Jobs |-> IF j \in S THEN "forgotten" ELSE phase[j]]
  /\ UNCHANGED tries

Next ==
  \/ \E j \in Jobs : Submit(j) \/ Start(j) \/ Finish(j) \/ Reopen(j) \/ Forget(j)
  \/ \E S \in SUBSET Jobs : Fail(S) \/ Withdraw(S)

Spec == Init /\ [][Next]_promiseVars
=============================================================================
