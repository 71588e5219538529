---------------------------- MODULE AIRateLimiter ----------------------------
(***************************************************************************)
(* AIRateLimiter of app/services/ai_pipeline.py: at most so many requests  *)
(* to AI backends begin in a minute.  A thread looks, under the lock, at   *)
(* the times of the last minute's grants; when there are too many it       *)
(* sleeps, outside the lock, until the oldest is a minute old, and looks   *)
(* again.  The limit is a setting that may change at any time.             *)
(***************************************************************************)
EXTENDS Integers, SequencesExt, FiniteSetsExt

CONSTANTS
  RateCallers,   \* threads
  Window,        \* AI_RATE_LIMIT_WINDOW_SECONDS, in ticks
  RateSettings,        \* values of the setting ai_rate_limit_per_minute
  MinRate, MaxRate,
  MaxCalls,      \* requests (bound)
  MaxSettings    \* changes of the setting (bound)

ASSUME RateAssumption ==
  /\ Window \in Nat \ {0} /\ RateSettings \subseteq Int /\ RateSettings /= {}
  /\ MinRate \in Nat \ {0} /\ MaxRate \in Nat /\ MinRate <= MaxRate
  /\ MaxCalls \in Nat /\ MaxSettings \in Nat

VARIABLES
  rate,      \* _limit_per_minute
  recent,    \* _timestamps, as ages in ticks, the oldest first
  nap,       \* of each thread: idle, the ticks it still sleeps, in its request
  grants,   \* ages of the grants, and the limit each was given under (history)
  calls, settings

rateVars == <<rate, recent, nap, grants, calls, settings>>

NotCalling == -1
Calling == -2

\* _coerce_ai_rate_limit
CoerceRate(value) == Max({MinRate, Min({MaxRate, value})})

RateInit ==
  /\ rate \in {CoerceRate(value) : value \in RateSettings}
  /\ recent = <<>> /\ grants = <<>>
  /\ nap = [c \in RateCallers |-> NotCalling]
  /\ calls = 0 /\ settings = 0

-----------------------------------------------------------------------------
(* acquire *)

\* How many are popped from the left, where the oldest are.
Outdated(ages, old) ==
  CHOOSE n \in 0 .. Len(ages) : /\ \A i \in 1 .. n : ages[i] >= old
                                /\ n < Len(ages) => ages[n + 1] < old

\* Mistake: a grant is forgotten in the tick before it is a window old.
ForgottenEarly(ages) == SubSeq(ages, Outdated(ages, Window - 1) + 1, Len(ages))

StillCounted(ages) == SubSeq(ages, Outdated(ages, Window) + 1, Len(ages))

\* A request arrives: it looks at once.
Begin(c) ==
  /\ nap[c] = NotCalling /\ calls < MaxCalls
  /\ calls' = calls + 1
  /\ nap' = [nap EXCEPT ![c] = 0]
  /\ UNCHANGED <<rate, recent, grants, settings>>

Grant(c) ==
  /\ nap[c] = 0
  /\ Len(StillCounted(recent)) < rate
  /\ recent' = Append(StillCounted(recent), 0)
  /\ grants' = Append(grants, [age |-> 0, under |-> rate])
  /\ nap' = [nap EXCEPT ![c] = Calling]
  /\ UNCHANGED <<rate, calls, settings>>

Sleep(c) ==
  /\ nap[c] = 0
  /\ Len(StillCounted(recent)) >= rate
  /\ recent' = StillCounted(recent)
  /\ nap' = [nap EXCEPT ![c] = Window - Head(recent')]
  /\ UNCHANGED <<rate, grants, calls, settings>>

Finish(c) ==
  /\ nap[c] = Calling
  /\ nap' = [nap EXCEPT ![c] = NotCalling]
  /\ UNCHANGED <<rate, recent, grants, calls, settings>>

\* configure wakes nobody.
ConfigureRate(value) ==
  /\ settings < MaxSettings
  /\ settings' = settings + 1
  /\ rate' = CoerceRate(value)
  /\ UNCHANGED <<recent, nap, grants, calls>>

\* Ages are counted up to a window; a thread that may look does so at once.
Tick ==
  /\ \A c \in RateCallers : nap[c] /= 0
  /\ recent' = [i \in DOMAIN recent |-> Min({Window, recent[i] + 1})]
  /\ grants' = [i \in DOMAIN grants |-> [grants[i] EXCEPT !.age = Min({Window, @ + 1})]]
  /\ nap' = [c \in RateCallers |-> IF nap[c] > 0 THEN nap[c] - 1 ELSE nap[c]]
  /\ UNCHANGED <<rate, calls, settings>>

RateNext ==
  \/ \E c \in RateCallers : Begin(c) \/ Grant(c) \/ Sleep(c) \/ Finish(c)
  \/ \E value \in RateSettings : ConfigureRate(value)
  \/ Tick

RateSpec == RateInit /\ [][RateNext]_rateVars

-----------------------------------------------------------------------------
(* Properties *)

\* A window that ends with a grant holds no more grants than the limit that this
\* grant was given under, however the limit was changed before and however many
\* threads woke up at once (acquire, configure).
WindowBounded ==
  \A i \in DOMAIN grants : grants[i].age = 0 =>
    Cardinality({j \in 1 .. i : grants[j].age < Window}) <= grants[i].under
=============================================================================
