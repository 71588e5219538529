---------------------------- MODULE OutsideProofs ----------------------------
(***************************************************************************)
(* Proofs about what the program calls and may not get an answer from: the *)
(* permits and the rate of the requests to AI backends, for any number of  *)
(* threads and any changes of the limits, and one IP camera, for any       *)
(* number of configurations, of edits, reviews and polls.                  *)
(***************************************************************************)
EXTENDS
  AIConcurrencyLimiter, AIRateLimiter, IPCamera, FiniteSetTheorems, SequenceTheorems,
  WellFoundedInduction, TLAPS

-----------------------------------------------------------------------------
(* AIConcurrencyLimiter *)

Holding == {"permitted", "calling", "returning"}

\* What holds the permits is a finite set of threads, so it can be counted.
LEMMA HoldersFinite ==
  /\ IsFiniteSet(Holders) /\ Cardinality(Holders) \in Nat
  /\ IsFiniteSet(In("calling")) /\ Cardinality(In("calling")) \in Nat
<1>1. Holders \subseteq Threads /\ In("calling") \subseteq Threads
  BY DEF Holders, In
<1>2. QED
  BY <1>1, FS_Subset, FS_CardinalityType, LimiterConstants

\* A thread that moves between stages adds one holder, takes one away, or
\* leaves the holders alone.
LEMMA MoveCounts ==
  ASSUME NEW t \in Threads, NEW from \in Stages, NEW to \in Stages,
         call \in [Threads -> Stages], Move(t, from, to)
  PROVE  /\ call' \in [Threads -> Stages]
         /\ from \notin Holding /\ to \in Holding
              => Cardinality(Holders)' = Cardinality(Holders) + 1
         /\ from \in Holding /\ to \notin Holding
              => Cardinality(Holders)' = Cardinality(Holders) - 1
         /\ (from \in Holding <=> to \in Holding)
              => Cardinality(Holders)' = Cardinality(Holders)
<1>1. call' \in [Threads -> Stages]
  BY DEF Move
<1>2. ASSUME from \notin Holding, to \in Holding
      PROVE  Cardinality(Holders)' = Cardinality(Holders) + 1
  <2>1. Holders' = Holders \cup {t} /\ t \notin Holders
    BY <1>2 DEF Move, Holders, Holding
  <2>2. QED
    BY <2>1, HoldersFinite, FS_AddElement
<1>3. ASSUME from \in Holding, to \notin Holding
      PROVE  Cardinality(Holders)' = Cardinality(Holders) - 1
  <2>1. Holders' = Holders \ {t} /\ t \in Holders
    BY <1>3 DEF Move, Holders, Holding
  <2>2. QED
    BY <2>1, HoldersFinite, FS_RemoveElement
<1>4. ASSUME from \in Holding <=> to \in Holding
      PROVE  Cardinality(Holders)' = Cardinality(Holders)
  <2>1. Holders' = Holders
    BY <1>4 DEF Move, Holders, Holding
  <2>2. QED
    BY <2>1
<1>5. QED
  BY <1>1, <1>2, <1>3, <1>4

LimiterInv == LimiterTypeOK /\ Conservation /\ ChangeIsOnItsWay

\* The limiter starts with its permits in the semaphore and nobody calling.
LEMMA InitHolds == LimiterInit => LimiterInv
<1> SUFFICES ASSUME LimiterInit PROVE LimiterInv
  OBVIOUS
<1>1. LimiterTypeOK
  BY LimiterConstants DEF LimiterInit, LimiterTypeOK, Limits, Idle, Stages
<1>2. Holders = {}
  BY DEF LimiterInit, Holders
<1>3. Conservation
  BY <1>2, FS_EmptySet, LimiterConstants DEF LimiterInit, Conservation, Idle, Limits
<1>4. ChangeIsOnItsWay
  BY DEF LimiterInit, ChangeIsOnItsWay, Idle
<1>5. QED
  BY <1>1, <1>3, <1>4 DEF LimiterInv

\* Coerce brings every entry of an administrator into the range of limits.
LEMMA CoerceInRange ==
  ASSUME NEW value \in Settings
  PROVE  Coerce(value) \in Limits
  BY LimiterConstants DEF Coerce, Limits

\* Every step of a call and every step of a change keeps the invariant: a
\* permit that leaves the semaphore is in the hands of a call or is written
\* off against the limit, and one that a call keeps pays the debt.
LEMMA StepHolds == LimiterInv /\ [LimiterNext]_limiterVars => LimiterInv'
<1> SUFFICES ASSUME LimiterInv, [LimiterNext]_limiterVars PROVE LimiterInv'
  OBVIOUS
<1> USE LimiterConstants DEF LimiterInv
<1>0. Cardinality(Holders) \in Nat
  BY HoldersFinite
<1>1. ASSUME NEW t \in Threads, Arrive(t) PROVE LimiterInv'
  <2>1. /\ call' \in [Threads -> Stages]
        /\ Cardinality(Holders)' = Cardinality(Holders)
    BY <1>1, MoveCounts DEF Arrive, Stages, Holding, LimiterTypeOK
  <2>2. LimiterTypeOK'
    BY <1>1, <2>1 DEF Arrive, LimiterTypeOK
  <2>3. Conservation'
    BY <1>1, <2>1 DEF Arrive, Conservation
  <2>4. QED
    BY <1>1, <2>2, <2>3 DEF Arrive, ChangeIsOnItsWay
<1>2. ASSUME NEW t \in Threads, TakePermit(t) PROVE LimiterInv'
  <2>1. /\ call' \in [Threads -> Stages]
        /\ Cardinality(Holders)' = Cardinality(Holders) + 1
    BY <1>2, MoveCounts DEF TakePermit, Stages, Holding, LimiterTypeOK
  <2>2. LimiterTypeOK'
    BY <1>2, <2>1 DEF TakePermit, LimiterTypeOK
  <2>3. permits' + Cardinality(Holders)' = permits + Cardinality(Holders)
    BY <1>0, <1>2, <2>1 DEF TakePermit, LimiterTypeOK
  <2>4. Conservation'
    BY <1>2, <2>3 DEF TakePermit, Conservation
  <2>5. QED
    BY <1>2, <2>2, <2>4 DEF TakePermit, ChangeIsOnItsWay
<1>3. ASSUME NEW t \in Threads, Enter(t) PROVE LimiterInv'
  <2>1. /\ call' \in [Threads -> Stages]
        /\ Cardinality(Holders)' = Cardinality(Holders)
    BY <1>3, MoveCounts DEF Enter, Stages, Holding, LimiterTypeOK
  <2>2. LimiterTypeOK'
    BY <1>3, <2>1 DEF Enter, LimiterTypeOK
  <2>3. Conservation'
    BY <1>3, <2>1 DEF Enter, Conservation
  <2>4. QED
    BY <1>3, <2>2, <2>3 DEF Enter, ChangeIsOnItsWay
<1>4. ASSUME NEW t \in Threads, Leave(t) PROVE LimiterInv'
  <2>1. change.kind = "none"
    BY <1>4 DEF Leave, Locked
  <2>2. CASE pending > 0
    <3>1. Move(t, "calling", "idle") /\ pending' = pending - 1
      BY <1>4, <2>2 DEF Leave, PayOrReturn
    <3>2. /\ call' \in [Threads -> Stages]
          /\ Cardinality(Holders)' = Cardinality(Holders) - 1
      BY <3>1, MoveCounts DEF Stages, Holding, LimiterTypeOK
    <3>3. LimiterTypeOK'
      BY <1>4, <2>2, <3>1, <3>2 DEF Leave, LimiterTypeOK
    <3>4. Conservation'
      BY <1>0, <1>4, <2>1, <3>1, <3>2 DEF Leave, Conservation, LimiterTypeOK, Limits
    <3>5. QED
      BY <1>4, <3>3, <3>4 DEF Leave, ChangeIsOnItsWay
  <2>3. CASE ~(pending > 0)
    <3>1. Move(t, "calling", "returning") /\ pending' = pending
      BY <1>4, <2>3 DEF Leave, PayOrReturn
    <3>2. /\ call' \in [Threads -> Stages]
          /\ Cardinality(Holders)' = Cardinality(Holders)
      BY <3>1, MoveCounts DEF Stages, Holding, LimiterTypeOK
    <3>3. LimiterTypeOK'
      BY <1>4, <3>1, <3>2 DEF Leave, LimiterTypeOK
    <3>4. Conservation'
      BY <1>4, <3>1, <3>2 DEF Leave, Conservation
    <3>5. QED
      BY <1>4, <3>3, <3>4 DEF Leave, ChangeIsOnItsWay
  <2>4. QED
    BY <2>2, <2>3
<1>5. ASSUME NEW t \in Threads, ReturnPermit(t) PROVE LimiterInv'
  <2>1. /\ call' \in [Threads -> Stages]
        /\ Cardinality(Holders)' = Cardinality(Holders) - 1
    BY <1>5, MoveCounts DEF ReturnPermit, Stages, Holding, LimiterTypeOK
  <2>2. LimiterTypeOK'
    BY <1>5, <2>1 DEF ReturnPermit, LimiterTypeOK
  <2>3. permits' + Cardinality(Holders)' = permits + Cardinality(Holders)
    BY <1>0, <1>5, <2>1 DEF ReturnPermit, LimiterTypeOK
  <2>4. Conservation'
    BY <1>5, <2>3 DEF ReturnPermit, Conservation
  <2>5. QED
    BY <1>5, <2>2, <2>4 DEF ReturnPermit, ChangeIsOnItsWay
<1>6. ASSUME NEW value \in Settings, StartChange(value) PROVE LimiterInv'
  <2> DEFINE goal == Coerce(value)
  <2>1. goal \in Limits /\ change.kind = "none"
    BY <1>6, CoerceInRange DEF StartChange, Locked
  <2>2. Holders' = Holders /\ UNCHANGED <<limit, active, permits, call>>
    BY <1>6 DEF StartChange, Holders
  <2> HIDE DEF goal
  <2>3. CASE goal > limit /\ pending' = pending - Absorbed(goal - limit)
              /\ change' = [kind |-> "grow", goal |-> goal,
                            left |-> goal - limit - Absorbed(goal - limit)]
    <3>1. /\ Absorbed(goal - limit) \in Nat
          /\ Absorbed(goal - limit) <= pending
          /\ Absorbed(goal - limit) <= goal - limit
      BY <2>1, <2>3 DEF Absorbed, LimiterTypeOK, Limits
    <3>2. LimiterTypeOK'
      BY <1>6, <2>1, <2>2, <2>3, <3>1 DEF StartChange, LimiterTypeOK, Limits
    <3>3. Conservation'
      BY <1>0, <2>1, <2>2, <2>3, <3>1 DEF Conservation, LimiterTypeOK, Limits
    <3>4. ChangeIsOnItsWay'
      BY <2>1, <2>2, <2>3 DEF ChangeIsOnItsWay, LimiterTypeOK, Limits
    <3>5. QED
      BY <3>2, <3>3, <3>4
  <2>4. CASE goal < limit /\ pending' = pending
              /\ change' = [kind |-> "shrink", goal |-> goal, left |-> limit - goal]
    <3>1. LimiterTypeOK'
      BY <1>6, <2>1, <2>2, <2>4 DEF StartChange, LimiterTypeOK, Limits
    <3>2. Conservation'
      BY <1>0, <2>1, <2>2, <2>4 DEF Conservation, LimiterTypeOK, Limits
    <3>3. ChangeIsOnItsWay'
      BY <2>1, <2>2, <2>4 DEF ChangeIsOnItsWay, LimiterTypeOK, Limits
    <3>4. QED
      BY <3>1, <3>2, <3>3
  <2>5. QED
    BY <1>6, <2>3, <2>4 DEF StartChange, goal
<1>7. ASSUME Configure PROVE LimiterInv'
  <2>1. Holders' = Holders /\ call' = call
    BY <1>7 DEF Configure, AddPermit, RemovePermit, EndChange, Holders
  <2>2. CASE AddPermit
    <3>1. LimiterTypeOK'
      BY <2>2 DEF AddPermit, LimiterTypeOK
    <3>2. Conservation' /\ ChangeIsOnItsWay'
      BY <1>0, <2>1, <2>2 DEF AddPermit, Conservation, ChangeIsOnItsWay, LimiterTypeOK, Limits
    <3>3. QED
      BY <3>1, <3>2
  <2>3. CASE RemovePermit
    <3>1. LimiterTypeOK'
      BY <2>3 DEF RemovePermit, LimiterTypeOK
    <3>2. Conservation' /\ ChangeIsOnItsWay'
      BY <1>0, <2>1, <2>3 DEF RemovePermit, Conservation, ChangeIsOnItsWay, LimiterTypeOK, Limits
    <3>3. QED
      BY <3>1, <3>2
  <2>4. CASE EndChange
    <3>1. LimiterTypeOK'
      BY <2>4 DEF EndChange, LimiterTypeOK, Idle
    <3>2. Conservation' /\ ChangeIsOnItsWay'
      BY <1>0, <2>1, <2>4 DEF EndChange, Idle, Conservation, ChangeIsOnItsWay, LimiterTypeOK, Limits
    <3>3. QED
      BY <3>1, <3>2
  <2>5. QED
    BY <1>7, <2>2, <2>3, <2>4 DEF Configure
<1>8. CASE UNCHANGED limiterVars
  BY <1>8 DEF limiterVars, LimiterTypeOK, Conservation, ChangeIsOnItsWay, Holders
<1>9. QED
  BY <1>1, <1>2, <1>3, <1>4, <1>5, <1>6, <1>7, <1>8 DEF LimiterNext

\* The three parts together are inductive.
THEOREM LimiterInvariant == LimiterSpec => []LimiterInv
  BY InitHolds, StepHolds, PTL DEF LimiterSpec

\* Every counter keeps its type: above all, no counter goes below zero.
THEOREM TypeCorrect == LimiterSpec => []LimiterTypeOK
<1>1. LimiterInv => LimiterTypeOK
  BY DEF LimiterInv
<1>2. QED
  BY <1>1, LimiterInvariant, PTL

\* Free permits and those in the hands of calls always add up to the limit and
\* the debt (acquire and configure of AIConcurrencyLimiter).
THEOREM PermitsAreConserved == LimiterSpec => []Conservation
<1>1. LimiterInv => Conservation
  BY DEF LimiterInv
<1>2. QED
  BY <1>1, LimiterInvariant, PTL

\* No more calls run at once than the limit and the debt allow, the limit being
\* the larger of the two while it changes.
THEOREM LimitHolds == LimiterSpec => []BoundedConcurrency
<1>1. LimiterInv => BoundedConcurrency
  <2> SUFFICES ASSUME LimiterInv PROVE BoundedConcurrency
    OBVIOUS
  <2>1. In("calling") \subseteq Holders
    BY DEF In, Holders
  <2>2. Cardinality(In("calling")) <= Cardinality(Holders)
    BY <2>1, HoldersFinite, FS_Subset
  <2>3. QED
    BY <2>2, HoldersFinite, LimiterConstants
    DEF LimiterInv, Conservation, ChangeIsOnItsWay, BoundedConcurrency, LimiterTypeOK, Limits
<1>2. QED
  BY <1>1, LimiterInvariant, PTL

-----------------------------------------------------------------------------
(* AIRateLimiter *)

\* Some number of grants is popped: the first of those that are not old stops it.
LEMMA OutdatedExists ==
  ASSUME NEW ages \in Seq(Nat), NEW old \in Nat
  PROVE  /\ Outdated(ages, old) \in 0 .. Len(ages)
         /\ \A i \in 1 .. Outdated(ages, old) : ages[i] >= old
<1> DEFINE T == {i \in 1 .. Len(ages) : ages[i] < old} \cup {Len(ages) + 1}
<1>l. Len(ages) \in Nat /\ \A i \in 1 .. Len(ages) : ages[i] \in Nat
  BY LenProperties
<1>1. T \subseteq Nat /\ T # {}
  BY <1>l
<1>2. \E m \in T : \A n \in T : ~(<<n, m>> \in OpToRel(<, Nat))
  <2> HIDE DEF T
  <2>1. QED
    BY <1>1, WFMin, NatLessThanWellFounded
<1>3. PICK m \in T : \A n \in T : ~(n < m)
  BY <1>1, <1>2 DEF OpToRel
<1>4. m \in 1 .. Len(ages) + 1 /\ (m <= Len(ages) => ages[m] < old)
  BY <1>l, <1>3
<1>5. ASSUME NEW i \in 1 .. m - 1 PROVE ages[i] >= old
  <2>1. i \in 1 .. Len(ages) /\ i < m
    BY <1>l, <1>4
  <2>2. i \notin T
    BY <1>3, <2>1
  <2>3. QED
    BY <1>l, <2>1, <2>2
<1>6. \E n \in 0 .. Len(ages) : /\ \A i \in 1 .. n : ages[i] >= old
                                /\ n < Len(ages) => ages[n + 1] < old
  <2>1. m - 1 \in 0 .. Len(ages) /\ (m - 1) + 1 = m
    BY <1>l, <1>4
  <2>2. m - 1 < Len(ages) => ages[(m - 1) + 1] < old
    BY <1>l, <1>4, <2>1
  <2>3. QED
    BY <1>5, <2>1, <2>2
<1>7. QED
  BY <1>6 DEF Outdated

\* What is still counted is the end of what was, and what is left out is old.
LEMMA CountedIsEnd ==
  ASSUME NEW ages \in Seq(Nat)
  PROVE  LET kept == StillCounted(ages)
             gone == Len(ages) - Len(kept)
         IN  /\ kept \in Seq(Nat) /\ gone \in 0 .. Len(ages)
             /\ \A i \in 1 .. Len(kept) : kept[i] = ages[gone + i]
             /\ \A i \in 1 .. gone : ages[i] >= Window
<1> DEFINE n == Outdated(ages, Window)
<1>1. n \in 0 .. Len(ages) /\ \A i \in 1 .. n : ages[i] >= Window
  BY OutdatedExists, RateAssumption
<1>2. Len(ages) \in Nat /\ \A i \in 1 .. Len(ages) : ages[i] \in Nat
  BY LenProperties
<1> HIDE DEF n
<1> DEFINE kept == SubSeq(ages, n + 1, Len(ages))
<1>3. /\ kept \in Seq(Nat)
      /\ Len(kept) = IF n + 1 <= Len(ages) THEN Len(ages) - (n + 1) + 1 ELSE 0
      /\ \A i \in 1 .. Len(ages) - (n + 1) + 1 : kept[i] = ages[(n + 1) + i - 1]
  <2>1. n + 1 \in Int /\ Len(ages) \in Int /\ \A i \in n + 1 .. Len(ages) : ages[i] \in Nat
    BY <1>1, <1>2
  <2>2. QED
    BY <2>1, SubSeqProperties
<1> HIDE DEF kept
<1>4. Len(kept) = Len(ages) - n
  BY <1>1, <1>2, <1>3
<1>5. \A i \in 1 .. Len(kept) : kept[i] = ages[n + i]
  <2>1. ASSUME NEW i \in 1 .. Len(kept) PROVE kept[i] = ages[n + i]
    <3>1. i \in 1 .. Len(ages) - (n + 1) + 1 /\ (n + 1) + i - 1 = n + i
      BY <1>1, <1>2, <1>4
    <3>2. kept[i] = ages[(n + 1) + i - 1]
      BY <1>3, <3>1
    <3>3. QED
      BY <3>1, <3>2
  <2>2. QED
    BY <2>1
<1>6. Len(ages) - Len(kept) = n
  BY <1>1, <1>2, <1>4
<1>7. StillCounted(ages) = kept
  BY DEF StillCounted, kept, n
<1>8. QED
  BY <1>1, <1>3, <1>5, <1>6, <1>7

\* The limiter remembers the end of the grants; what it has forgotten is old.
Remembers ==
  LET forgotten == Len(grants) - Len(recent) IN
  /\ forgotten \in Nat
  /\ \A i \in 1 .. Len(recent) : recent[i] = grants[forgotten + i].age
  /\ \A i \in 1 .. forgotten : grants[i].age >= Window

Grants == [age : Nat, under : Int]

RateInv ==
  /\ rate \in Int /\ recent \in Seq(Nat) /\ grants \in Seq(Grants)
  /\ Remembers /\ WindowBounded

\* The limit is a number whatever the setting is.
LEMMA RateIsNumber == \A value \in RateSettings : CoerceRate(value) \in Int
<1> SUFFICES ASSUME NEW value \in RateSettings PROVE CoerceRate(value) \in Int
  OBVIOUS
<1>1. \A a, b \in Int : Min({a, b}) \in Int /\ Max({a, b}) \in Int
  <2> SUFFICES ASSUME NEW a \in Int, NEW b \in Int
               PROVE  Min({a, b}) \in Int /\ Max({a, b}) \in Int
    OBVIOUS
  <2>1. \E x \in {a, b} : \A y \in {a, b} : x <= y
    OBVIOUS
  <2>2. \E x \in {a, b} : \A y \in {a, b} : x >= y
    OBVIOUS
  <2>3. QED
    BY <2>1, <2>2 DEF Min, Max
<1>2. value \in Int /\ MinRate \in Int /\ MaxRate \in Int
  BY RateAssumption
<1>3. Min({MaxRate, value}) \in Int
  BY <1>1, <1>2
<1>4. QED
  BY <1>1, <1>2, <1>3 DEF CoerceRate

\* The younger of an age and a window.
LEMMA Capped == \A a \in Nat : Min({Window, a + 1}) = IF a + 1 < Window THEN a + 1 ELSE Window
<1> SUFFICES ASSUME NEW a \in Nat
             PROVE  Min({Window, a + 1}) = IF a + 1 < Window THEN a + 1 ELSE Window
  OBVIOUS
<1> DEFINE least == IF a + 1 < Window THEN a + 1 ELSE Window
<1>1. least \in {Window, a + 1} /\ \A y \in {Window, a + 1} : least <= y
  BY RateAssumption
<1>2. \A x \in {Window, a + 1} : (\A y \in {Window, a + 1} : x <= y) => x = least
  BY RateAssumption
<1>3. QED
  BY <1>1, <1>2 DEF Min

\* A grant is counted with the young ones before it, which are all remembered.
LEMMA GrantBounded ==
  ASSUME RateInv, NEW c \in RateCallers, Grant(c)
  PROVE  RateInv'
<1> DEFINE kept == StillCounted(recent)
           n == Len(grants)
           new == [age |-> 0, under |-> rate]
<1>1. /\ kept \in Seq(Nat) /\ Len(recent) - Len(kept) \in 0 .. Len(recent)
      /\ \A i \in 1 .. Len(kept) : kept[i] = recent[Len(recent) - Len(kept) + i]
      /\ \A i \in 1 .. Len(recent) - Len(kept) : recent[i] >= Window
  BY CountedIsEnd DEF RateInv
<1>2. /\ Len(kept) < rate /\ recent' = Append(kept, 0) /\ grants' = Append(grants, new)
      /\ rate' = rate /\ rate \in Int
  BY DEF Grant, RateInv
<1>3. /\ n \in Nat /\ Len(recent) \in Nat /\ Len(kept) \in Nat
      /\ n - Len(recent) \in Nat
      /\ \A i \in 1 .. Len(recent) : recent[i] = grants[n - Len(recent) + i].age
      /\ \A i \in 1 .. n - Len(recent) : grants[i].age >= Window
      /\ grants \in Seq(Grants) /\ \A i \in 1 .. n : grants[i] \in Grants
  BY <1>1, LenProperties DEF RateInv, Remembers
<1> HIDE DEF kept
<1>4. new \in Grants /\ 0 \in Nat
  BY <1>2 DEF Grants
<1>5. /\ recent' \in Seq(Nat) /\ Len(recent') = Len(kept) + 1
      /\ \A i \in 1 .. Len(kept) : recent'[i] = kept[i]
      /\ recent'[Len(kept) + 1] = 0
  BY <1>1, <1>2, AppendProperties
<1>6. /\ grants' \in Seq(Grants) /\ Len(grants') = n + 1
      /\ \A i \in 1 .. n : grants'[i] = grants[i]
      /\ grants'[n + 1] = new
  BY <1>2, <1>3, <1>4, AppendProperties
<1> HIDE DEF n
<1>7. \A i \in 1 .. n - Len(kept) : grants'[i].age >= Window
  <2> SUFFICES ASSUME NEW i \in 1 .. n - Len(kept) PROVE grants'[i].age >= Window
    OBVIOUS
  <2>1. i \in 1 .. n /\ grants'[i] = grants[i]
    BY <1>1, <1>3, <1>6
  <2>2. CASE i <= n - Len(recent)
    BY <1>3, <2>1, <2>2
  <2>3. CASE i > n - Len(recent)
    <3> DEFINE k == i - (n - Len(recent))
    <3>1. k \in 1 .. Len(recent) - Len(kept) /\ k \in 1 .. Len(recent) /\ n - Len(recent) + k = i
      BY <1>1, <1>3, <2>1, <2>3
    <3>2. QED
      BY <1>1, <1>3, <2>1, <3>1
  <2>4. QED
    BY <1>3, <2>1, <2>2, <2>3
<1>8. Remembers'
  <2>1. Len(grants') - Len(recent') = n - Len(kept) /\ n - Len(kept) \in Nat
    BY <1>1, <1>3, <1>5, <1>6
  <2>2. ASSUME NEW i \in 1 .. Len(recent')
        PROVE  recent'[i] = grants'[(n - Len(kept)) + i].age
    <3>1. CASE i = Len(kept) + 1
      <4>1. (n - Len(kept)) + i = n + 1
        BY <1>3, <3>1
      <4>2. QED
        BY <1>5, <1>6, <3>1, <4>1
    <3>2. CASE i \in 1 .. Len(kept)
      <4> DEFINE k == Len(recent) - Len(kept) + i
      <4>1. /\ k \in 1 .. Len(recent) /\ n - Len(recent) + k = (n - Len(kept)) + i
            /\ (n - Len(kept)) + i \in 1 .. n
        BY <1>1, <1>3, <3>2
      <4>2. recent'[i] = recent[k] /\ recent[k] = grants[n - Len(recent) + k].age
        BY <1>1, <1>3, <1>5, <3>2, <4>1
      <4>3. QED
        BY <1>6, <4>1, <4>2
    <3>3. QED
      BY <1>3, <1>5, <2>2, <3>1, <3>2
  <2>3. QED
    BY <1>7, <2>1, <2>2 DEF Remembers
<1>9. WindowBounded'
  <2> SUFFICES ASSUME NEW i \in 1 .. n + 1, grants'[i].age = 0
               PROVE  Cardinality({j \in 1 .. i : grants'[j].age < Window}) <= grants'[i].under
    BY <1>3, <1>6, LenProperties DEF WindowBounded
  <2>1. CASE i \in 1 .. n
    <3>1. {j \in 1 .. i : grants'[j].age < Window} = {j \in 1 .. i : grants[j].age < Window}
      BY <1>3, <1>6, <2>1
    <3>2. i \in DOMAIN grants
      BY <1>3, <2>1, LenProperties DEF n
    <3>3. QED
      BY <1>6, <2>1, <3>1, <3>2 DEF RateInv, WindowBounded
  <2>2. CASE i = n + 1
    <3> DEFINE first == n - Len(kept) + 1
               young == {j \in 1 .. n + 1 : grants'[j].age < Window}
    <3>1. first \in Nat \ {0} /\ (n + 1) - first + 1 = Len(kept) + 1
      BY <1>1, <1>3
    <3>2. young \subseteq first .. n + 1
      <4> SUFFICES ASSUME NEW j \in young, j < first PROVE FALSE
        BY <1>3, <3>1
      <4>1. j \in 1 .. n - Len(kept) /\ j \in 1 .. n
        BY <1>1, <1>3, <3>1
      <4>2. grants'[j].age >= Window /\ grants'[j].age < Window /\ grants'[j].age \in Nat
        BY <1>3, <1>6, <1>7, <4>1 DEF Grants
      <4>3. QED
        BY <4>2, RateAssumption
    <3>3. /\ IsFiniteSet(first .. n + 1)
          /\ Cardinality(first .. n + 1) = IF first > n + 1 THEN 0 ELSE (n + 1) - first + 1
      <4>1. first \in Int /\ n + 1 \in Int
        BY <1>3, <3>1
      <4> HIDE DEF first
      <4>2. QED
        BY <4>1, FS_Interval
    <3>4. Cardinality(young) <= Cardinality(first .. n + 1) /\ Cardinality(young) \in Nat
      <4> HIDE DEF young, first
      <4>1. QED
        BY <3>2, <3>3, FS_Subset, FS_CardinalityType
    <3>5. Cardinality(young) <= rate
      <4> HIDE DEF young
      <4>1. Cardinality(first .. n + 1) <= Len(kept) + 1
        BY <1>3, <3>1, <3>3
      <4>2. QED
        BY <1>2, <1>3, <3>1, <3>3, <3>4, <4>1
    <3>6. QED
      BY <1>6, <2>2, <3>5
  <2>3. QED
    BY <1>3, <2>1, <2>2
<1>10. QED
  BY <1>2, <1>5, <1>6, <1>8, <1>9 DEF RateInv

\* A thread that has to sleep has popped what was old.
LEMMA SleepRemembers ==
  ASSUME RateInv, NEW c \in RateCallers, Sleep(c)
  PROVE  RateInv'
<1> DEFINE kept == StillCounted(recent)
           n == Len(grants)
<1>1. /\ kept \in Seq(Nat) /\ Len(recent) - Len(kept) \in 0 .. Len(recent)
      /\ \A i \in 1 .. Len(kept) : kept[i] = recent[Len(recent) - Len(kept) + i]
      /\ \A i \in 1 .. Len(recent) - Len(kept) : recent[i] >= Window
  BY CountedIsEnd DEF RateInv
<1>2. recent' = kept /\ UNCHANGED <<rate, grants>>
  BY DEF Sleep
<1>3. /\ n \in Nat /\ Len(recent) \in Nat /\ Len(kept) \in Nat
      /\ n - Len(recent) \in Nat
      /\ \A i \in 1 .. Len(recent) : recent[i] = grants[n - Len(recent) + i].age
      /\ \A i \in 1 .. n - Len(recent) : grants[i].age >= Window
  BY <1>1, LenProperties DEF RateInv, Remembers
<1> HIDE DEF kept, n
<1>4. \A i \in 1 .. n - Len(kept) : grants[i].age >= Window
  <2> SUFFICES ASSUME NEW i \in 1 .. n - Len(kept), i > n - Len(recent)
               PROVE  grants[i].age >= Window
    BY <1>3
  <2> DEFINE k == i - (n - Len(recent))
  <2>1. k \in 1 .. Len(recent) - Len(kept) /\ k \in 1 .. Len(recent) /\ n - Len(recent) + k = i
    BY <1>1, <1>3
  <2>2. QED
    BY <1>1, <1>3, <2>1
<1>5. \A i \in 1 .. Len(kept) : kept[i] = grants[(n - Len(kept)) + i].age
  <2> SUFFICES ASSUME NEW i \in 1 .. Len(kept) PROVE kept[i] = grants[(n - Len(kept)) + i].age
    OBVIOUS
  <2> DEFINE k == Len(recent) - Len(kept) + i
  <2>1. k \in 1 .. Len(recent) /\ n - Len(recent) + k = (n - Len(kept)) + i
    BY <1>1, <1>3
  <2>2. QED
    BY <1>1, <1>3, <2>1
<1>6. n - Len(kept) \in Nat
  BY <1>1, <1>3
<1>7. Remembers'
  BY <1>2, <1>4, <1>5, <1>6 DEF Remembers, n
<1>8. WindowBounded'
  BY <1>2 DEF RateInv, WindowBounded
<1>9. QED
  BY <1>1, <1>2, <1>7, <1>8 DEF RateInv

\* Time makes no grant younger.
LEMMA TickRemembers ==
  ASSUME RateInv, Tick
  PROVE  RateInv'
<1>1. /\ recent \in Seq(Nat) /\ grants \in Seq(Grants) /\ rate' = rate /\ rate \in Int
      /\ recent' = [i \in DOMAIN recent |-> Min({Window, recent[i] + 1})]
      /\ grants' = [i \in DOMAIN grants |->
                      [grants[i] EXCEPT !.age = Min({Window, grants[i].age + 1})]]
  BY DEF RateInv, Tick
<1>2. /\ Len(recent) \in Nat /\ DOMAIN recent = 1 .. Len(recent)
      /\ \A i \in 1 .. Len(recent) : recent[i] \in Nat
      /\ Len(grants) \in Nat /\ DOMAIN grants = 1 .. Len(grants)
      /\ \A i \in 1 .. Len(grants) : grants[i] \in Grants
  BY <1>1, LenProperties
<1>3. \A i \in 1 .. Len(recent) :
        recent'[i] = (IF recent[i] + 1 < Window THEN recent[i] + 1 ELSE Window)
  BY <1>1, <1>2, Capped
<1>4. ASSUME NEW i \in 1 .. Len(grants)
      PROVE  /\ grants'[i].age
                  = IF grants[i].age + 1 < Window THEN grants[i].age + 1 ELSE Window
             /\ grants'[i] \in Grants /\ grants'[i].age /= 0
             /\ grants[i].age >= Window => grants'[i].age >= Window
  <2>1. grants[i] \in Grants /\ grants[i].age \in Nat
    BY <1>2 DEF Grants
  <2>2. grants'[i] = [grants[i] EXCEPT !.age = Min({Window, grants[i].age + 1})]
    BY <1>1, <1>2
  <2>3. grants'[i].age = Min({Window, grants[i].age + 1}) /\ grants'[i].under = grants[i].under
    BY <2>1, <2>2 DEF Grants
  <2>4. grants'[i].age = IF grants[i].age + 1 < Window THEN grants[i].age + 1 ELSE Window
    BY <2>1, <2>3, Capped
  <2>5. /\ grants'[i].age \in Nat /\ grants'[i].age /= 0
        /\ grants[i].age >= Window => grants'[i].age >= Window
    BY <2>1, <2>4, RateAssumption
  <2>6. grants'[i] \in Grants
    BY <2>1, <2>2, <2>3, <2>5 DEF Grants
  <2>7. QED
    BY <2>4, <2>5, <2>6
<1>5. recent' \in Seq(Nat) /\ Len(recent') = Len(recent)
  <2>1. recent' \in [1 .. Len(recent) -> Nat]
    <3>1. DOMAIN recent' = 1 .. Len(recent) /\ recent' = [i \in 1 .. Len(recent) |-> recent'[i]]
      BY <1>1, <1>2
    <3>2. \A i \in 1 .. Len(recent) : recent'[i] \in Nat
      BY <1>2, <1>3, RateAssumption
    <3>3. QED
      BY <3>1, <3>2
  <2>2. recent' \in Seq(Nat)
    BY <1>2, <2>1, SeqDef
  <2>3. DOMAIN recent' = 1 .. Len(recent') /\ Len(recent') \in Nat
    BY <2>2, LenProperties
  <2>4. QED
    BY <1>2, <2>1, <2>2, <2>3
<1>6. grants' \in Seq(Grants) /\ Len(grants') = Len(grants)
  <2>1. grants' \in [1 .. Len(grants) -> Grants]
    <3>1. DOMAIN grants' = 1 .. Len(grants) /\ grants' = [i \in 1 .. Len(grants) |-> grants'[i]]
      BY <1>1, <1>2
    <3>2. QED
      BY <1>4, <3>1
  <2>2. grants' \in Seq(Grants)
    BY <1>2, <2>1, SeqDef
  <2>3. DOMAIN grants' = 1 .. Len(grants') /\ Len(grants') \in Nat
    BY <2>2, LenProperties
  <2>4. QED
    BY <1>2, <2>1, <2>2, <2>3
<1>7. Remembers'
  <2> DEFINE forgotten == Len(grants) - Len(recent)
  <2>1. /\ forgotten \in Nat
        /\ \A i \in 1 .. Len(recent) : recent[i] = grants[forgotten + i].age
        /\ \A i \in 1 .. forgotten : grants[i].age >= Window
    BY DEF RateInv, Remembers
  <2>2. forgotten <= Len(grants) /\ Len(grants') - Len(recent') = forgotten
    BY <1>2, <1>5, <1>6
  <2>3. ASSUME NEW i \in 1 .. Len(recent) PROVE recent'[i] = grants'[forgotten + i].age
    <3>1. forgotten + i \in 1 .. Len(grants)
      BY <1>2, <2>1
    <3>2. recent[i] = grants[forgotten + i].age
      BY <2>1
    <3>3. QED
      BY <1>3, <1>4, <3>1, <3>2
  <2>4. ASSUME NEW i \in 1 .. forgotten PROVE grants'[i].age >= Window
    <3>1. i \in 1 .. Len(grants)
      BY <1>2, <2>1, <2>2
    <3>2. QED
      BY <1>4, <2>1, <3>1
  <2> HIDE DEF forgotten
  <2>5. QED
    BY <1>5, <2>1, <2>2, <2>3, <2>4 DEF Remembers
<1>8. WindowBounded'
  <2>1. DOMAIN grants' = 1 .. Len(grants)
    BY <1>6, LenProperties
  <2>2. QED
    BY <1>4, <2>1 DEF WindowBounded
<1>9. QED
  BY <1>1, <1>5, <1>6, <1>7, <1>8 DEF RateInv

\* Nothing that was granted within a window is forgotten, whatever threads sleep
\* and however the limit changes.
THEOREM RateInvariant == RateSpec => []RateInv
<1>1. RateInit => RateInv
  <2> SUFFICES ASSUME RateInit PROVE RateInv
    OBVIOUS
  <2>1. rate \in Int /\ recent = <<>> /\ grants = <<>>
    BY RateIsNumber DEF RateInit
  <2>2. recent \in Seq(Nat) /\ grants \in Seq(Grants) /\ Len(recent) = 0 /\ Len(grants) = 0
    BY <2>1
  <2>3. QED
    BY <2>1, <2>2 DEF RateInv, Remembers, WindowBounded
<1>2. RateInv /\ [RateNext]_rateVars => RateInv'
  <2> SUFFICES ASSUME RateInv, [RateNext]_rateVars PROVE RateInv'
    OBVIOUS
  <2>1. ASSUME UNCHANGED <<recent, grants>>, rate' \in Int PROVE RateInv'
    BY <2>1 DEF RateInv, Remembers, WindowBounded
  <2>2. ASSUME NEW value \in RateSettings, ConfigureRate(value) PROVE RateInv'
    BY <2>1, <2>2, RateIsNumber DEF ConfigureRate
  <2>3. ASSUME UNCHANGED <<rate, recent, grants>> PROVE RateInv'
    BY <2>1, <2>3 DEF RateInv
  <2>4. QED
    BY <2>2, <2>3, GrantBounded, SleepRemembers, TickRemembers
    DEF RateNext, Begin, Finish, rateVars
<1>3. QED
  BY <1>1, <1>2, PTL DEF RateSpec

\* So no window that ends with a grant holds more grants than the limit of that
\* grant, for any number of threads, settings and changes of the setting.
THEOREM RateIsBounded == RateSpec => []WindowBounded
<1>1. RateInv => WindowBounded
  BY DEF RateInv
<1>2. QED
  BY <1>1, RateInvariant, PTL

-----------------------------------------------------------------------------
(* IPCamera *)

CameraSessions == [doing : Doings, seen : Rows]

\* Until a commit crosses another one, an approval is one of the configuration
\* that the row holds, and so is the clip that the poller records from.
ApprovedAsIs ==
  /\ camera.approval = "approved" => camera.url \in granted
  /\ session["poller"].doing /= "idle" => clip \in granted
  /\ stored \subseteq granted

CameraInv ==
  /\ camera \in Rows
  /\ session \in [Actors -> CameraSessions]
  /\ crossing \in BOOLEAN
  /\ ~crossing => ApprovedAsIs

\* The session that an actor has ended is one, and idle.
LEMMA BlankIsRow == camera \in Rows => Over \in CameraSessions /\ Over.doing = "idle"
  BY DEF Blank, Over, CameraSessions, Doings

\* The initial states satisfy it.
LEMMA CameraInitHolds == CameraInit => CameraInv
<1> SUFFICES ASSUME CameraInit PROVE CameraInv
  OBVIOUS
<1>1. camera \in Rows /\ camera.approval = "pending"
  <2>1. camera \in [url : Urls, enabled : BOOLEAN, approval : {"pending"},
                    online : {FALSE}, failures : {0}, alerted : {FALSE}]
    BY DEF CameraInit
  <2>2. {0} \subseteq 0 .. MaxFailures /\ {FALSE} \subseteq BOOLEAN
    BY CameraAssumption
  <2>3. QED
    BY <2>1, <2>2, Zenon DEF Rows
<1>2. session \in [Actors -> CameraSessions] /\ session["poller"].doing = "idle"
  BY <1>1, BlankIsRow DEF CameraInit, Actors
<1>3. QED
  BY <1>1, <1>2 DEF CameraInit, CameraInv, ApprovedAsIs

\* A commit on a row that is still the one that was loaded writes what is wanted.
LEMMA CommitWrites ==
  ASSUME CameraInv, NEW a \in Actors, NEW wanted \in Rows, CommitCamera(a, wanted)
  PROVE  /\ camera' \in Rows /\ crossing' \in BOOLEAN
         /\ ~crossing' => /\ ~crossing /\ camera = session[a].seen
                          /\ present => camera'.url = wanted.url
                                        /\ camera'.approval = wanted.approval
                          /\ ~present => camera' = camera
<1>1. camera \in Rows /\ session[a].seen \in Rows
  BY DEF CameraInv, CameraSessions
<1>2. Merged(camera, session[a].seen, wanted) \in Rows
  BY <1>1 DEF Merged, Rows
<1>3. camera = session[a].seen =>
        /\ Merged(camera, session[a].seen, wanted).url = wanted.url
        /\ Merged(camera, session[a].seen, wanted).approval = wanted.approval
  BY <1>1 DEF Merged, Rows
<1>4. QED
  BY <1>1, <1>2, <1>3 DEF CommitCamera, CameraInv

\* What a step of one actor leaves of the sessions.
LEMMA SessionMoves ==
  ASSUME CameraInv, NEW a \in Actors, NEW what \in Doings,
         Load(a, what) \/ Turn(a, what) \/ EndSession(a)
  PROVE  /\ session' \in [Actors -> CameraSessions]
         /\ \A b \in Actors \ {a} : session'[b] = session[b]
         /\ EndSession(a) => session'[a].doing = "idle"
<1>1. CASE Load(a, what)
  BY <1>1, BlankIsRow DEF CameraInv, Load, EndSession, CameraSessions
<1>2. CASE Turn(a, what)
  BY <1>2, BlankIsRow DEF CameraInv, Turn, EndSession, CameraSessions
<1>3. CASE EndSession(a)
  BY <1>3, BlankIsRow DEF CameraInv, EndSession
<1>4. QED
  BY <1>1, <1>2, <1>3

\* The rows that the sessions make of what they loaded.
LEMMA WantedRows ==
  ASSUME NEW r \in Rows
  PROVE  /\ Succeeded(r) \in Rows /\ Succeeded(r).url = r.url
         /\ Succeeded(r).approval = r.approval
         /\ Failed(r) \in Rows /\ Failed(r).url = r.url /\ Failed(r).approval = r.approval
         /\ Tested(r) \in Rows /\ Tested(r).url = r.url
         /\ Tested(r).approval = "approved" => r.approval = "approved"
  <1>1. Succeeded(r) \in Rows /\ Succeeded(r).url = r.url /\ Succeeded(r).approval = r.approval
    <2>1. 0 \in 0 .. MaxFailures
      BY CameraAssumption
    <2>2. QED
      BY <2>1 DEF Succeeded, Rows
  <1>2. OneMore(r.failures) \in 0 .. MaxFailures
    BY CameraAssumption DEF OneMore, Rows
  <1>3. (r.alerted \/ AlertDue(r)) \in BOOLEAN
    OBVIOUS
  <1>5. Failed(r) \in Rows /\ Failed(r).url = r.url /\ Failed(r).approval = r.approval
    BY <1>2, <1>3 DEF Failed, Rows
  <1>6. /\ Tested(r) \in Rows /\ Tested(r).url = r.url
        /\ Tested(r).approval = "approved" => r.approval = "approved"
    BY <1>1 DEF Tested, Rows
  <1>7. QED
    BY <1>1, <1>5, <1>6

\* Every step keeps it.
LEMMA CameraStepHolds == CameraInv /\ [CameraNext]_cameraVars => CameraInv'
<1> SUFFICES ASSUME CameraInv, [CameraNext]_cameraVars PROVE CameraInv'
  OBVIOUS
<1> USE DEF CameraInv
<1>0. \A a \in Actors : session[a].seen \in Rows
  BY DEF CameraSessions
<1>a. {"poller", "owner", "reviewer"} = Actors
  BY DEF Actors
\* The steps that leave the row, the reviews and what was stored alone.
<1>1. ASSUME NEW a \in Actors, NEW what \in Doings,
             Load(a, what) \/ Turn(a, what) \/ EndSession(a),
             UNCHANGED <<camera, stored, granted, crossing, clip>>,
             a = "poller" => session["poller"].doing /= "idle" \/ EndSession(a)
      PROVE  CameraInv'
  BY <1>1, <1>a, SessionMoves DEF ApprovedAsIs
<1>2. CASE ListCamera
  <2>1. /\ camera.approval = "approved" /\ clip' = camera.url
        /\ Turn("poller", "recording") /\ UNCHANGED <<camera, stored, granted, crossing>>
    BY <1>2 DEF ListCamera, Enabled
  <2>2. session' \in [Actors -> CameraSessions]
    BY <2>1, <1>a, SessionMoves DEF Doings
  <2>3. QED
    BY <2>1, <2>2 DEF ApprovedAsIs
<1>3. CASE Record
  <2>1. \E what \in Doings : Load("poller", what)
    BY <1>3 DEF Record, Doings
  <2>2. /\ session["poller"].doing /= "idle"
        /\ UNCHANGED <<camera, stored, granted, crossing, clip>>
    BY <1>3 DEF Record, Doing
  <2>3. QED
    BY <1>1, <1>a, <2>1, <2>2
<1>4. CASE StoreClip
  <2>1. /\ session["poller"].doing /= "idle" /\ EndSession("poller")
        /\ CommitCamera("poller", Succeeded(session["poller"].seen))
        /\ stored' = IF present THEN stored \cup {clip} ELSE stored
        /\ UNCHANGED <<clip, granted>>
    BY <1>4 DEF StoreClip, Doing
  <2>2. session' \in [Actors -> CameraSessions] /\ session'["poller"].doing = "idle"
    BY <2>1, <1>a, SessionMoves DEF Doings
  <2>3. /\ camera' \in Rows /\ crossing' \in BOOLEAN
        /\ ~crossing' => /\ ~crossing
                         /\ camera'.url = camera.url /\ camera'.approval = camera.approval
    BY <2>1, <1>0, <1>a, CommitWrites, WantedRows
  <2>4. QED
    BY <2>1, <2>2, <2>3 DEF ApprovedAsIs
<1>5. CASE StoreFails
  <2>1. /\ Load("poller", "failing") /\ session["poller"].doing /= "idle"
        /\ UNCHANGED <<camera, stored, granted, crossing, clip>>
    BY <1>5 DEF StoreFails, Doing
  <2>2. QED
    BY <1>1, <1>a, <2>1 DEF Doings
<1>6. CASE PollFails
  <2>1. /\ EndSession("poller")
        /\ CommitCamera("poller", Failed(session["poller"].seen))
        /\ UNCHANGED <<stored, clip, granted>>
    BY <1>6 DEF PollFails
  <2>2. session' \in [Actors -> CameraSessions] /\ session'["poller"].doing = "idle"
    BY <2>1, <1>a, SessionMoves DEF Doings
  <2>3. /\ camera' \in Rows /\ crossing' \in BOOLEAN
        /\ ~crossing' => /\ ~crossing
                         /\ camera'.url = camera.url /\ camera'.approval = camera.approval
    BY <2>1, <1>0, <1>a, CommitWrites, WantedRows
  <2>4. QED
    BY <2>1, <2>2, <2>3 DEF ApprovedAsIs
<1>7. ASSUME NEW a \in Actors, Break(a) PROVE CameraInv'
  <2>1. /\ EndSession(a) /\ UNCHANGED <<camera, stored, granted, crossing, clip>>
        /\ session[a].doing /= "idle"
    BY <1>7 DEF Break, Doing
  <2>2. QED
    BY <1>1, <1>a, <2>1 DEF Doings
<1>8. CASE OwnerAsks
  <2>1. PICK what \in {"changing", "enabling", "disabling", "probing"} : Ask(what)
    BY <1>8 DEF OwnerAsks
  <2>2. Load("owner", what) /\ UNCHANGED <<camera, stored, granted, crossing, clip>>
    BY <2>1 DEF Ask
  <2>3. QED
    BY <1>1, <1>a, <2>2 DEF Doings
\* A request of the owner or of the reviewer that writes the row.
<1>9. ASSUME NEW a \in Actors \ {"poller"}, NEW what, NEW wanted \in Rows,
             Write(a, what, wanted), UNCHANGED granted,
             wanted.approval = "approved" =>
               session[a].seen.approval = "approved" /\ wanted.url = session[a].seen.url
      PROVE  CameraInv'
  <2>1. /\ EndSession(a) /\ CommitCamera(a, wanted) /\ UNCHANGED <<stored, clip, granted>>
    BY <1>9 DEF Write
  <2>2. session' \in [Actors -> CameraSessions] /\ session'["poller"] = session["poller"]
    BY <2>1, <1>a, SessionMoves DEF Doings
  <2>3. /\ camera' \in Rows /\ crossing' \in BOOLEAN
        /\ ~crossing' => /\ ~crossing
                         /\ camera'.approval = "approved" =>
                              camera.approval = "approved" /\ camera'.url = camera.url
    BY <2>1, <1>9, <1>0, <1>a, CommitWrites
  <2>4. QED
    BY <2>1, <2>2, <2>3 DEF ApprovedAsIs
<1>10. CASE Change
  <2>1. PICK url \in Urls, on \in BOOLEAN :
          Write("owner", "changing", [ChangeStream(session["owner"].seen, url) EXCEPT !.enabled = on])
    BY <1>10 DEF Change
  <2> DEFINE wanted == [ChangeStream(session["owner"].seen, url) EXCEPT !.enabled = on]
  <2>2. /\ wanted \in Rows
        /\ wanted.approval = "approved" =>
             session["owner"].seen.approval = "approved" /\ wanted.url = session["owner"].seen.url
    BY <1>0, <1>a DEF ChangeStream, Rows
  <2>3. UNCHANGED granted
    BY <1>10 DEF Change
  <2> HIDE DEF wanted
  <2>4. Write("owner", "changing", wanted)
    BY <2>1 DEF wanted
  <2>5. QED
    BY <1>9, <1>a, <2>2, <2>3, <2>4
<1>11. CASE Switch
  <2>1. ASSUME NEW on \in BOOLEAN
        PROVE  /\ [session["owner"].seen EXCEPT !.enabled = on] \in Rows
               /\ [session["owner"].seen EXCEPT !.enabled = on].approval
                    = session["owner"].seen.approval
               /\ [session["owner"].seen EXCEPT !.enabled = on].url = session["owner"].seen.url
    BY <1>0, <1>a DEF Rows
  <2>2. QED
    BY <1>9, <1>11, <1>a, <2>1 DEF Switch
<1>12. CASE Probe
  <2>1. \E what \in Doings : Turn("owner", what)
    BY <1>12 DEF Probe, Doings
  <2>2. UNCHANGED <<camera, stored, granted, crossing, clip>>
    BY <1>12 DEF Probe
  <2>3. QED
    BY <1>1, <1>a, <2>1, <2>2
<1>13. CASE TestPasses
  <2>1. Write("owner", "passed", Tested(session["owner"].seen)) /\ UNCHANGED granted
    BY <1>13 DEF TestPasses
  <2>2. QED
    BY <1>0, <1>9, <1>a, <2>1, WantedRows
<1>14. CASE TestFails
  <2>1. Write("owner", "failed", Failed(session["owner"].seen)) /\ UNCHANGED granted
    BY <1>14 DEF TestFails
  <2>2. QED
    BY <1>0, <1>9, <1>a, <2>1, WantedRows
<1>15. CASE Delete \/ PushRecording \/ StreamChanges \/ UNCHANGED cameraVars
  <2>1. /\ UNCHANGED <<session, clip, stored, granted, crossing>>
        /\ camera' = camera \/ camera' = [camera EXCEPT !.online = TRUE]
    BY <1>15 DEF Delete, PushRecording, StreamChanges, cameraVars
  <2>2. /\ camera' \in Rows
        /\ camera'.url = camera.url /\ camera'.approval = camera.approval
    BY <2>1 DEF Rows
  <2>3. QED
    BY <2>1, <2>2 DEF ApprovedAsIs
<1>16. CASE ReviewerAsks
  <2>1. PICK what \in {"approving", "rejecting"} : Load("reviewer", what)
    BY <1>16 DEF ReviewerAsks
  <2>2. UNCHANGED <<camera, stored, granted, crossing, clip>>
    BY <1>16 DEF ReviewerAsks
  <2>3. QED
    BY <1>1, <1>a, <2>1, <2>2 DEF Doings
<1>17. CASE Approve
  <2> DEFINE wanted == [session["reviewer"].seen EXCEPT !.approval = "approved"]
  <2>1. wanted \in Rows /\ wanted.url = session["reviewer"].seen.url
    BY <1>0, <1>a DEF Rows
  <2>2. /\ EndSession("reviewer") /\ CommitCamera("reviewer", wanted)
        /\ granted' = granted \cup {session["reviewer"].seen.url}
        /\ UNCHANGED <<stored, clip, present>>
    BY <1>17 DEF Approve, Write
  <2> HIDE DEF wanted
  <2>3. session' \in [Actors -> CameraSessions] /\ session'["poller"] = session["poller"]
    BY <2>2, <1>a, SessionMoves DEF Doings
  <2>4. /\ camera' \in Rows /\ crossing' \in BOOLEAN
        /\ ~crossing' => /\ ~crossing /\ camera'.url = session["reviewer"].seen.url
    BY <2>1, <2>2, <1>a, CommitWrites
  <2>5. QED
    BY <2>2, <2>3, <2>4 DEF ApprovedAsIs
<1>18. CASE RejectCamera
  <2> DEFINE wanted ==
        [session["reviewer"].seen EXCEPT !.approval = "rejected", !.enabled = FALSE]
  <2>1. wanted \in Rows /\ wanted.approval = "rejected"
    BY <1>0, <1>a DEF Rows
  <2>2. Write("reviewer", "rejecting", wanted) /\ UNCHANGED granted
    BY <1>18 DEF RejectCamera
  <2> HIDE DEF wanted
  <2>3. QED
    BY <1>9, <1>a, <2>1, <2>2
<1>19. QED
  BY <1>2, <1>3, <1>4, <1>5, <1>6, <1>7, <1>8, <1>10, <1>11, <1>12, <1>13, <1>14, <1>15,
     <1>16, <1>17, <1>18 DEF CameraNext, Poll, Owner, Reviewer

\* The invariant holds in every behaviour of a camera.
THEOREM CameraInvariant == CameraSpec => []CameraInv
  BY CameraInitHolds, CameraStepHolds, PTL DEF CameraSpec

\* A clip comes from a configuration that was approved, for any number of
\* configurations, edits, reviews and polls that break off, until a commit falls
\* on a row that has changed (update_ip_camera_action, poll_enabled_rtsp_cameras).
THEOREM ClipsAreApproved == CameraSpec => []CapturedWasApproved
<1>1. CameraInv => CapturedWasApproved
  BY DEF CameraInv, ApprovedAsIs, CapturedWasApproved
<1>2. QED
  BY <1>1, CameraInvariant, PTL

\* The mark of the alert and the mails agree with the count of failures, until two
\* checks overlap; no more mails are lost than sessions broke off.
Agree ==
  /\ camera.alerted <=> camera.failures >= Threshold
  /\ mails.sent = mails.lost + IF camera.failures >= Threshold THEN 1 ELSE 0

AlertFollows ==
  /\ mails \in [sent : Nat, lost : Nat] /\ breaks \in 0 .. MaxBreaks
  /\ mails.lost <= breaks
  /\ ~crossing /\ present => Agree

\* Mails that left.
LEMMA MailsSent ==
  ASSUME AlertFollows, NEW r
  PROVE  /\ Mailed(r) \in [sent : Nat, lost : Nat] /\ Mailed(r).lost = mails.lost
         /\ MailedInVain(r) \in [sent : Nat, lost : Nat]
         /\ MailedInVain(r).lost <= mails.lost + 1
         /\ MailedInVain(r).sent - MailedInVain(r).lost = mails.sent - mails.lost
  BY DEF AlertFollows, Mailed, MailedInVain

\* A commit on a row that is still the one that was loaded writes what is wanted.
LEMMA CommitWritesCount ==
  ASSUME CameraInv, NEW a \in Actors, NEW wanted \in Rows, CommitCamera(a, wanted),
         ~crossing', present
  PROVE  /\ ~crossing /\ camera = session[a].seen
         /\ camera'.failures = wanted.failures /\ camera'.alerted = wanted.alerted
<1>1. camera = session[a].seen /\ ~crossing
  BY DEF CommitCamera
<1>2. camera \in Rows /\ camera' = Merged(camera, camera, wanted)
  BY <1>1 DEF CameraInv, CommitCamera
<1>3. camera'.failures = wanted.failures /\ camera'.alerted = wanted.alerted
  BY <1>2 DEF Merged, Rows
<1>4. QED
  BY <1>1, <1>3

\* A check that succeeds ends the outage, one that fails counts and may announce it.
LEMMA SuccessAlerts ==
  ASSUME CameraInv, AlertFollows, NEW a \in Actors, NEW wanted \in Rows,
         CommitCamera(a, wanted), wanted.failures = 0, ~wanted.alerted,
         mails' = (IF present THEN NoMails ELSE mails), UNCHANGED <<present, breaks>>
  PROVE  AlertFollows'
<1>1. ~crossing' /\ present => camera'.failures = 0 /\ ~camera'.alerted
  BY CommitWritesCount DEF Rows
<1>2. ASSUME ~crossing', present' PROVE Agree'
  <2>1. ~(0 >= Threshold)
    BY CameraAssumption
  <2>2. mails'.sent = 0 /\ mails'.lost = 0
    BY <1>2 DEF NoMails
  <2>3. QED
    BY <1>1, <1>2, <2>1, <2>2 DEF Agree
<1>3. mails' \in [sent : Nat, lost : Nat] /\ mails'.lost <= breaks'
  BY DEF AlertFollows, NoMails
<1>4. QED
  BY <1>2, <1>3 DEF AlertFollows

LEMMA FailureAlerts ==
  ASSUME CameraInv, AlertFollows, NEW a \in Actors,
         CommitCamera(a, Failed(session[a].seen)), mails' = Mailed(session[a].seen),
         UNCHANGED <<present, breaks>>
  PROVE  AlertFollows'
<1> DEFINE r == session[a].seen
<1>1. r \in Rows
  BY DEF CameraInv, CameraSessions
<1>2. Failed(r) \in Rows
  BY <1>1, WantedRows
<1>3. /\ Failed(r).failures = OneMore(r.failures)
      /\ Failed(r).alerted <=> r.alerted \/ AlertDue(r)
  BY <1>1 DEF Failed, Rows
<1>4. mails' \in [sent : Nat, lost : Nat] /\ mails'.lost <= breaks' /\ breaks' \in 0 .. MaxBreaks
  BY MailsSent DEF AlertFollows
<1>5. SUFFICES ASSUME ~crossing', present' PROVE Agree'
  BY <1>4 DEF AlertFollows
<1>6. /\ ~crossing /\ camera = r /\ present
      /\ camera'.failures = OneMore(r.failures)
      /\ camera'.alerted <=> r.alerted \/ AlertDue(r)
  BY <1>2, <1>3, <1>5, CommitWritesCount
<1>7. /\ r.alerted <=> r.failures >= Threshold
      /\ mails.sent = mails.lost + IF r.failures >= Threshold THEN 1 ELSE 0
  BY <1>5, <1>6 DEF AlertFollows, Agree
<1>8. r.failures \in 0 .. MaxFailures
  BY <1>1 DEF Rows
<1> HIDE DEF r
<1>9. OneMore(r.failures) >= Threshold <=> r.failures >= Threshold \/ AlertDue(r)
  BY <1>7, <1>8, CameraAssumption DEF AlertDue, OneMore
<1>10. AlertDue(r) => ~(r.failures >= Threshold)
  BY <1>7 DEF AlertDue
<1>11. /\ mails.lost \in Nat /\ mails.lost <= MaxBreaks /\ mails \in [sent : Nat, lost : Nat]
  BY CameraAssumption DEF AlertFollows
<1>12. mails'.sent = mails'.lost + IF OneMore(r.failures) >= Threshold THEN 1 ELSE 0
  <2>1. CASE AlertDue(r)
    <3>1. mails.sent = mails.lost
      BY <1>7, <1>10, <2>1, <1>11
    <3>2. mails' = [mails EXCEPT !.sent = @ + 1]
      BY <1>11, <2>1, <3>1, CameraAssumption DEF Mailed, r
    <3>3. QED
      BY <1>9, <1>11, <2>1, <3>1, <3>2
  <2>2. CASE ~AlertDue(r)
    <3>1. mails' = mails
      BY <2>2 DEF Mailed, r
    <3>2. QED
      BY <1>7, <1>9, <2>2, <3>1
  <2>3. QED
    BY <2>1, <2>2
<1>13. QED
  BY <1>6, <1>7, <1>9, <1>12 DEF Agree

\* A commit of anything else leaves the count and the mark alone.
LEMMA OtherAlerts ==
  ASSUME CameraInv, AlertFollows, NEW a \in Actors, NEW wanted \in Rows,
         CommitCamera(a, wanted), wanted.failures = session[a].seen.failures,
         wanted.alerted = session[a].seen.alerted,
         UNCHANGED <<mails, present, breaks>>
  PROVE  AlertFollows'
<1>1. ~crossing' /\ present => /\ ~crossing
                               /\ camera'.failures = camera.failures
                               /\ camera'.alerted = camera.alerted
  BY CommitWritesCount
<1>2. QED
  BY <1>1 DEF AlertFollows, Agree

LEMMA AlertStep == CameraInv /\ AlertFollows /\ [CameraNext]_cameraVars => AlertFollows'
<1> SUFFICES ASSUME CameraInv, AlertFollows, [CameraNext]_cameraVars PROVE AlertFollows'
  OBVIOUS
<1>0. \A a \in Actors : session[a].seen \in Rows
  BY DEF CameraInv, CameraSessions
<1>a. {"poller", "owner", "reviewer"} = Actors
  BY DEF Actors
<1>1. CASE StoreClip
  <2>1. \A r \in Rows : Succeeded(r) \in Rows /\ Succeeded(r).failures = 0 /\ ~Succeeded(r).alerted
    BY WantedRows DEF Succeeded, Rows
  <2>2. QED
    BY <1>0, <1>1, <1>a, <2>1, SuccessAlerts DEF StoreClip, bounds
<1>2. CASE TestPasses
  <2>1. ASSUME NEW r \in Rows
        PROVE  Tested(r) \in Rows /\ Tested(r).failures = 0 /\ ~Tested(r).alerted
    <3>1. Succeeded(r) \in Rows /\ Succeeded(r).failures = 0 /\ ~Succeeded(r).alerted
      BY WantedRows DEF Succeeded, Rows
    <3>2. /\ Tested(r).failures = Succeeded(r).failures
          /\ Tested(r).alerted = Succeeded(r).alerted
      BY <3>1 DEF Tested, Rows
    <3>3. QED
      BY <3>1, <3>2, WantedRows
  <2>2. QED
    BY <1>0, <1>2, <1>a, <2>1, SuccessAlerts DEF TestPasses, Write, bounds
<1>3. CASE PollFails
  BY <1>3, <1>a, FailureAlerts DEF PollFails, bounds
<1>4. CASE TestFails
  BY <1>4, <1>a, FailureAlerts DEF TestFails, Write, bounds
<1>5. CASE Change
  <2>1. PICK url \in Urls, on \in BOOLEAN :
          Write("owner", "changing", [ChangeStream(session["owner"].seen, url) EXCEPT !.enabled = on])
    BY <1>5 DEF Change
  <2> DEFINE wanted == [ChangeStream(session["owner"].seen, url) EXCEPT !.enabled = on]
  <2>2. /\ wanted \in Rows /\ wanted.failures = session["owner"].seen.failures
        /\ wanted.alerted = session["owner"].seen.alerted
    BY <1>0, <1>a DEF ChangeStream, Rows
  <2>3. CommitCamera("owner", wanted) /\ UNCHANGED <<mails, present, breaks>>
    BY <1>5, <2>1 DEF Change, Write, bounds
  <2> HIDE DEF wanted
  <2>4. QED
    BY <1>a, <2>2, <2>3, OtherAlerts
<1>6. CASE Switch
  <2>1. PICK on \in BOOLEAN : CommitCamera("owner", [session["owner"].seen EXCEPT !.enabled = on])
    BY <1>6 DEF Switch, Write
  <2> DEFINE wanted == [session["owner"].seen EXCEPT !.enabled = on]
  <2>2. /\ wanted \in Rows /\ wanted.failures = session["owner"].seen.failures
        /\ wanted.alerted = session["owner"].seen.alerted
    BY <1>0, <1>a DEF Rows
  <2>3. CommitCamera("owner", wanted) /\ UNCHANGED <<mails, present, breaks>>
    BY <1>6, <2>1 DEF Switch, Write, bounds
  <2> HIDE DEF wanted
  <2>4. QED
    BY <1>a, <2>2, <2>3, OtherAlerts
<1>7. CASE Reviewer
  <2>1. PICK approval \in {"approved", "rejected"}, on \in BOOLEAN :
          CommitCamera("reviewer", [session["reviewer"].seen EXCEPT !.approval = approval,
                                                                    !.enabled = on])
    <3>1. CASE Approve
      <4>1. [session["reviewer"].seen EXCEPT !.approval = "approved"]
              = [session["reviewer"].seen EXCEPT !.approval = "approved",
                                                 !.enabled = session["reviewer"].seen.enabled]
        BY <1>0, <1>a DEF Rows
      <4>2. session["reviewer"].seen.enabled \in BOOLEAN
        BY <1>0, <1>a DEF Rows
      <4>3. QED
        BY <3>1, <4>1, <4>2 DEF Approve, Write
    <3>2. CASE RejectCamera
      BY <3>2 DEF RejectCamera, Write
    <3>3. QED
      BY <1>7, <3>1, <3>2 DEF Reviewer
  <2> DEFINE wanted == [session["reviewer"].seen EXCEPT !.approval = approval, !.enabled = on]
  <2>2. /\ wanted \in Rows /\ wanted.failures = session["reviewer"].seen.failures
        /\ wanted.alerted = session["reviewer"].seen.alerted
    BY <1>0, <1>a DEF Rows
  <2>3. CommitCamera("reviewer", wanted) /\ UNCHANGED <<mails, present, breaks>>
    BY <1>7, <2>1 DEF Reviewer, Approve, RejectCamera, Write, bounds
  <2> HIDE DEF wanted
  <2>4. QED
    BY <1>a, <2>2, <2>3, OtherAlerts
<1>8. CASE StoreFails
  BY <1>8, CameraAssumption DEF StoreFails, AlertFollows, Agree
<1>b. ASSUME NEW a \in Actors, Break(a) PROVE AlertFollows'
  <2>1. /\ breaks' = breaks + 1 /\ breaks' \in 0 .. MaxBreaks
        /\ UNCHANGED <<camera, present, crossing>>
    BY <1>b, CameraAssumption DEF Break, AlertFollows
  <2>2. /\ mails' \in [sent : Nat, lost : Nat] /\ mails'.lost <= mails.lost + 1
        /\ mails'.sent - mails'.lost = mails.sent - mails.lost
    <3>1. CASE UNCHANGED mails
      BY <3>1 DEF AlertFollows
    <3>2. CASE mails' = MailedInVain(session[a].seen)
      BY <3>2, MailsSent
    <3>3. QED
      BY <1>b, <3>1, <3>2 DEF Break
  <2>3. ~crossing /\ present => mails'.sent = mails'.lost + IF camera.failures >= Threshold THEN 1 ELSE 0
    BY <2>2 DEF AlertFollows, Agree
  <2>4. QED
    BY <2>1, <2>2, <2>3 DEF AlertFollows, Agree
<1>9. CASE PushRecording
  <2>1. camera'.failures = camera.failures /\ camera'.alerted = camera.alerted
    BY <1>9 DEF PushRecording, CameraInv, Rows
  <2>2. QED
    BY <1>9, <2>1 DEF PushRecording, bounds, AlertFollows, Agree
<1>10. CASE Delete
  BY <1>10 DEF Delete, AlertFollows
<1>11. ASSUME UNCHANGED <<camera, mails, present, crossing, breaks>> PROVE AlertFollows'
  BY <1>11 DEF AlertFollows, Agree
<1>12. QED
  BY <1>1, <1>2, <1>3, <1>4, <1>5, <1>6, <1>7, <1>8, <1>b, <1>9, <1>10, <1>11
  DEF CameraNext, Poll, Owner, ListCamera, Record, OwnerAsks, Ask, Probe, ReviewerAsks,
      StreamChanges, cameraVars, bounds

\* The owner is told of an outage once, and once more for each mail whose record was
\* lost, for any number of polls, tests, edits and reviews that do not overlap, any
\* threshold and any number of sessions that break off.
THEOREM OneMail == CameraSpec => []OneMailPerOutage
<1>1. CameraInit => AlertFollows
  <2> SUFFICES ASSUME CameraInit PROVE AlertFollows
    OBVIOUS
  <2>1. /\ camera.failures = 0 /\ camera.alerted = FALSE /\ breaks = 0
        /\ mails = [sent |-> 0, lost |-> 0]
    BY DEF CameraInit, NoMails
  <2>2. QED
    BY <2>1, CameraAssumption DEF AlertFollows, Agree
<1>2. AlertFollows => OneMailPerOutage
  BY DEF AlertFollows, Agree, OneMailPerOutage
<1>3. QED
  BY <1>1, <1>2, AlertStep, CameraInvariant, PTL DEF CameraSpec
=============================================================================
