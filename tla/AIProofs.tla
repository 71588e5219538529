------------------------------ MODULE AIProofs ------------------------------
(***************************************************************************)
(* Proofs about the AI's side of the application: that the audits of       *)
(* PromptParity have fixtures enough, and that the rotation of AIBackends  *)
(* gives every backend its share.                                          *)
(*                                                                         *)
(* Each surface has a fixture in which every slot of its template has      *)
(* something to say, and no two slots begin with the same block, nor with  *)
(* one that a template may hold itself.  The prompt is then a text in a    *)
(* code that tells each symbol by its first letter: only one template can  *)
(* give it, that of the migrations.  And that one gives the code's prompt  *)
(* for any input.  A fixture less, and two templates may give the same.    *)
(*                                                                         *)
(* The places of a backend in the table of ai_gateway are neighbours, so   *)
(* the counter passes them one after the other, and a turn of the table    *)
(* gives a backend the lead as often as it has places.                     *)
(***************************************************************************)
EXTENDS PromptParity, AIBackends, SequenceTheorems, WellFoundedInduction, TLAPS

-----------------------------------------------------------------------------
(* Flattening a sequence of sequences *)

\* A set of naturals has a least element: induction over data, for a given set.
LEMMA LeastOne ==
  ASSUME NEW T, T \subseteq Nat, T /= {}
  PROVE  \E n \in T : \A m \in T : n <= m
  <1> DEFINE R == OpToRel(<, Nat)
  <1>1. IsWellFoundedOn(R, Nat)
    BY NatLessThanWellFounded
  <1>2. \A m, n \in Nat : m < n => <<m, n>> \in R
    BY DEF OpToRel
  <1> HIDE DEF R
  <1>3. PICK n \in T : \A m \in T : <<m, n>> \notin R
    BY <1>1, WFMin
  <1>4. \A m \in T : ~ (m < n)
    BY <1>2, <1>3
  <1>. QED BY <1>4

\* The concatenations of the first one, the first two, ... of some sequences.
Running(seqs) ==
  CHOOSE f : f = [i \in 1 .. Len(seqs) |-> IF i = 1 THEN seqs[i] ELSE f[i - 1] \o seqs[i]]

\* There is such a function: a longest one that there is could be made longer.
LEMMA RunningExists ==
  ASSUME NEW seqs, Len(seqs) \in Nat
  PROVE  Running(seqs) =
           [i \in 1 .. Len(seqs) |-> IF i = 1 THEN seqs[i] ELSE Running(seqs)[i - 1] \o seqs[i]]
  <1> DEFINE Upto(n, f) == f = [i \in 1 .. n |-> IF i = 1 THEN seqs[i] ELSE f[i - 1] \o seqs[i]]
             Bad == {n \in Nat : ~ \E f : Upto(n, f)}
  <1>1. SUFFICES Bad = {}
    BY DEF Running
  <1>2. SUFFICES ASSUME Bad /= {} PROVE FALSE
    OBVIOUS
  <1>3. PICK n \in Bad : \A m \in Bad : n <= m
    <2>1. Bad \subseteq Nat OBVIOUS
    <2>. QED BY <1>2, <2>1, LeastOne
  <1>4. n /= 0
    <2>1. Upto(0, [i \in 1 .. 0 |-> 0])
      OBVIOUS
    <2>. QED BY <2>1
  <1>5. PICK f : Upto(n - 1, f)
    <2>1. n - 1 \in Nat /\ n - 1 < n BY <1>4
    <2>2. \A m \in Bad : n <= m BY <1>3
    <2>3. n \in Nat OBVIOUS
    <2> HIDE DEF Bad
    <2>4. n - 1 \notin Bad BY <2>1, <2>2, <2>3
    <2>. QED BY <2>1, <2>4 DEF Bad
  <1> DEFINE next == IF n = 1 THEN seqs[n] ELSE f[n - 1] \o seqs[n]
             g == [i \in 1 .. n |-> IF i = n THEN next ELSE f[i]]
  <1>6. ASSUME NEW i \in 1 .. n PROVE g[i] = IF i = 1 THEN seqs[i] ELSE g[i - 1] \o seqs[i]
    <2>1. CASE i = n
      BY <1>4, <2>1
    <2>2. CASE i /= n
      <3>1. i \in 1 .. n - 1 BY <2>2
      <3>2. f[i] = IF i = 1 THEN seqs[i] ELSE f[i - 1] \o seqs[i]
        BY <1>5, <3>1
      <3>3. g[i] = f[i] BY <2>2
      <3>4. i /= 1 => g[i - 1] = f[i - 1] BY <3>1
      <3>. QED BY <3>2, <3>3, <3>4
    <2>. QED BY <2>1, <2>2
  <1>7. Upto(n, g)
    <2>1. g = [i \in 1 .. n |-> g[i]] OBVIOUS
    <2> HIDE DEF g
    <2>. QED BY <1>6, <2>1
  <1>. QED BY <1>3, <1>7

\* The last of them is the flattened sequence.
LEMMA FlattenIsRunning ==
  ASSUME NEW S, NEW seqs \in Seq(Seq(S)), seqs /= <<>>
  PROVE  Lists!FlattenSeq(seqs) = Running(seqs)[Len(seqs)]
  BY DEF Lists!FlattenSeq, Running

\* Each is the one before with the next sequence added.
LEMMA RunningSteps ==
  ASSUME NEW S, NEW seqs \in Seq(Seq(S)), NEW i \in 1 .. Len(seqs)
  PROVE  /\ Running(seqs)[i] \in Seq(S)
         /\ i = 1 => Running(seqs)[i] = seqs[i]
         /\ i > 1 => Running(seqs)[i] = Running(seqs)[i - 1] \o seqs[i]
  <1> DEFINE n == Len(seqs)
             R == Running(seqs)
             Bad == {k \in 1 .. n : R[k] \notin Seq(S)}
  <1>1. n \in Nat
    OBVIOUS
  <1>2. \A k \in 1 .. n : seqs[k] \in Seq(S)
    OBVIOUS
  <1>3. \A k \in 1 .. n : R[k] = IF k = 1 THEN seqs[k] ELSE R[k - 1] \o seqs[k]
    <2>1. R = [k \in 1 .. n |-> IF k = 1 THEN seqs[k] ELSE R[k - 1] \o seqs[k]]
      BY <1>1, RunningExists
    <2> HIDE DEF R
    <2>. QED BY <2>1
  <1> HIDE DEF R, n
  <1>4. ASSUME Bad /= {} PROVE FALSE
    <2>1. Bad \subseteq Nat BY <1>1
    <2>2. PICK k \in Bad : \A m \in Bad : k <= m BY <1>4, <2>1, LeastOne
    <2>3. CASE k = 1 BY <1>2, <1>3, <2>2, <2>3
    <2>4. CASE k /= 1
      <3>1. k - 1 \in 1 .. n /\ k \in 1 .. n BY <1>1, <2>4
      <3>2. R[k - 1] \in Seq(S)
        <4>1. k - 1 \notin Bad
          <5>1. ~ (k <= k - 1) BY <3>1
          <5> HIDE DEF Bad
          <5>. QED BY <2>2, <5>1
        <4>. QED BY <3>1, <4>1
      <3>3. R[k] = R[k - 1] \o seqs[k] BY <1>3, <2>4, <3>1
      <3>4. R[k] \in Seq(S)
        BY <1>2, <3>1, <3>2, <3>3, ConcatProperties
      <3>. QED BY <3>4
    <2>. QED BY <2>3, <2>4
  <1>5. \A k \in 1 .. n : R[k] \in Seq(S)
    BY <1>4
  <1>6. i \in 1 .. n
    BY DEF n
  <1>7. R[i] \in Seq(S) /\ R[i] = IF i = 1 THEN seqs[i] ELSE R[i - 1] \o seqs[i]
    BY <1>3, <1>5, <1>6
  <1>8. i > 1 => i /= 1
    BY <1>1, <1>6
  <1>. QED BY <1>7, <1>8 DEF R

\* A concatenation begins with its first part.
LEMMA ConcatLonger ==
  ASSUME NEW S, NEW s \in Seq(S), NEW t \in Seq(S)
  PROVE  /\ Len(s \o t) = Len(s) + Len(t) /\ Len(s) \in Nat /\ Len(t) \in Nat
         /\ \A k \in 1 .. Len(s) : (s \o t)[k] = s[k]
  <1>1. Len(s) \in Nat /\ Len(t) \in Nat
    OBVIOUS
  <1>. QED BY <1>1, ConcatProperties

\* An earlier one is a prefix of a later one.
LEMMA RunningPrefix ==
  ASSUME NEW S, NEW seqs \in Seq(Seq(S)), NEW i \in 1 .. Len(seqs), NEW j \in 1 .. Len(seqs),
         i <= j
  PROVE  /\ Len(Running(seqs)[i]) <= Len(Running(seqs)[j])
         /\ \A k \in 1 .. Len(Running(seqs)[i]) : Running(seqs)[j][k] = Running(seqs)[i][k]
  <1> DEFINE n == Len(seqs)
             R == Running(seqs)
             Longer(m) == Len(R[i]) <= Len(R[m]) /\ \A k \in 1 .. Len(R[i]) : R[m][k] = R[i][k]
             Bad == {m \in i .. n : ~Longer(m)}
  <1>1. n \in Nat
    OBVIOUS
  <1>2. \A m \in 1 .. n : R[m] \in Seq(S)
    BY RunningSteps
  <1>3. \A m \in 1 .. n : m > 1 => R[m] = R[m - 1] \o seqs[m]
    BY RunningSteps
  <1>4. \A m \in 1 .. n : seqs[m] \in Seq(S)
    OBVIOUS
  <1> HIDE DEF R, n
  <1>5. ASSUME Bad /= {} PROVE FALSE
    <2>1. Bad \subseteq Nat BY <1>1
    <2>2. PICK m \in Bad : \A l \in Bad : m <= l BY <1>5, <2>1, LeastOne
    <2>3. i \in 1 .. n /\ m \in 1 .. n BY <1>1 DEF n
    <2>4. CASE m = i
      <3>1. Len(R[i]) \in Nat BY <1>2, <2>3
      <3>. QED BY <2>2, <2>4, <3>1
    <2>5. CASE m /= i
      <3>1. m - 1 \in i .. n /\ m > 1 /\ m - 1 \in 1 .. n BY <2>3, <2>5, <1>1
      <3>2. Longer(m - 1)
        <4>1. m - 1 \notin Bad
          <5>1. ~ (m <= m - 1) BY <2>3
          <5> HIDE DEF Bad
          <5>. QED BY <2>2, <5>1
        <4>. QED BY <3>1, <4>1
      <3> DEFINE p == R[m - 1]
      <3>3. R[m] = p \o seqs[m] BY <1>3, <2>3, <3>1
      <3>4. p \in Seq(S) /\ seqs[m] \in Seq(S) BY <1>2, <1>4, <2>3, <3>1
      <3>5. R[i] \in Seq(S) BY <1>2, <2>3
      <3> HIDE DEF p
      <3>6. /\ Len(R[m]) = Len(p) + Len(seqs[m]) /\ Len(p) \in Nat /\ Len(seqs[m]) \in Nat
            /\ \A k \in 1 .. Len(p) : R[m][k] = p[k]
        BY <3>3, <3>4, ConcatLonger
      <3>7. Len(R[i]) <= Len(p) /\ Len(R[i]) \in Nat /\ \A k \in 1 .. Len(R[i]) : p[k] = R[i][k]
        BY <3>2, <3>5 DEF p
      <3>8. Longer(m)
        <4>1. Len(R[i]) <= Len(R[m]) BY <3>6, <3>7, SMTT(30)
        <4>2. ASSUME NEW k \in 1 .. Len(R[i]) PROVE R[m][k] = R[i][k]
          <5>1. k \in 1 .. Len(p) BY <3>6, <3>7
          <5>. QED BY <3>6, <3>7, <5>1
        <4>. QED BY <4>1, <4>2
      <3>. QED BY <2>2, <3>8
    <2>. QED BY <2>4, <2>5
  <1>6. j \in i .. n
    BY DEF n
  <1>7. Longer(j)
    BY <1>5, <1>6
  <1>. QED BY <1>7 DEF R

-----------------------------------------------------------------------------
(* Texts in a code *)

\* What the blocks of s become, one after the other.
Each(F, s) == [i \in DOMAIN s |-> F[s[i]]]

\* Each symbol is told by the first letter of its code.
Code(S, K, F) ==
  /\ F \in [K -> Seq(S)]
  /\ \A b \in K : F[b] /= <<>>
  /\ \A b, c \in K : F[b][1] = F[c][1] => b = c

\* What a sequence of symbols is in a code: one sequence of letters each.
LEMMA EachIsSeq ==
  ASSUME NEW S, NEW K, NEW F, Code(S, K, F), NEW s \in Seq(K)
  PROVE  /\ Each(F, s) \in Seq(Seq(S)) /\ Len(Each(F, s)) = Len(s) /\ Len(s) \in Nat
         /\ \A i \in 1 .. Len(s) : s[i] \in K /\ Each(F, s)[i] = F[s[i]]
  <1>1. Len(s) \in Nat /\ DOMAIN s = 1 .. Len(s) /\ \A i \in 1 .. Len(s) : s[i] \in K
    OBVIOUS
  <1>2. \A i \in 1 .. Len(s) : F[s[i]] \in Seq(S)
    BY <1>1 DEF Code
  <1>3. Each(F, s) = [i \in 1 .. Len(s) |-> F[s[i]]]
    BY <1>1 DEF Each
  <1>4. Each(F, s) \in Seq(Seq(S)) /\ Len(Each(F, s)) = Len(s)
    BY <1>1, <1>2, <1>3, IsASeq
  <1>. QED BY <1>1, <1>3, <1>4

\* A code that tells every symbol by its first letter has one reading.
LEMMA OneReading ==
  ASSUME NEW S, NEW K, NEW F, Code(S, K, F), NEW s \in Seq(K), NEW t \in Seq(K),
         s /= <<>>, t /= <<>>,
         Lists!FlattenSeq(Each(F, s)) = Lists!FlattenSeq(Each(F, t)),
         NEW i \in 1 .. Len(s), i <= Len(t)
  PROVE  s[i] = t[i] /\ Running(Each(F, s))[i] = Running(Each(F, t))[i]
  <1> DEFINE fs == Each(F, s)
             ft == Each(F, t)
             n == Len(s)
             m == Len(t)
             R == Running(fs)
             Q == Running(ft)
             Agree(k) == s[k] = t[k] /\ R[k] = Q[k]
             Bad == {k \in 1 .. n : k <= m /\ ~Agree(k)}
  <1>1. /\ fs \in Seq(Seq(S)) /\ ft \in Seq(Seq(S)) /\ Len(fs) = n /\ Len(ft) = m
        /\ n \in Nat /\ m \in Nat
        /\ \A k \in 1 .. n : s[k] \in K /\ fs[k] = F[s[k]]
        /\ \A k \in 1 .. m : t[k] \in K /\ ft[k] = F[t[k]]
    <2>2. fs \in Seq(Seq(S)) /\ Len(fs) = n /\ n \in Nat /\ \A k \in 1 .. n : s[k] \in K /\ fs[k] = F[s[k]]
      BY EachIsSeq
    <2>3. ft \in Seq(Seq(S)) /\ Len(ft) = m /\ m \in Nat /\ \A k \in 1 .. m : t[k] \in K /\ ft[k] = F[t[k]]
      BY EachIsSeq
    <2>. QED BY <2>2, <2>3
  <1>2. n \in 1 .. n /\ m \in 1 .. m
    BY <1>1
  <1>3. R[n] = Q[m]
    <2>1. fs /= <<>> /\ ft /= <<>>
      BY <1>1, <1>2
    <2>. QED BY <1>1, <2>1, FlattenIsRunning
  <1> HIDE DEF n, m, fs, ft
  <1>4. /\ \A k \in 1 .. n : R[k] \in Seq(S) /\ (k = 1 => R[k] = fs[k]) /\ (k > 1 => R[k] = R[k - 1] \o fs[k])
        /\ \A k \in 1 .. m : Q[k] \in Seq(S) /\ (k = 1 => Q[k] = ft[k]) /\ (k > 1 => Q[k] = Q[k - 1] \o ft[k])
    <2>1. \A k \in 1 .. Len(fs) : R[k] \in Seq(S) /\ (k = 1 => R[k] = fs[k]) /\ (k > 1 => R[k] = R[k - 1] \o fs[k])
      BY <1>1, RunningSteps, ZenonT(30)
    <2>2. \A k \in 1 .. Len(ft) : Q[k] \in Seq(S) /\ (k = 1 => Q[k] = ft[k]) /\ (k > 1 => Q[k] = Q[k - 1] \o ft[k])
      BY <1>1, RunningSteps, ZenonT(30)
    <2>. QED BY <1>1, <2>1, <2>2
  <1>5. /\ \A k \in 1 .. n : \A l \in 1 .. Len(R[k]) : R[n][l] = R[k][l]
        /\ \A k \in 1 .. m : \A l \in 1 .. Len(Q[k]) : Q[m][l] = Q[k][l]
    <2>0. fs \in Seq(Seq(S)) /\ ft \in Seq(Seq(S))
      BY <1>1
    <2>1. ASSUME NEW k \in 1 .. n PROVE \A l \in 1 .. Len(R[k]) : R[n][l] = R[k][l]
      <3>1. k \in 1 .. Len(fs) /\ n \in 1 .. Len(fs) /\ k <= n BY <1>1, <1>2
      <3>. QED BY <2>0, <3>1, RunningPrefix
    <2>2. ASSUME NEW k \in 1 .. m PROVE \A l \in 1 .. Len(Q[k]) : Q[m][l] = Q[k][l]
      <3>1. k \in 1 .. Len(ft) /\ m \in 1 .. Len(ft) /\ k <= m BY <1>1, <1>2
      <3>. QED BY <2>0, <3>1, RunningPrefix
    <2>. QED BY <2>1, <2>2
  <1> HIDE DEF R, Q
  <1>6. ASSUME NEW b \in K PROVE F[b] \in Seq(S) /\ Len(F[b]) \in Nat /\ Len(F[b]) >= 1
    BY DEF Code
  <1>7. ASSUME NEW k \in 1 .. n, k <= m, k = 1 \/ (k > 1 /\ Agree(k - 1))
        PROVE  Agree(k)
    <2>1. k \in 1 .. m
      BY <1>1, <1>7
    <2>2. s[k] \in K /\ t[k] \in K /\ fs[k] = F[s[k]] /\ ft[k] = F[t[k]]
      BY <1>1, <2>1
    <2>3. CASE k = 1
      <3>1. R[k] = F[s[k]] /\ Q[k] = F[t[k]]
        BY <1>4, <2>1, <2>2, <2>3
      <3>2. R[n][1] = F[s[k]][1]
        BY <1>5, <1>6, <2>2, <3>1
      <3>3. Q[m][1] = F[t[k]][1]
        BY <1>5, <1>6, <2>1, <2>2, <3>1
      <3>4. s[k] = t[k]
        BY <1>3, <2>2, <3>2, <3>3 DEF Code
      <3>. QED BY <3>1, <3>4
    <2>4. CASE k > 1 /\ Agree(k - 1)
      <3> DEFINE p == R[k - 1]
      <3>1. p = Q[k - 1] /\ k - 1 \in 1 .. n
        BY <1>1, <2>4
      <3>2. R[k] = p \o F[s[k]] /\ Q[k] = p \o F[t[k]]
        BY <1>4, <2>1, <2>2, <2>4, <3>1
      <3>3. p \in Seq(S)
        BY <1>4, <3>1
      <3> HIDE DEF p
      <3> DEFINE l == Len(p) + 1
      <3>4. Len(p) \in Nat /\ l \in 1 .. Len(p) + Len(F[s[k]]) /\ l \in 1 .. Len(p) + Len(F[t[k]])
        <4>1. Len(p) \in Nat BY <3>3
        <4>2. Len(F[s[k]]) \in Nat /\ Len(F[s[k]]) >= 1 /\ Len(F[t[k]]) \in Nat /\ Len(F[t[k]]) >= 1
          BY <1>6, <2>2
        <4>. QED BY <4>1, <4>2
      <3>5. ASSUME NEW b \in K
            PROVE  Len(p \o F[b]) = Len(p) + Len(F[b]) /\ (p \o F[b])[Len(p) + 1] = F[b][1]
        <4>1. F[b] \in Seq(S) /\ Len(F[b]) \in Nat /\ Len(F[b]) >= 1 BY <1>6
        <4>2. Len(p) \in Nat BY <3>3
        <4>3. Len(p) + 1 \in 1 .. Len(p) + Len(F[b]) BY <4>1, <4>2
        <4>4. ~ (Len(p) + 1 <= Len(p)) /\ Len(p) + 1 - Len(p) = 1 BY <4>2
        <4>. QED BY <3>3, <4>1, <4>3, <4>4, ConcatProperties
      <3>6. R[n][l] = F[s[k]][1]
        <4>1. Len(R[k]) = Len(p) + Len(F[s[k]]) /\ R[k][l] = F[s[k]][1]
          BY <2>2, <3>2, <3>5
        <4>2. l \in 1 .. Len(R[k])
          BY <3>4, <4>1
        <4>. QED BY <1>5, <4>1, <4>2
      <3>7. Q[m][l] = F[t[k]][1]
        <4>1. Len(Q[k]) = Len(p) + Len(F[t[k]]) /\ Q[k][l] = F[t[k]][1]
          BY <2>2, <3>2, <3>5
        <4>2. l \in 1 .. Len(Q[k])
          BY <3>4, <4>1
        <4>. QED BY <1>5, <2>1, <4>1, <4>2
      <3>8. s[k] = t[k]
        BY <1>3, <2>2, <3>6, <3>7 DEF Code
      <3>. QED BY <3>2, <3>8
    <2>. QED BY <1>7, <2>3, <2>4
  <1>8. ASSUME Bad /= {} PROVE FALSE
    <2>1. Bad \subseteq Nat BY <1>1
    <2>2. PICK k \in Bad : \A j \in Bad : k <= j BY <1>8, <2>1, LeastOne
    <2>3. k \in 1 .. n /\ k <= m /\ ~Agree(k) BY <2>2
    <2>4. k - 1 \notin Bad
      <3>1. ~ (k <= k - 1) BY <2>3, <1>1
      <3> HIDE DEF Bad
      <3>. QED BY <2>2, <3>1
    <2>5. k = 1 \/ (k > 1 /\ Agree(k - 1)) BY <1>1, <2>3, <2>4
    <2>. QED BY <1>7, <2>3, <2>5
  <1>9. i \in 1 .. n /\ i <= m
    BY DEF n, m
  <1>10. Agree(i)
    BY <1>8, <1>9
  <1>. QED BY <1>10 DEF R, Q, fs, ft

\* Nothing is left to read when one of two readings has ended.
LEMMA NoMoreToRead ==
  ASSUME NEW S, NEW K, NEW F, Code(S, K, F), NEW s \in Seq(K), NEW t \in Seq(K),
         s /= <<>>, t /= <<>>,
         Lists!FlattenSeq(Each(F, s)) = Lists!FlattenSeq(Each(F, t))
  PROVE  Len(t) <= Len(s)
  <1> DEFINE fs == Each(F, s)
             ft == Each(F, t)
             n == Len(s)
             m == Len(t)
  <1>1. /\ fs \in Seq(Seq(S)) /\ ft \in Seq(Seq(S)) /\ Len(fs) = n /\ Len(ft) = m
        /\ n \in Nat /\ m \in Nat /\ n > 0 /\ m > 0
        /\ \A k \in 1 .. m : t[k] \in K /\ ft[k] = F[t[k]]
    <2>1. n \in Nat /\ m \in Nat /\ n > 0 /\ m > 0
      OBVIOUS
    <2>3. fs \in Seq(Seq(S)) /\ Len(fs) = n
      BY EachIsSeq
    <2>4. ft \in Seq(Seq(S)) /\ Len(ft) = m /\ \A k \in 1 .. m : t[k] \in K /\ ft[k] = F[t[k]]
      BY EachIsSeq
    <2>. QED BY <2>1, <2>3, <2>4
  <1>2. Running(fs)[n] = Running(ft)[m]
    <2>1. fs /= <<>> /\ ft /= <<>>
      BY <1>1
    <2>. QED BY <1>1, <2>1, FlattenIsRunning
  <1>3. SUFFICES ASSUME n < m PROVE FALSE
    BY <1>1
  <1>4. Running(fs)[n] = Running(ft)[n]
    <2>1. n \in 1 .. n /\ n <= m BY <1>1, <1>3
    <2>. QED BY <2>1, OneReading
  <1> HIDE DEF n, m, fs, ft
  <1> DEFINE before == Running(ft)[m - 1]
  <1>5. m - 1 \in 1 .. m /\ m \in 1 .. m /\ n \in 1 .. m /\ n <= m - 1
    BY <1>1, <1>3
  <1>6. before \in Seq(S) /\ Running(ft)[m] = before \o ft[m]
    <2>1. m > 1 BY <1>1, <1>3
    <2>2. m \in 1 .. Len(ft) /\ m - 1 \in 1 .. Len(ft) BY <1>1, <1>5
    <2>. QED BY <1>1, <2>1, <2>2, RunningSteps
  <1>7. Len(Running(ft)[n]) <= Len(before) /\ Running(ft)[n] \in Seq(S)
    BY <1>1, <1>5, RunningPrefix, RunningSteps
  <1> HIDE DEF before
  <1>8. ft[m] \in Seq(S) /\ Len(ft[m]) > 0
    <2>1. ft[m] = F[t[m]] /\ t[m] \in K BY <1>1, <1>5
    <2>2. F[t[m]] \in Seq(S) /\ F[t[m]] /= <<>> BY <2>1 DEF Code
    <2>. QED BY <2>1, <2>2
  <1>9. Len(Running(ft)[m]) = Len(before) + Len(ft[m]) /\ Len(before) \in Nat /\ Len(ft[m]) \in Nat
    BY <1>6, <1>8, ConcatLonger
  <1>10. Len(Running(ft)[n]) \in Nat
    BY <1>7
  <1>. QED BY <1>2, <1>4, <1>7, <1>8, <1>9, <1>10

\* Symbols that have the same code text are the same symbols.
LEMMA Decode ==
  ASSUME NEW S, NEW K, NEW F, Code(S, K, F), NEW s \in Seq(K), NEW t \in Seq(K),
         s /= <<>>, t /= <<>>,
         Lists!FlattenSeq(Each(F, s)) = Lists!FlattenSeq(Each(F, t))
  PROVE  s = t
  <1>1. Len(t) <= Len(s)
    BY NoMoreToRead
  <1>2. Len(s) <= Len(t)
    BY NoMoreToRead
  <1>3. Len(s) \in Nat /\ Len(t) \in Nat
    OBVIOUS
  <1>4. Len(s) = Len(t)
    BY <1>1, <1>2, <1>3
  <1>5. \A i \in 1 .. Len(s) : i <= Len(t)
    BY <1>3, <1>4
  <1>6. \A i \in 1 .. Len(s) : s[i] = t[i]
    BY <1>5, OneReading
  <1>. QED BY <1>4, <1>6, SeqEqual

-----------------------------------------------------------------------------
(* Sequences of one element each *)

\* The first parts of a sequence, of one block each, come out as they are.
LEMMA RunningSingles ==
  ASSUME NEW S, NEW seqs \in Seq(Seq(S)), NEW j \in 1 .. Len(seqs),
         \A i \in 1 .. j : Len(seqs[i]) = 1
  PROVE  Running(seqs)[j] = [i \in 1 .. j |-> seqs[i][1]]
  <1> DEFINE R == Running(seqs)
             Bad == {k \in 1 .. j : R[k] /= [i \in 1 .. k |-> seqs[i][1]]}
  <1>1. j \in Nat /\ Len(seqs) \in Nat /\ \A i \in 1 .. j : seqs[i] \in Seq(S) /\ seqs[i][1] \in S
    <2>1. j \in Nat /\ Len(seqs) \in Nat /\ \A i \in 1 .. j : seqs[i] \in Seq(S) OBVIOUS
    <2>. QED BY <2>1
  <1>2. \A k \in 1 .. j : (k = 1 => R[k] = seqs[k]) /\ (k > 1 => R[k] = R[k - 1] \o seqs[k])
    <2>1. \A k \in 1 .. j : k \in 1 .. Len(seqs) BY <1>1
    <2>. QED BY <2>1, RunningSteps
  <1> HIDE DEF R
  <1>3. ASSUME Bad /= {} PROVE FALSE
    <2>1. Bad \subseteq Nat BY <1>1
    <2>2. PICK k \in Bad : \A m \in Bad : k <= m BY <1>3, <2>1, LeastOne
    <2>3. k \in 1 .. j /\ R[k] /= [i \in 1 .. k |-> seqs[i][1]] BY <2>2
    <2>4. CASE k = 1
      <3>1. R[1] = seqs[1] BY <1>2, <2>3, <2>4
      <3>2. seqs[1] \in Seq(S) /\ Len(seqs[1]) = 1 BY <1>1, <2>3, <2>4
      <3>3. seqs[1] = [i \in 1 .. 1 |-> seqs[i][1]] BY <3>2
      <3>. QED BY <2>3, <2>4, <3>1, <3>3
    <2>5. CASE k /= 1
      <3>1. k > 1 /\ k - 1 \in 1 .. j BY <1>1, <2>3, <2>5
      <3>2. k - 1 \notin Bad
        <4>1. ~ (k <= k - 1) BY <3>1
        <4> HIDE DEF Bad
        <4>. QED BY <2>2, <4>1
      <3> DEFINE p == [i \in 1 .. k - 1 |-> seqs[i][1]]
      <3>3. R[k - 1] = p BY <3>1, <3>2
      <3>4. R[k] = p \o seqs[k] BY <1>2, <2>3, <3>1, <3>3
      <3>5. p \in Seq(S) /\ Len(p) = k - 1 /\ seqs[k] \in Seq(S) /\ Len(seqs[k]) = 1
        <4>1. \A i \in 1 .. k - 1 : seqs[i][1] \in S BY <1>1, <2>3, <3>1
        <4>2. k - 1 \in Nat BY <1>1, <3>1
        <4>3. p \in Seq(S) /\ Len(p) = k - 1 BY <4>1, <4>2, IsASeq
        <4>. QED BY <1>1, <2>3, <4>3
      <3>6. R[k] \in Seq(S) /\ Len(R[k]) = k
        <4>1. p \o seqs[k] \in Seq(S) /\ Len(p \o seqs[k]) = Len(p) + Len(seqs[k])
          BY <3>5, ConcatProperties
        <4>. QED BY <3>1, <3>4, <3>5, <4>1
      <3>7. ASSUME NEW i \in 1 .. k PROVE R[k][i] = seqs[i][1]
        <4>1. R[k][i] = IF i <= Len(p) THEN p[i] ELSE seqs[k][i - Len(p)]
          <5>1. i \in 1 .. Len(p) + Len(seqs[k]) BY <3>1, <3>5
          <5>. QED BY <3>4, <3>5, <5>1, ConcatProperties
        <4>. QED BY <3>1, <3>5, <4>1
      <3>8. R[k] = [i \in 1 .. k |-> R[k][i]] BY <3>6
      <3>9. R[k] = [i \in 1 .. k |-> seqs[i][1]] BY <3>7, <3>8
      <3>. QED BY <2>3, <3>9
    <2>. QED BY <2>4, <2>5
  <1>4. j \in 1 .. j
    BY <1>1
  <1>. QED BY <1>3, <1>4 DEF R

\* A sequence of single parts.
Singles(t) == [i \in DOMAIN t |-> <<t[i]>>]

\* What is flattened of sequences of one element are the elements.
LEMMA FlattenSingles ==
  ASSUME NEW S, NEW t \in Seq(S)
  PROVE  Lists!FlattenSeq(Singles(t)) = t
  <1> DEFINE one == Singles(t)
             n == Len(t)
  <1>1. n \in Nat /\ t = [i \in 1 .. n |-> t[i]] /\ \A i \in 1 .. n : t[i] \in S
    OBVIOUS
  <1>2. one = [i \in 1 .. n |-> <<t[i]>>] /\ Len(one) = n /\ one \in Seq(Seq(S))
    <2>1. one = [i \in 1 .. n |-> <<t[i]>>] BY <1>1 DEF Singles
    <2>2. \A i \in 1 .. n : <<t[i]>> \in Seq(S) BY <1>1
    <2>. QED BY <1>1, <2>1, <2>2, IsASeq
  <1>3. CASE n = 0
    <2>1. t = <<>> /\ Len(one) = 0 /\ one = <<>> BY <1>1, <1>2, <1>3
    <2>. QED BY <2>1 DEF Lists!FlattenSeq
  <1>4. CASE n /= 0
    <2>1. n \in 1 .. Len(one) /\ one /= <<>>
      <3>1. n \in Nat /\ Len(one) = n BY <1>1, <1>2
      <3> HIDE DEF one, n
      <3>. QED BY <1>4, <3>1
    <2>2. Lists!FlattenSeq(one) = Running(one)[n] BY <1>2, <2>1, FlattenIsRunning
    <2>3. \A i \in 1 .. n : Len(one[i]) = 1 /\ one[i][1] = t[i] BY <1>2
    <2>4. one \in Seq(Seq(S)) BY <1>2
    <2> HIDE DEF one
    <2>5. Running(one)[n] = [i \in 1 .. n |-> one[i][1]] BY <2>1, <2>3, <2>4, RunningSingles
    <2>6. Running(one)[n] = [i \in 1 .. n |-> t[i]] BY <2>3, <2>5
    <2>. QED BY <1>1, <2>2, <2>6 DEF one
  <1>. QED BY <1>3, <1>4

\* The annotations that are left of the first none, the first one, ... of some.
Firsts(remarks) ==
  CHOOSE f : f = [n \in 0 .. Len(remarks) |->
                    IF n = 0 THEN <<>> ELSE WithRemark(f[n - 1], remarks[n])]

\* There is such a function.
LEMMA FirstsExist ==
  ASSUME NEW remarks, Len(remarks) \in Nat
  PROVE  Firsts(remarks) =
           [n \in 0 .. Len(remarks) |->
              IF n = 0 THEN <<>> ELSE WithRemark(Firsts(remarks)[n - 1], remarks[n])]
  <1> DEFINE Upto(n, f) ==
               f = [i \in 0 .. n |-> IF i = 0 THEN <<>> ELSE WithRemark(f[i - 1], remarks[i])]
             Bad == {n \in Nat : ~ \E f : Upto(n, f)}
  <1>1. SUFFICES Bad = {}
    BY DEF Firsts
  <1>2. SUFFICES ASSUME Bad /= {} PROVE FALSE
    OBVIOUS
  <1>3. PICK n \in Bad : \A m \in Bad : n <= m
    <2>1. Bad \subseteq Nat OBVIOUS
    <2>. QED BY <1>2, <2>1, LeastOne
  <1>4. n /= 0
    <2>1. Upto(0, [i \in 0 .. 0 |-> <<>>])
      OBVIOUS
    <2>. QED BY <2>1
  <1>5. PICK f : Upto(n - 1, f)
    <2>1. n - 1 \in Nat /\ n - 1 < n BY <1>4
    <2>2. \A m \in Bad : n <= m BY <1>3
    <2>3. n \in Nat OBVIOUS
    <2> HIDE DEF Bad
    <2>4. n - 1 \notin Bad BY <2>1, <2>2, <2>3
    <2>. QED BY <2>1, <2>4 DEF Bad
  <1> DEFINE g == [i \in 0 .. n |-> IF i = n THEN WithRemark(f[n - 1], remarks[n]) ELSE f[i]]
  <1>6. ASSUME NEW i \in 0 .. n
        PROVE  g[i] = IF i = 0 THEN <<>> ELSE WithRemark(g[i - 1], remarks[i])
    <2>1. CASE i = n
      BY <1>4, <2>1
    <2>2. CASE i /= n
      <3>1. i \in 0 .. n - 1 BY <2>2
      <3>2. f[i] = IF i = 0 THEN <<>> ELSE WithRemark(f[i - 1], remarks[i])
        BY <1>5, <3>1
      <3>3. g[i] = f[i] BY <2>2
      <3>4. i /= 0 => g[i - 1] = f[i - 1] BY <3>1
      <3>. QED BY <3>2, <3>3, <3>4
    <2>. QED BY <2>1, <2>2
  <1>7. Upto(n, g)
    <2>1. g = [i \in 0 .. n |-> g[i]] OBVIOUS
    <2> HIDE DEF g
    <2>. QED BY <1>6, <2>1
  <1>. QED BY <1>3, <1>7

\* What is left of a sequence of annotations is one.
LEMMA NormalizedIsSeq ==
  ASSUME NEW S, NEW remarks \in Seq(S)
  PROVE  Normalized(remarks) \in Seq(S)
  <1> DEFINE n == Len(remarks)
             f == Firsts(remarks)
             Bad == {k \in 0 .. n : f[k] \notin Seq(S)}
  <1>1. n \in Nat /\ \A k \in 1 .. n : remarks[k] \in S
    OBVIOUS
  <1>2. Normalized(remarks) = f[n]
    BY DEF Normalized, Firsts
  <1>3. \A k \in 0 .. n : f[k] = IF k = 0 THEN <<>> ELSE WithRemark(f[k - 1], remarks[k])
    <2>1. f = [k \in 0 .. n |-> IF k = 0 THEN <<>> ELSE WithRemark(f[k - 1], remarks[k])]
      BY <1>1, FirstsExist
    <2> HIDE DEF f
    <2>. QED BY <2>1
  <1> HIDE DEF n, f
  <1>4. ASSUME Bad /= {} PROVE FALSE
    <2>1. Bad \subseteq Nat BY <1>1
    <2>2. PICK k \in Bad : \A m \in Bad : k <= m BY <1>4, <2>1, LeastOne
    <2>3. k \in 0 .. n /\ f[k] \notin Seq(S) BY <2>2
    <2>4. k /= 0
      <3>1. f[0] = <<>> BY <1>1, <1>3
      <3>. QED BY <2>3, <3>1, EmptySeq
    <2>5. k \in 1 .. n /\ k - 1 \in 0 .. n BY <1>1, <2>3, <2>4
    <2>6. k - 1 \notin Bad
      <3>1. ~ (k <= k - 1) BY <2>5
      <3> HIDE DEF Bad
      <3>. QED BY <2>2, <3>1
    <2>7. f[k - 1] \in Seq(S) BY <2>5, <2>6
    <2>8. f[k] = WithRemark(f[k - 1], remarks[k]) BY <1>3, <2>3, <2>4
    <2>9. f[k] \in Seq(S)
      <3>1. remarks[k] \in S BY <1>1, <2>5
      <3>2. Append(f[k - 1], remarks[k]) \in Seq(S) BY <2>7, <3>1, AppendProperties
      <3>. QED BY <2>7, <2>8, <3>2 DEF WithRemark
    <2>. QED BY <2>3, <2>9
  <1>5. f[n] \in Seq(S)
    BY <1>1, <1>4
  <1>. QED BY <1>2, <1>5

-----------------------------------------------------------------------------
(* Templates as texts in a code *)

\* The texts of the model, in prompts and in templates, and the names of slots.
Words ==
  {"role", "rules", "schema", "photo_type", "project_id", "note", "guidance", "annotations",
   "operator", "example", "contexts", "hints", "photos",
   "project", "invoice", "progress", "markdown", "common", "new", "title", "advice", "default",
   "without", "slot", "", "blank", "format", "R"}
  \cup {"p", "n", "g", "o", "r", "s", "c", "d", "h", "i", "k", "l", "m"}
SlotNames ==
  {"schema_block", "photo_type", "project_id", "note", "optional_sections",
   "project_prompt_text", "custom_prompt_instruction", "example_schema_json",
   "existing_ai_contexts_section", "preferred_ai_hints_section", "photo_metadata_lines",
   "custom_prompt", "photo_dataset_json", "unknown"}
Block == (Words \cup SlotNames) \X (Words \cup SlotNames)

\* The texts that a template may hold, and its slots.
Literals ==
  {<<what, text>> : what \in {"role", "rules"}, text \in Words}
  \cup {<<"operator", "title">>, <<"photos", "title">>}
SlotsNamed(names) == {<<"slot", v>> : v \in names}
Symbols(names) == Literals \cup SlotsNamed(names)

\* What a symbol of a template stands for in a prompt.
Meaning(names, values) ==
  [b \in Symbols(names) |-> IF IsSlot(b) THEN values[b[2]] ELSE <<b>>]

\* What a slot begins with tells which one it is.
Distinguished(names, values) ==
  /\ \A v \in names : values[v] \in Seq(Block) /\ values[v] /= <<>> /\ values[v][1] \notin Literals
  /\ \A v, w \in names : values[v][1] = values[w][1] => v = w

\* A text of a template is a block that stays as it is.
LEMMA LiteralIsBlock ==
  \A b \in Literals : b \in Block /\ ~IsSlot(b)
  <1> SUFFICES ASSUME NEW b \in Literals PROVE b \in Block /\ ~IsSlot(b)
    OBVIOUS
  <1>1. CASE b = <<"operator", "title">>
    BY <1>1 DEF Block, Words, IsSlot
  <1>2. CASE b = <<"photos", "title">>
    BY <1>2 DEF Block, Words, IsSlot
  <1>3. ASSUME NEW what \in {"role", "rules"}, NEW text \in Words, b = <<what, text>>
        PROVE  b \in Block /\ ~IsSlot(b)
    <2>1. what \in Words /\ what /= "slot" BY DEF Words
    <2>2. b[1] = what BY <1>3
    <2>. QED BY <1>3, <2>1, <2>2 DEF Block, IsSlot
  <1>. QED BY <1>1, <1>2, <1>3 DEF Literals

\* A slot is a block that is replaced.
LEMMA SlotIsBlock ==
  ASSUME NEW names, names \subseteq SlotNames, NEW b \in SlotsNamed(names)
  PROVE  IsSlot(b) /\ b[2] \in names /\ b = <<"slot", b[2]>> /\ b \in Block
  <1>1. PICK v \in names : b = <<"slot", v>>
    BY DEF SlotsNamed
  <1>2. v \in SlotNames /\ b[1] = "slot" /\ b[2] = v /\ "slot" \in Words
    BY <1>1 DEF Words
  <1>. QED BY <1>1, <1>2 DEF Block, IsSlot

\* What symbols stand for is a code that tells them by their first block.
LEMMA MeaningIsCode ==
  ASSUME NEW names, names \subseteq SlotNames, NEW values, Distinguished(names, values)
  PROVE  Code(Block, Symbols(names), Meaning(names, values))
  <1> DEFINE F == Meaning(names, values)
             K == Symbols(names)
  <1>1. ASSUME NEW b \in Literals
        PROVE  b \in K /\ F[b] = <<b>> /\ F[b] \in Seq(Block) /\ F[b] /= <<>> /\ F[b][1] = b
    <2>1. b \in K /\ F[b] = <<b>> BY LiteralIsBlock DEF Meaning, Symbols
    <2>2. b \in Block BY LiteralIsBlock
    <2> HIDE DEF F, K
    <2>. QED BY <2>1, <2>2
  <1>2. ASSUME NEW b \in SlotsNamed(names)
        PROVE  /\ b \in K /\ F[b] = values[b[2]] /\ b[2] \in names
               /\ F[b] \in Seq(Block) /\ F[b] /= <<>> /\ F[b][1] \notin Literals
    <2>1. b \in K /\ F[b] = values[b[2]] /\ b[2] \in names BY SlotIsBlock DEF Meaning, Symbols
    <2>. QED BY <2>1 DEF Distinguished
  <1>3. DOMAIN F = K /\ F = [b \in K |-> F[b]]
    BY DEF Meaning
  <1>4. \A b \in K : b \in Literals \/ b \in SlotsNamed(names)
    BY DEF Symbols
  <1> HIDE DEF F, K
  <1>5. \A b \in K : F[b] \in Seq(Block) /\ F[b] /= <<>>
    BY <1>1, <1>2, <1>4
  <1>6. ASSUME NEW b \in K, NEW c \in K, F[b][1] = F[c][1]
        PROVE  b = c
    <2>1. CASE b \in Literals /\ c \in Literals
      BY <1>1, <1>6, <2>1
    <2>2. CASE b \in Literals /\ c \in SlotsNamed(names)
      BY <1>1, <1>2, <1>6, <2>2
    <2>3. CASE b \in SlotsNamed(names) /\ c \in Literals
      BY <1>1, <1>2, <1>6, <2>3
    <2>4. CASE b \in SlotsNamed(names) /\ c \in SlotsNamed(names)
      <3>1. values[b[2]][1] = values[c[2]][1] /\ b[2] \in names /\ c[2] \in names
        BY <1>2, <1>6, <2>4
      <3>2. b[2] = c[2] BY <3>1 DEF Distinguished
      <3>3. b = <<"slot", b[2]>> /\ c = <<"slot", c[2]>> BY <2>4, SlotIsBlock
      <3>. QED BY <3>2, <3>3
    <2>. QED BY <1>4, <2>1, <2>2, <2>3, <2>4
  <1>7. F \in [K -> Seq(Block)]
    BY <1>3, <1>5
  <1>8. Code(Block, K, F)
    BY <1>5, <1>6, <1>7 DEF Code
  <1>. QED BY <1>8 DEF F, K

\* A filled template is its text in that code.
LEMMA FilledIsEach ==
  ASSUME NEW names, NEW values, NEW template \in Seq(Symbols(names))
  PROVE  Filled(template, values) = Lists!FlattenSeq(Each(Meaning(names, values), template))
  <1>1. \A i \in DOMAIN template : template[i] \in Symbols(names)
    OBVIOUS
  <1>2. \A i \in DOMAIN template : Meaning(names, values)[template[i]] =
          IF IsSlot(template[i]) THEN values[template[i][2]] ELSE <<template[i]>>
    BY <1>1 DEF Meaning
  <1>3. Each(Meaning(names, values), template) =
          [i \in DOMAIN template |->
             IF IsSlot(template[i]) THEN values[template[i][2]] ELSE <<template[i]>>]
    BY <1>2 DEF Each
  <1>. QED BY <1>3 DEF Filled

\* Two templates that give the same prompt are the same.
LEMMA OneTemplate ==
  ASSUME NEW names, names \subseteq SlotNames, NEW values, Distinguished(names, values),
         NEW s \in Seq(Symbols(names)), NEW t \in Seq(Symbols(names)), s /= <<>>, t /= <<>>,
         Filled(s, values) = Filled(t, values)
  PROVE  s = t
  <1> DEFINE K == Symbols(names)
             F == Meaning(names, values)
  <1>1. Code(Block, K, F)
    BY MeaningIsCode
  <1>2. Lists!FlattenSeq(Each(F, s)) = Lists!FlattenSeq(Each(F, t))
    BY FilledIsEach
  <1> HIDE DEF K, F
  <1>3. s \in Seq(K) /\ t \in Seq(K)
    BY DEF K
  <1>. QED BY <1>1, <1>2, <1>3, Decode

-----------------------------------------------------------------------------
(* The templates of the migrations give the prompts of the code *)

\* Two words are a block.
LEMMA PairIsBlock ==
  ASSUME NEW what \in Words, NEW text \in Words
  PROVE  <<what, text>> \in Block
  BY DEF Block

\* One block is a sequence.
LEMMA SingleIsSeq ==
  ASSUME NEW S, NEW b \in S
  PROVE  <<b>> \in Seq(S) /\ Len(<<b>>) = 1 /\ <<b>>[1] = b
  OBVIOUS

\* Texts that are about one thing, as blocks.
LEMMA BlocksAreSeq ==
  ASSUME NEW what \in Words, NEW texts \in Seq(Words)
  PROVE  /\ Blocks(what, texts) \in Seq(Block) /\ Len(Blocks(what, texts)) = Len(texts)
         /\ \A i \in 1 .. Len(texts) : Blocks(what, texts)[i] = <<what, texts[i]>>
  <1>1. Len(texts) \in Nat /\ DOMAIN texts = 1 .. Len(texts) /\ \A i \in 1 .. Len(texts) : texts[i] \in Words
    OBVIOUS
  <1>2. Blocks(what, texts) = [i \in 1 .. Len(texts) |-> <<what, texts[i]>>]
    BY <1>1 DEF Blocks
  <1>3. \A i \in 1 .. Len(texts) : <<what, texts[i]>> \in Block
    BY <1>1, PairIsBlock
  <1>. QED BY <1>1, <1>2, <1>3, IsASeq

\* A section begins with its title.
LEMMA SectionIsSeq ==
  ASSUME NEW what \in Words, NEW texts \in Seq(Words)
  PROVE  /\ Section(what, texts) \in Seq(Block)
         /\ texts /= <<>> => Len(Section(what, texts)) > 0 /\ Section(what, texts)[1] = <<what, "title">>
  <1> DEFINE title == <<<<what, "title">>>>
             advice == <<<<what, "advice">>>>
             body == Blocks(what, texts)
  <1>1. title \in Seq(Block) /\ advice \in Seq(Block) /\ body \in Seq(Block)
    <2>1. <<what, "title">> \in Block /\ <<what, "advice">> \in Block
      BY PairIsBlock DEF Words
    <2>. QED BY <2>1, BlocksAreSeq
  <1>2. Len(title) = 1 /\ Len(advice) = 1 /\ title[1] = <<what, "title">>
    OBVIOUS
  <1>3. Section(what, texts) = IF texts = <<>> THEN <<>> ELSE title \o body \o advice
    BY DEF Section
  <1> HIDE DEF title, advice, body
  <1>4. /\ title \o body \in Seq(Block) /\ Len(title \o body) \in Nat /\ Len(title \o body) >= 1
        /\ (title \o body)[1] = title[1]
    BY <1>1, <1>2, ConcatProperties, ConcatLonger
  <1>5. /\ title \o body \o advice \in Seq(Block) /\ Len(title \o body \o advice) > 0
        /\ (title \o body \o advice)[1] = title[1]
    BY <1>1, <1>2, <1>4, ConcatProperties, ConcatLonger
  <1>. QED BY <1>2, <1>3, <1>5, EmptySeq

\* A text, stripped or sanitized, is one of the model.
LEMMA OneIsSeq ==
  ASSUME NEW text \in Words
  PROVE  /\ One(text) \in Seq(Words) /\ (text /= "" => One(text) /= <<>>)
         /\ Strip(text) \in Words /\ Sanitized(text) \in Words
  <1>1. "" \in Words BY DEF Words
  <1>2. <<text>> \in Seq(Words) /\ <<text>> /= <<>> OBVIOUS
  <1>. QED BY <1>1, <1>2, EmptySeq DEF One, Strip, Sanitized

\* What a photo, or the frame of a video, is analysed with.
PhotoInput(in) ==
  in \in [site : Words, note : Words, guidance : Words, operator : Words, remarks : Seq(Words)]

\* The optional sections of a photo begin with the guidance, if there is any.
LEMMA OptionalIsSeq ==
  ASSUME NEW in, PhotoInput(in)
  PROVE  /\ Section("guidance", One(Sanitized(in.guidance))) \in Seq(Block)
         /\ Section("annotations", Normalized(in.remarks)) \in Seq(Block)
         /\ Section("operator", One(Strip(in.operator))) \in Seq(Block)
         /\ OptionalSections(in) \in Seq(Block)
         /\ Sanitized(in.guidance) /= "" => Len(OptionalSections(in)) > 0 /\ OptionalSections(in)[1] = <<"guidance", "title">>
  <1> DEFINE g == Section("guidance", One(Sanitized(in.guidance)))
             a == Section("annotations", Normalized(in.remarks))
             o == Section("operator", One(Strip(in.operator)))
  <1>1. "guidance" \in Words /\ "annotations" \in Words /\ "operator" \in Words
    BY DEF Words
  <1>2. in.guidance \in Words /\ in.operator \in Words /\ in.remarks \in Seq(Words)
    BY DEF PhotoInput
  <1>3. /\ One(Sanitized(in.guidance)) \in Seq(Words) /\ One(Strip(in.operator)) \in Seq(Words)
        /\ Sanitized(in.guidance) /= "" => One(Sanitized(in.guidance)) /= <<>>
    BY <1>2, OneIsSeq
  <1>4. Normalized(in.remarks) \in Seq(Words)
    BY <1>2, NormalizedIsSeq
  <1>5. g \in Seq(Block) /\ a \in Seq(Block) /\ o \in Seq(Block)
    BY <1>1, <1>3, <1>4, SectionIsSeq
  <1>6. Sanitized(in.guidance) /= "" => Len(g) > 0 /\ g[1] = <<"guidance", "title">>
    BY <1>1, <1>3, SectionIsSeq
  <1>7. OptionalSections(in) = g \o a \o o
    BY DEF OptionalSections
  <1> HIDE DEF g, a, o
  <1>8. g \o a \in Seq(Block) /\ g \o a \o o \in Seq(Block)
    BY <1>5, ConcatProperties
  <1>9. /\ Len(g) \in Nat /\ Len(g \o a) \in Nat
        /\ Len(g) > 0 => Len(g \o a) > 0 /\ (g \o a)[1] = g[1]
        /\ Len(g \o a) > 0 => Len(g \o a \o o) > 0 /\ (g \o a \o o)[1] = (g \o a)[1]
    BY <1>5, <1>8, ConcatLonger
  <1>10. Sanitized(in.guidance) /= "" => Len(g \o a \o o) > 0 /\ (g \o a \o o)[1] = <<"guidance", "title">>
    BY <1>6, <1>9
  <1>. QED BY <1>5, <1>7, <1>8, <1>10 DEF g, a, o

\* A prompt is what comes before the optional sections, and each of them.
LEMMA AllTogether ==
  ASSUME NEW S, NEW h \in Seq(S), NEW g \in Seq(S), NEW a \in Seq(S), NEW o \in Seq(S)
  PROVE  h \o (g \o a \o o) = h \o g \o a \o o
  <1>1. g \o a \in Seq(S)
    BY ConcatProperties
  <1>2. (h \o g) \o a = h \o (g \o a)
    BY ConcatAssociative, SMTT(60)
  <1>3. (h \o (g \o a)) \o o = h \o ((g \o a) \o o)
    BY <1>1, ConcatAssociative, SMTT(60)
  <1>. QED BY <1>2, <1>3

\* The template of the migrations for photos gives the prompt of the code.
LEMMA PhotoFilled ==
  ASSUME NEW surface, NEW in, PhotoInput(in)
  PROVE  Filled(PhotoTemplate(PhotoType(surface)), PhotoSlots(surface, in))
           = ContextPrompt(PhotoType(surface), in)
  <1> DEFINE type == PhotoType(surface)
             t == PhotoTemplate(type)
             values == PhotoSlots(surface, in)
             seqs == [i \in DOMAIN t |-> IF IsSlot(t[i]) THEN values[t[i][2]] ELSE <<t[i]>>]
             last == OptionalSections(in)
             head == <<<<"role", type>>, <<"schema", type>>, <<"rules", type>>, <<"rules", "common">>,
                       <<"photo_type", type>>, <<"project_id", in.site>>, <<"note", Strip(in.note)>>>>
  <1>1. type \in Words /\ in.site \in Words /\ Strip(in.note) \in Words
    BY OneIsSeq DEF PhotoType, PhotoInput, Words
  <1>2. /\ values.schema_block = <<<<"schema", type>>>> /\ values.photo_type = <<<<"photo_type", type>>>>
        /\ values.project_id = <<<<"project_id", in.site>>>> /\ values.note = <<<<"note", Strip(in.note)>>>>
        /\ values.optional_sections = last
    BY DEF PhotoSlots
  <1>3. Filled(t, values) = Lists!FlattenSeq(seqs)
    BY DEF Filled
  <1> HIDE DEF type, values, last
  <1>4. /\ DOMAIN t = 1 .. 8 /\ Len(t) = 8
        /\ t[1] = <<"role", type>> /\ t[2] = <<"slot", "schema_block">> /\ t[3] = <<"rules", type>>
        /\ t[4] = <<"rules", "common">> /\ t[5] = <<"slot", "photo_type">>
        /\ t[6] = <<"slot", "project_id">> /\ t[7] = <<"slot", "note">>
        /\ t[8] = <<"slot", "optional_sections">>
    BY DEF PhotoTemplate
  <1> HIDE DEF t
  <1>5. seqs = [i \in 1 .. 8 |-> seqs[i]]
    BY <1>4
  <1>6. /\ seqs[1] = <<<<"role", type>>>> /\ seqs[2] = <<<<"schema", type>>>> /\ seqs[3] = <<<<"rules", type>>>>
        /\ seqs[4] = <<<<"rules", "common">>>> /\ seqs[5] = <<<<"photo_type", type>>>>
        /\ seqs[6] = <<<<"project_id", in.site>>>> /\ seqs[7] = <<<<"note", Strip(in.note)>>>>
        /\ seqs[8] = last
    BY <1>2, <1>4 DEF IsSlot
  <1> HIDE DEF seqs
  <1>7. last \in Seq(Block)
    BY OptionalIsSeq DEF last
  <1>8. /\ <<"role", type>> \in Block /\ <<"schema", type>> \in Block /\ <<"rules", type>> \in Block
        /\ <<"rules", "common">> \in Block /\ <<"photo_type", type>> \in Block
        /\ <<"project_id", in.site>> \in Block /\ <<"note", Strip(in.note)>> \in Block
    <2>1. /\ "role" \in Words /\ "schema" \in Words /\ "rules" \in Words /\ "common" \in Words
          /\ "photo_type" \in Words /\ "project_id" \in Words /\ "note" \in Words
      BY DEF Words
    <2>. QED BY <1>1, <2>1, PairIsBlock
  <1>9. \A i \in 1 .. 7 : seqs[i] \in Seq(Block) /\ Len(seqs[i]) = 1
    <2>1. \A b \in Block : <<b>> \in Seq(Block) /\ Len(<<b>>) = 1 OBVIOUS
    <2>2. \A i \in 1 .. 7 : \E b \in Block : seqs[i] = <<b>>
      <3> SUFFICES ASSUME NEW i \in 1 .. 7 PROVE \E b \in Block : seqs[i] = <<b>>
        OBVIOUS
      <3>1. i = 1 \/ i = 2 \/ i = 3 \/ i = 4 \/ i = 5 \/ i = 6 \/ i = 7 OBVIOUS
      <3>. QED BY <1>6, <1>8, <3>1
    <2>. QED BY <2>1, <2>2
  <1>10. seqs \in Seq(Seq(Block)) /\ Len(seqs) = 8
    <2>1. \A i \in 1 .. 8 : seqs[i] \in Seq(Block) BY <1>6, <1>7, <1>9
    <2>. QED BY <1>5, <2>1, IsASeq
  <1>11. Running(seqs)[7] = head
    <2>1. Running(seqs)[7] = [i \in 1 .. 7 |-> seqs[i][1]]
      <3>1. 7 \in 1 .. Len(seqs) BY <1>10
      <3>. QED BY <1>9, <1>10, <3>1, RunningSingles, ZenonT(30)
    <2>. QED BY <1>6, <2>1, SMTT(30)
  <1>12. Lists!FlattenSeq(seqs) = head \o last
    <2>0. 8 \in 1 .. Len(seqs) /\ seqs /= <<>> /\ 8 > 1 /\ 8 - 1 = 7 BY <1>10, SMTT(30)
    <2>1. Lists!FlattenSeq(seqs) = Running(seqs)[8] BY <1>10, <2>0, FlattenIsRunning
    <2>2. Running(seqs)[8] = Running(seqs)[7] \o seqs[8] BY <1>10, <2>0, RunningSteps, ZenonT(30)
    <2>. QED BY <1>6, <1>11, <2>1, <2>2
  <1> DEFINE g == Section("guidance", One(Sanitized(in.guidance)))
             a == Section("annotations", Normalized(in.remarks))
             o == Section("operator", One(Strip(in.operator)))
  <1>13. ContextPrompt(type, in) = head \o g \o a \o o
    BY DEF ContextPrompt
  <1>14. last = g \o a \o o /\ g \in Seq(Block) /\ a \in Seq(Block) /\ o \in Seq(Block)
    BY OptionalIsSeq DEF last, OptionalSections
  <1>15. head \in Seq(Block)
    BY <1>8
  <1> HIDE DEF head, g, a, o
  <1>16. head \o (g \o a \o o) = head \o g \o a \o o
    <2>1. g \in Seq(Block) /\ a \in Seq(Block) /\ o \in Seq(Block)
      BY <1>14
    <2>. QED BY <1>15, <2>1, AllTogether, SMTT(60)
  <1>. QED BY <1>3, <1>12, <1>13, <1>14, <1>16 DEF type, t, values

\* All of them say something.
Spoken(texts) == \A i \in DOMAIN texts : Strip(texts[i]) /= ""

\* No context is dropped when all of them say something.
LEMMA ContextSectionIsAll ==
  ASSUME NEW what \in Words, NEW texts \in Seq(Words), Spoken(texts)
  PROVE  /\ ContextSection(what, texts) =
              IF texts = <<>> THEN <<>> ELSE <<<<what, "title">>>> \o Blocks(what, texts)
         /\ ContextSection(what, texts) \in Seq(Block)
         /\ texts /= <<>> => /\ Len(ContextSection(what, texts)) > 0
                            /\ ContextSection(what, texts)[1] = <<what, "title">>
  <1> DEFINE title == <<<<what, "title">>>>
             body == Blocks(what, texts)
  <1>1. [i \in DOMAIN texts |-> One(Strip(texts[i]))] = Singles(texts)
    <2>1. \A i \in DOMAIN texts : One(Strip(texts[i])) = <<texts[i]>>
      BY DEF Strip, One, Spoken
    <2>. QED BY <2>1 DEF Singles
  <1>2. Lists!FlattenSeq([i \in DOMAIN texts |-> One(Strip(texts[i]))]) = texts
    BY <1>1, FlattenSingles
  <1>3. ContextSection(what, texts) = IF texts = <<>> THEN <<>> ELSE title \o body
    BY <1>2 DEF ContextSection
  <1>4. title \in Seq(Block) /\ body \in Seq(Block)
    <2>1. <<what, "title">> \in Block
      BY PairIsBlock DEF Words
    <2>2. title \in Seq(Block) BY <2>1, SingleIsSeq
    <2>. QED BY <2>2, BlocksAreSeq
  <1>5. Len(title) = 1 /\ title[1] = <<what, "title">>
    OBVIOUS
  <1>6. title \o body \in Seq(Block) /\ Len(title \o body) > 0 /\ (title \o body)[1] = <<what, "title">>
    <2> HIDE DEF title, body
    <2>1. Len(title \o body) = Len(title) + Len(body) /\ Len(body) \in Nat /\ \A k \in 1 .. Len(title) : (title \o body)[k] = title[k]
      BY <1>4, ConcatLonger
    <2>2. title \o body \in Seq(Block) BY <1>4, ConcatProperties
    <2>0. Len(title) = 1 BY <1>5
    <2>3. 1 \in 1 .. Len(title) BY <2>0
    <2>4. (title \o body)[1] = title[1] BY <2>1, <2>3
    <2>5. Len(title \o body) > 0 BY <2>0, <2>1
    <2>. QED BY <1>5, <2>2, <2>4, <2>5
  <1>7. <<>> \in Seq(Block)
    BY EmptySeq
  <1> HIDE DEF title, body
  <1>8. CASE texts = <<>>
    BY <1>3, <1>7, <1>8 DEF title, body
  <1>9. CASE texts /= <<>>
    BY <1>3, <1>6, <1>9 DEF title, body
  <1>. QED BY <1>8, <1>9

\* What a progress report is written from.  What photos say is never blank.
ProgressInput(in) ==
  /\ in \in [guidance : Words, operator : Words, contexts : Seq(Words), hints : Seq(Words),
              photos : Seq(Words)]
  /\ in.photos /= <<>>
  /\ Spoken(in.contexts) /\ Spoken(in.hints)

\* The one for progress reports does.
LEMMA ProgressFilled ==
  ASSUME NEW in, ProgressInput(in)
  PROVE  Filled(ProgressTemplate, ProgressSlots(in)) = ProgressPrompt(in)
  <1> DEFINE guidance == IF Strip(in.guidance) = "" THEN "default" ELSE in.guidance
             operator == IF Strip(in.operator) = "" THEN "without" ELSE in.operator
             contexts == ContextSection("contexts", in.contexts)
             hints == ContextSection("hints", in.hints)
             photos == Blocks("photos", in.photos)
             t == ProgressTemplate
             values == ProgressSlots(in)
             seqs == [i \in DOMAIN t |-> IF IsSlot(t[i]) THEN values[t[i][2]] ELSE <<t[i]>>]
             head == <<<<"role", "progress">>, <<"guidance", guidance>>, <<"operator", operator>>,
                       <<"rules", "progress">>, <<"example", in.photos[1]>>>>
             title == <<<<"photos", "title">>>>
  <1>1. /\ in.guidance \in Words /\ in.operator \in Words /\ in.contexts \in Seq(Words)
        /\ in.hints \in Seq(Words) /\ in.photos \in Seq(Words) /\ in.photos /= <<>>
        /\ in.photos[1] \in Words
    <2>1. in.photos \in Seq(Words) /\ in.photos /= <<>> BY DEF ProgressInput
    <2>2. in.photos[1] \in Words BY <2>1
    <2>. QED BY <2>1, <2>2 DEF ProgressInput
  <1>2. guidance \in Words /\ operator \in Words
    BY <1>1, ZenonT(30) DEF Words
  <1>3. /\ "role" \in Words /\ "progress" \in Words /\ "guidance" \in Words /\ "operator" \in Words
        /\ "rules" \in Words /\ "example" \in Words /\ "contexts" \in Words /\ "hints" \in Words
        /\ "photos" \in Words /\ "title" \in Words
    BY DEF Words
  <1>4. contexts = (IF in.contexts = <<>> THEN <<>> ELSE <<<<"contexts", "title">>>> \o Blocks("contexts", in.contexts))
        /\ contexts \in Seq(Block)
    BY <1>1, <1>3, ContextSectionIsAll DEF ProgressInput
  <1>5. hints = (IF in.hints = <<>> THEN <<>> ELSE <<<<"hints", "title">>>> \o Blocks("hints", in.hints))
        /\ hints \in Seq(Block)
    BY <1>1, <1>3, ContextSectionIsAll DEF ProgressInput
  <1>6. photos \in Seq(Block)
    BY <1>1, <1>3, BlocksAreSeq
  <1>7. ProgressPrompt(in) = head \o contexts \o hints \o title \o photos
    BY <1>4, <1>5 DEF ProgressPrompt
  <1>8. /\ values.project_prompt_text = <<<<"guidance", guidance>>>>
        /\ values.custom_prompt_instruction = <<<<"operator", operator>>>>
        /\ values.example_schema_json = <<<<"example", in.photos[1]>>>>
        /\ values.existing_ai_contexts_section = contexts
        /\ values.preferred_ai_hints_section = hints
        /\ values.photo_metadata_lines = photos
    BY DEF ProgressSlots
  <1>9. Filled(t, values) = Lists!FlattenSeq(seqs)
    BY DEF Filled
  <1> HIDE DEF guidance, operator, values, contexts, hints, photos
  <1>10. /\ DOMAIN t = 1 .. 9
         /\ t[1] = <<"role", "progress">> /\ t[2] = <<"slot", "project_prompt_text">>
         /\ t[3] = <<"slot", "custom_prompt_instruction">> /\ t[4] = <<"rules", "progress">>
         /\ t[5] = <<"slot", "example_schema_json">> /\ t[6] = <<"slot", "existing_ai_contexts_section">>
         /\ t[7] = <<"slot", "preferred_ai_hints_section">> /\ t[8] = <<"photos", "title">>
         /\ t[9] = <<"slot", "photo_metadata_lines">>
    BY DEF ProgressTemplate
  <1> HIDE DEF t
  <1>11. seqs = [i \in 1 .. 9 |-> seqs[i]]
    BY <1>10
  <1>12. /\ seqs[1] = <<<<"role", "progress">>>> /\ seqs[2] = <<<<"guidance", guidance>>>>
         /\ seqs[3] = <<<<"operator", operator>>>> /\ seqs[4] = <<<<"rules", "progress">>>>
         /\ seqs[5] = <<<<"example", in.photos[1]>>>> /\ seqs[6] = contexts /\ seqs[7] = hints
         /\ seqs[8] = title /\ seqs[9] = photos
    BY <1>8, <1>10 DEF IsSlot
  <1> HIDE DEF seqs
  <1>13. /\ <<"role", "progress">> \in Block /\ <<"guidance", guidance>> \in Block
         /\ <<"operator", operator>> \in Block /\ <<"rules", "progress">> \in Block
         /\ <<"example", in.photos[1]>> \in Block /\ <<"photos", "title">> \in Block
    BY <1>1, <1>2, <1>3, PairIsBlock
  <1>14. \A i \in 1 .. 5 : seqs[i] \in Seq(Block) /\ Len(seqs[i]) = 1
    <2>1. \A b \in Block : <<b>> \in Seq(Block) /\ Len(<<b>>) = 1 OBVIOUS
    <2>2. \A i \in 1 .. 5 : \E b \in Block : seqs[i] = <<b>>
      <3> SUFFICES ASSUME NEW i \in 1 .. 5 PROVE \E b \in Block : seqs[i] = <<b>>
        OBVIOUS
      <3>1. i = 1 \/ i = 2 \/ i = 3 \/ i = 4 \/ i = 5 OBVIOUS
      <3>. QED BY <1>12, <1>13, <3>1
    <2>. QED BY <2>1, <2>2
  <1>15. seqs \in Seq(Seq(Block)) /\ Len(seqs) = 9
    <2>1. title \in Seq(Block) BY <1>13
    <2>2. \A i \in 1 .. 9 : seqs[i] \in Seq(Block)
      <3>1. seqs[6] \in Seq(Block) BY <1>4, <1>12
      <3>2. seqs[7] \in Seq(Block) BY <1>5, <1>12
      <3>3. seqs[8] \in Seq(Block) BY <1>12, <2>1
      <3>4. seqs[9] \in Seq(Block) BY <1>6, <1>12
      <3>5. \A i \in 1 .. 9 : i \in 1 .. 5 \/ i = 6 \/ i = 7 \/ i = 8 \/ i = 9 OBVIOUS
      <3>. QED BY <1>14, <3>1, <3>2, <3>3, <3>4, <3>5
    <2>. QED BY <1>11, <2>2, IsASeq
  <1>16. Running(seqs)[5] = head
    <2>1. 5 \in 1 .. Len(seqs) BY <1>15
    <2>2. Running(seqs)[5] = [i \in 1 .. 5 |-> seqs[i][1]]
      BY <1>14, <1>15, <2>1, RunningSingles
    <2>. QED BY <1>12, <2>2
  <1> HIDE DEF head, title
  <1>17. Lists!FlattenSeq(seqs) = head \o contexts \o hints \o title \o photos
    <2>1. seqs /= <<>> /\ \A i \in 6 .. 9 : i \in 1 .. Len(seqs) /\ i > 1 BY <1>15
    <2>2. Lists!FlattenSeq(seqs) = Running(seqs)[9] BY <1>15, <2>1, FlattenIsRunning
    <2>3. \A i \in 6 .. 9 : Running(seqs)[i] = Running(seqs)[i - 1] \o seqs[i]
      BY <1>15, <2>1, RunningSteps
    <2>4. /\ Running(seqs)[6] = Running(seqs)[5] \o seqs[6] /\ Running(seqs)[7] = Running(seqs)[6] \o seqs[7]
          /\ Running(seqs)[8] = Running(seqs)[7] \o seqs[8] /\ Running(seqs)[9] = Running(seqs)[8] \o seqs[9]
      <3>1. /\ 6 \in 6 .. 9 /\ 7 \in 6 .. 9 /\ 8 \in 6 .. 9 /\ 9 \in 6 .. 9
            /\ 6 - 1 = 5 /\ 7 - 1 = 6 /\ 8 - 1 = 7 /\ 9 - 1 = 8
        OBVIOUS
      <3>2. Running(seqs)[6] = Running(seqs)[5] \o seqs[6] BY <2>3, <3>1
      <3>3. Running(seqs)[7] = Running(seqs)[6] \o seqs[7] BY <2>3, <3>1
      <3>4. Running(seqs)[8] = Running(seqs)[7] \o seqs[8] BY <2>3, <3>1
      <3>5. Running(seqs)[9] = Running(seqs)[8] \o seqs[9] BY <2>3, <3>1
      <3>. QED BY <3>2, <3>3, <3>4, <3>5
    <2>. QED BY <1>12, <1>16, <2>2, <2>4
  <1>. QED BY <1>7, <1>9, <1>17 DEF t, values

MarkdownInput(in) == in \in [operator : Words, photos : Seq(Words)]

\* And the one for reports in Markdown.
LEMMA MarkdownFilled ==
  ASSUME NEW in, MarkdownInput(in)
  PROVE  Filled(MarkdownTemplate, MarkdownSlots(in)) = MarkdownPrompt(in)
  <1> DEFINE operator == Strip(in.operator)
             photos == Blocks("photos", in.photos)
             t == MarkdownTemplate
             values == MarkdownSlots(in)
             seqs == [i \in DOMAIN t |-> IF IsSlot(t[i]) THEN values[t[i][2]] ELSE <<t[i]>>]
             head == <<<<"role", "markdown">>, <<"rules", "markdown">>, <<"operator", "title">>,
                       <<"operator", operator>>, <<"photos", "title">>>>
  <1>1. operator \in Words /\ in.photos \in Seq(Words)
    BY OneIsSeq DEF MarkdownInput
  <1>2. /\ "role" \in Words /\ "markdown" \in Words /\ "rules" \in Words /\ "operator" \in Words
        /\ "photos" \in Words /\ "title" \in Words
    BY DEF Words
  <1>3. photos \in Seq(Block)
    BY <1>1, <1>2, BlocksAreSeq
  <1>4. MarkdownPrompt(in) = head \o photos
    BY DEF MarkdownPrompt
  <1>5. values.custom_prompt = <<<<"operator", operator>>>> /\ values.photo_dataset_json = photos
    BY DEF MarkdownSlots
  <1>6. Filled(t, values) = Lists!FlattenSeq(seqs)
    BY DEF Filled
  <1> HIDE DEF operator, values, photos
  <1>7. /\ DOMAIN t = 1 .. 6
        /\ t[1] = <<"role", "markdown">> /\ t[2] = <<"rules", "markdown">> /\ t[3] = <<"operator", "title">>
        /\ t[4] = <<"slot", "custom_prompt">> /\ t[5] = <<"photos", "title">>
        /\ t[6] = <<"slot", "photo_dataset_json">>
    BY DEF MarkdownTemplate
  <1> HIDE DEF t
  <1>8. seqs = [i \in 1 .. 6 |-> seqs[i]]
    BY <1>7
  <1>9. /\ seqs[1] = <<<<"role", "markdown">>>> /\ seqs[2] = <<<<"rules", "markdown">>>>
        /\ seqs[3] = <<<<"operator", "title">>>> /\ seqs[4] = <<<<"operator", operator>>>>
        /\ seqs[5] = <<<<"photos", "title">>>> /\ seqs[6] = photos
    BY <1>5, <1>7 DEF IsSlot
  <1> HIDE DEF seqs
  <1>10. /\ <<"role", "markdown">> \in Block /\ <<"rules", "markdown">> \in Block
         /\ <<"operator", "title">> \in Block /\ <<"operator", operator>> \in Block
         /\ <<"photos", "title">> \in Block
    BY <1>1, <1>2, PairIsBlock
  <1>11. \A i \in 1 .. 5 : seqs[i] \in Seq(Block) /\ Len(seqs[i]) = 1
    <2>1. \A b \in Block : <<b>> \in Seq(Block) /\ Len(<<b>>) = 1 OBVIOUS
    <2>2. \A i \in 1 .. 5 : \E b \in Block : seqs[i] = <<b>>
      <3> SUFFICES ASSUME NEW i \in 1 .. 5 PROVE \E b \in Block : seqs[i] = <<b>>
        OBVIOUS
      <3>1. i = 1 \/ i = 2 \/ i = 3 \/ i = 4 \/ i = 5 OBVIOUS
      <3>. QED BY <1>9, <1>10, <3>1
    <2>. QED BY <2>1, <2>2
  <1>12. seqs \in Seq(Seq(Block)) /\ Len(seqs) = 6
    <2>1. \A i \in 1 .. 6 : seqs[i] \in Seq(Block) BY <1>3, <1>9, <1>11
    <2>. QED BY <1>8, <2>1, IsASeq
  <1>13. Running(seqs)[5] = head
    <2>1. 5 \in 1 .. Len(seqs) BY <1>12
    <2>2. Running(seqs)[5] = [i \in 1 .. 5 |-> seqs[i][1]]
      BY <1>11, <1>12, <2>1, RunningSingles
    <2>. QED BY <1>9, <2>2
  <1>14. Lists!FlattenSeq(seqs) = head \o photos
    <2>1. 6 \in 1 .. Len(seqs) /\ seqs /= <<>> /\ 6 > 1 /\ 6 - 1 = 5 BY <1>12
    <2>2. Lists!FlattenSeq(seqs) = Running(seqs)[6] BY <1>12, <2>1, FlattenIsRunning
    <2>3. Running(seqs)[6] = Running(seqs)[5] \o seqs[6] BY <1>12, <2>1, RunningSteps
    <2>. QED BY <1>9, <1>13, <2>2, <2>3
  <1>. QED BY <1>4, <1>6, <1>14 DEF t, values

-----------------------------------------------------------------------------
(* In one case of each surface, the slots begin differently *)

\* The project has guidance for the analysis of its photos.
Guided(in) == Sanitized(in.guidance) /= ""

\* Blocks about anything else are not in a template.
LEMMA NotALiteral ==
  ASSUME NEW what \in Words, NEW text \in Words, what \notin {"role", "rules"},
         <<what, text>> /= <<"operator", "title">>, <<what, text>> /= <<"photos", "title">>
  PROVE  <<what, text>> \notin Literals
  <1>1. \A w \in {"role", "rules"}, x \in Words : <<what, text>> /= <<w, x>>
    OBVIOUS
  <1>. QED BY <1>1 DEF Literals

\* With guidance, no two slots of a photo's template begin alike.
LEMMA PhotoDistinguished ==
  ASSUME NEW surface, NEW in, PhotoInput(in), Guided(in)
  PROVE  /\ DOMAIN PhotoSlots(surface, in) =
              {"schema_block", "photo_type", "project_id", "note", "optional_sections"}
         /\ Distinguished(DOMAIN PhotoSlots(surface, in), PhotoSlots(surface, in))
  <1> DEFINE values == PhotoSlots(surface, in)
             names == {"schema_block", "photo_type", "project_id", "note", "optional_sections"}
             type == PhotoType(surface)
             note == Strip(in.note)
             last == OptionalSections(in)
  <1>1. DOMAIN values = names
    BY DEF PhotoSlots
  <1>2. type \in Words /\ in.site \in Words /\ note \in Words
    BY OneIsSeq DEF PhotoType, PhotoInput, Words
  <1>3. /\ values["schema_block"] = <<<<"schema", type>>>> /\ values["photo_type"] = <<<<"photo_type", type>>>>
        /\ values["project_id"] = <<<<"project_id", in.site>>>> /\ values["note"] = <<<<"note", note>>>>
        /\ values["optional_sections"] = last
    BY DEF PhotoSlots
  <1>4. last \in Seq(Block) /\ Len(last) > 0 /\ last[1] = <<"guidance", "title">>
    BY OptionalIsSeq DEF Guided
  <1>5. last /= <<>>
    BY <1>4
  <1>6. /\ "schema" \in Words /\ "photo_type" \in Words /\ "project_id" \in Words /\ "note" \in Words
        /\ "guidance" \in Words /\ "title" \in Words
    BY DEF Words
  <1> HIDE DEF values, type, note, last
  <1>7. /\ <<"schema", type>> \in Block \ Literals /\ <<"photo_type", type>> \in Block \ Literals
        /\ <<"project_id", in.site>> \in Block \ Literals /\ <<"note", note>> \in Block \ Literals
        /\ <<"guidance", "title">> \in Block \ Literals
    BY <1>2, <1>6, PairIsBlock, NotALiteral
  <1>8. /\ values["schema_block"][1] = <<"schema", type>> /\ values["photo_type"][1] = <<"photo_type", type>>
        /\ values["project_id"][1] = <<"project_id", in.site>> /\ values["note"][1] = <<"note", note>>
        /\ values["optional_sections"][1] = <<"guidance", "title">>
    BY <1>3, <1>4
  <1>9. ASSUME NEW v \in names
        PROVE  values[v] \in Seq(Block) /\ values[v] /= <<>> /\ values[v][1] \notin Literals
    <2>1. \A b \in Block : <<b>> \in Seq(Block) /\ <<b>> /= <<>> OBVIOUS
    <2>2. CASE v = "optional_sections" BY <1>3, <1>4, <1>5, <1>7, <2>2
    <2>3. CASE v /= "optional_sections"
      <3>1. PICK b \in Block \ Literals : values[v] = <<b>> BY <1>3, <1>7, <2>3
      <3>. QED BY <2>1, <3>1
    <2>. QED BY <2>2, <2>3
  <1>10. ASSUME NEW v \in names, NEW w \in names, values[v][1] = values[w][1]
         PROVE  v = w
    <2>1. /\ values["schema_block"][1][1] = "schema" /\ values["photo_type"][1][1] = "photo_type"
          /\ values["project_id"][1][1] = "project_id" /\ values["note"][1][1] = "note"
          /\ values["optional_sections"][1][1] = "guidance"
      BY <1>8
    <2>2. values[v][1][1] = values[w][1][1] BY <1>10
    <2>. QED BY <2>1, <2>2
  <1>. QED BY <1>1, <1>9, <1>10 DEF Distinguished, values

\* Some of what a report is written from is there: guidance, an operator's text,
\* contexts and hints.
FullReport(in) ==
  /\ ProgressInput(in)
  /\ in.guidance = "g" /\ in.operator = "o" /\ in.contexts /= <<>> /\ in.hints /= <<>>
  /\ in.photos[1] = "k"

\* Nor those of a progress report that has something of everything.
LEMMA ProgressDistinguished ==
  ASSUME NEW in, FullReport(in)
  PROVE  /\ DOMAIN ProgressSlots(in) =
              {"project_prompt_text", "custom_prompt_instruction", "example_schema_json",
               "existing_ai_contexts_section", "preferred_ai_hints_section", "photo_metadata_lines"}
         /\ Distinguished(DOMAIN ProgressSlots(in), ProgressSlots(in))
  <1> DEFINE values == ProgressSlots(in)
             names == {"project_prompt_text", "custom_prompt_instruction", "example_schema_json",
               "existing_ai_contexts_section", "preferred_ai_hints_section", "photo_metadata_lines"}
             contexts == ContextSection("contexts", in.contexts)
             hints == ContextSection("hints", in.hints)
             photos == Blocks("photos", in.photos)
  <1>1. DOMAIN values = names
    BY DEF ProgressSlots
  <1>2. /\ "guidance" \in Words /\ "g" \in Words /\ "operator" \in Words /\ "o" \in Words
        /\ "example" \in Words /\ "k" \in Words /\ "contexts" \in Words /\ "hints" \in Words
        /\ "title" \in Words /\ "photos" \in Words
    BY DEF Words
  <1>3. /\ values["project_prompt_text"] = <<<<"guidance", "g">>>>
        /\ values["custom_prompt_instruction"] = <<<<"operator", "o">>>>
        /\ values["example_schema_json"] = <<<<"example", "k">>>>
        /\ values["existing_ai_contexts_section"] = contexts
        /\ values["preferred_ai_hints_section"] = hints
        /\ values["photo_metadata_lines"] = photos
    BY DEF ProgressSlots, FullReport, Strip
  <1>4. /\ in.contexts \in Seq(Words) /\ in.hints \in Seq(Words) /\ in.photos \in Seq(Words)
        /\ in.photos /= <<>> /\ in.contexts /= <<>> /\ in.hints /= <<>>
        /\ Spoken(in.contexts) /\ Spoken(in.hints) /\ in.photos[1] = "k"
    BY DEF FullReport, ProgressInput
  <1>5. contexts \in Seq(Block) /\ Len(contexts) > 0 /\ contexts[1] = <<"contexts", "title">>
    BY <1>2, <1>4, ContextSectionIsAll
  <1>6. hints \in Seq(Block) /\ Len(hints) > 0 /\ hints[1] = <<"hints", "title">>
    BY <1>2, <1>4, ContextSectionIsAll
  <1>7. photos \in Seq(Block) /\ Len(photos) > 0 /\ photos[1] = <<"photos", "k">>
    <2>1. Len(in.photos) \in Nat /\ Len(in.photos) > 0 /\ 1 \in 1 .. Len(in.photos) BY <1>4
    <2>. QED BY <1>2, <1>4, <2>1, BlocksAreSeq
  <1> HIDE DEF values, contexts, hints, photos
  <1>8. contexts /= <<>> /\ hints /= <<>> /\ photos /= <<>>
    BY <1>5, <1>6, <1>7
  <1>9. /\ <<"guidance", "g">> \in Block \ Literals /\ <<"operator", "o">> \in Block \ Literals
        /\ <<"example", "k">> \in Block \ Literals /\ <<"contexts", "title">> \in Block \ Literals
        /\ <<"hints", "title">> \in Block \ Literals /\ <<"photos", "k">> \in Block \ Literals
    BY <1>2, PairIsBlock, NotALiteral
  <1>10. /\ values["project_prompt_text"][1] = <<"guidance", "g">>
         /\ values["custom_prompt_instruction"][1] = <<"operator", "o">>
         /\ values["example_schema_json"][1] = <<"example", "k">>
         /\ values["existing_ai_contexts_section"][1] = <<"contexts", "title">>
         /\ values["preferred_ai_hints_section"][1] = <<"hints", "title">>
         /\ values["photo_metadata_lines"][1] = <<"photos", "k">>
    BY <1>3, <1>5, <1>6, <1>7
  <1>11. ASSUME NEW v \in names
         PROVE  values[v] \in Seq(Block) /\ values[v] /= <<>> /\ values[v][1] \notin Literals
    <2>1. \A b \in Block : <<b>> \in Seq(Block) /\ <<b>> /= <<>> OBVIOUS
    <2>2. CASE v = "existing_ai_contexts_section" BY <1>3, <1>5, <1>8, <1>9, <2>2
    <2>3. CASE v = "preferred_ai_hints_section" BY <1>3, <1>6, <1>8, <1>9, <2>3
    <2>4. CASE v = "photo_metadata_lines" BY <1>3, <1>7, <1>8, <1>9, <2>4
    <2>5. CASE v \in {"project_prompt_text", "custom_prompt_instruction", "example_schema_json"}
      <3>1. PICK b \in Block \ Literals : values[v] = <<b>> BY <1>3, <1>9, <2>5
      <3>. QED BY <2>1, <3>1
    <2>. QED BY <2>2, <2>3, <2>4, <2>5
  <1>12. ASSUME NEW v \in names, NEW w \in names, values[v][1] = values[w][1]
         PROVE  v = w
    <2>1. /\ values["project_prompt_text"][1][1] = "guidance"
          /\ values["custom_prompt_instruction"][1][1] = "operator"
          /\ values["example_schema_json"][1][1] = "example"
          /\ values["existing_ai_contexts_section"][1][1] = "contexts"
          /\ values["preferred_ai_hints_section"][1][1] = "hints"
          /\ values["photo_metadata_lines"][1][1] = "photos"
      BY <1>10
    <2>2. values[v][1][1] = values[w][1][1] BY <1>12
    <2>. QED BY <2>1, <2>2
  <1>. QED BY <1>1, <1>11, <1>12 DEF Distinguished, values

\* Nor those of a report in Markdown.
LEMMA MarkdownDistinguished ==
  ASSUME NEW in, MarkdownInput(in), in.operator = "o", in.photos /= <<>>, in.photos[1] = "k"
  PROVE  /\ DOMAIN MarkdownSlots(in) = {"custom_prompt", "photo_dataset_json"}
         /\ Distinguished(DOMAIN MarkdownSlots(in), MarkdownSlots(in))
  <1> DEFINE values == MarkdownSlots(in)
             names == {"custom_prompt", "photo_dataset_json"}
             photos == Blocks("photos", in.photos)
  <1>1. DOMAIN values = names
    BY DEF MarkdownSlots
  <1>2. "operator" \in Words /\ "o" \in Words /\ "photos" \in Words /\ "k" \in Words
    BY DEF Words
  <1>3. values["custom_prompt"] = <<<<"operator", "o">>>> /\ values["photo_dataset_json"] = photos
    BY DEF MarkdownSlots, Strip
  <1>4. photos \in Seq(Block) /\ Len(photos) > 0 /\ photos[1] = <<"photos", "k">>
    <2>1. in.photos \in Seq(Words) BY DEF MarkdownInput
    <2>2. Len(in.photos) \in Nat /\ Len(in.photos) > 0 /\ 1 \in 1 .. Len(in.photos) BY <2>1
    <2>. QED BY <1>2, <2>1, <2>2, BlocksAreSeq
  <1> HIDE DEF values, photos
  <1>5. photos /= <<>>
    BY <1>4
  <1>6. <<"operator", "o">> \in Block \ Literals /\ <<"photos", "k">> \in Block \ Literals
    BY <1>2, PairIsBlock, NotALiteral
  <1>7. values["custom_prompt"][1] = <<"operator", "o">> /\ values["photo_dataset_json"][1] = <<"photos", "k">>
    BY <1>3, <1>4
  <1>8. ASSUME NEW v \in names
        PROVE  values[v] \in Seq(Block) /\ values[v] /= <<>> /\ values[v][1] \notin Literals
    <2>1. \A b \in Block : <<b>> \in Seq(Block) /\ <<b>> /= <<>> OBVIOUS
    <2>2. CASE v = "custom_prompt"
      <3>1. PICK b \in Block \ Literals : values[v] = <<b>> BY <1>3, <1>6, <2>2
      <3>. QED BY <2>1, <3>1
    <2>3. CASE v = "photo_dataset_json" BY <1>3, <1>4, <1>5, <1>6, <2>3
    <2>. QED BY <2>2, <2>3
  <1>9. ASSUME NEW v \in names, NEW w \in names, values[v][1] = values[w][1]
        PROVE  v = w
    <2>1. values["custom_prompt"][1][1] = "operator" /\ values["photo_dataset_json"][1][1] = "photos"
      BY <1>7
    <2>2. values[v][1][1] = values[w][1][1] BY <1>9
    <2>. QED BY <2>1, <2>2
  <1>. QED BY <1>1, <1>8, <1>9 DEF Distinguished, values

-----------------------------------------------------------------------------
(* An audit that passes tells the template *)

\* The templates of the migrations have no slots but those of their surface.
LEMMA MigratedIsSeq ==
  /\ \A type \in {"project", "invoice"} :
       PhotoTemplate(type) \in Seq(Symbols({"schema_block", "photo_type", "project_id", "note",
                                           "optional_sections"}))
  /\ ProgressTemplate \in
       Seq(Symbols({"project_prompt_text", "custom_prompt_instruction", "example_schema_json",
                    "existing_ai_contexts_section", "preferred_ai_hints_section",
                    "photo_metadata_lines"}))
  /\ MarkdownTemplate \in Seq(Symbols({"custom_prompt", "photo_dataset_json"}))
  <1>1. ASSUME NEW what \in {"role", "rules"}, NEW text \in Words PROVE <<what, text>> \in Literals
    BY DEF Literals
  <1>2. <<"operator", "title">> \in Literals /\ <<"photos", "title">> \in Literals
    BY DEF Literals
  <1>3. "project" \in Words /\ "invoice" \in Words /\ "common" \in Words /\ "progress" \in Words /\ "markdown" \in Words
    BY DEF Words
  <1>4. ASSUME NEW names PROVE (\A b \in Literals : b \in Symbols(names)) /\ \A v \in names : <<"slot", v>> \in Symbols(names)
    BY DEF Symbols, SlotsNamed
  <1>5. ASSUME NEW type \in {"project", "invoice"}
        PROVE  PhotoTemplate(type) \in Seq(Symbols({"schema_block", "photo_type", "project_id", "note",
                                                  "optional_sections"}))
    <2> DEFINE S == Symbols({"schema_block", "photo_type", "project_id", "note", "optional_sections"})
    <2>1. type \in Words BY <1>3
    <2>2. <<"role", type>> \in S /\ <<"rules", type>> \in S /\ <<"rules", "common">> \in S
      BY <1>1, <1>3, <1>4, <2>1
    <2>3. /\ <<"slot", "schema_block">> \in S /\ <<"slot", "photo_type">> \in S /\ <<"slot", "project_id">> \in S
          /\ <<"slot", "note">> \in S /\ <<"slot", "optional_sections">> \in S
      BY <1>4
    <2> HIDE DEF S
    <2>4. PhotoTemplate(type) \in Seq(S)
      BY <2>2, <2>3 DEF PhotoTemplate
    <2>. QED BY <2>4 DEF S
  <1>6. ProgressTemplate \in
          Seq(Symbols({"project_prompt_text", "custom_prompt_instruction", "example_schema_json",
                       "existing_ai_contexts_section", "preferred_ai_hints_section",
                       "photo_metadata_lines"}))
    <2> DEFINE S == Symbols({"project_prompt_text", "custom_prompt_instruction", "example_schema_json",
                       "existing_ai_contexts_section", "preferred_ai_hints_section",
                       "photo_metadata_lines"})
    <2>1. <<"role", "progress">> \in S /\ <<"rules", "progress">> \in S /\ <<"photos", "title">> \in S
      BY <1>1, <1>2, <1>3, <1>4
    <2>2. /\ <<"slot", "project_prompt_text">> \in S /\ <<"slot", "custom_prompt_instruction">> \in S
          /\ <<"slot", "example_schema_json">> \in S /\ <<"slot", "existing_ai_contexts_section">> \in S
          /\ <<"slot", "preferred_ai_hints_section">> \in S /\ <<"slot", "photo_metadata_lines">> \in S
      BY <1>4
    <2> HIDE DEF S
    <2>3. ProgressTemplate \in Seq(S)
      BY <2>1, <2>2 DEF ProgressTemplate
    <2>. QED BY <2>3 DEF S
  <1>7. MarkdownTemplate \in Seq(Symbols({"custom_prompt", "photo_dataset_json"}))
    <2> DEFINE S == Symbols({"custom_prompt", "photo_dataset_json"})
    <2>1. <<"role", "markdown">> \in S /\ <<"rules", "markdown">> \in S /\ <<"photos", "title">> \in S
          /\ <<"operator", "title">> \in S
      BY <1>1, <1>2, <1>3, <1>4
    <2>2. <<"slot", "custom_prompt">> \in S /\ <<"slot", "photo_dataset_json">> \in S
      BY <1>4
    <2> HIDE DEF S
    <2>3. MarkdownTemplate \in Seq(S)
      BY <2>1, <2>2 DEF MarkdownTemplate
    <2>. QED BY <2>3 DEF S
  <1>. QED BY <1>5, <1>6, <1>7

\* A release leaves a template that can still be told block by block.
TemplatesTell ==
  /\ DOMAIN replaced \subseteq Surfaces
  /\ \A surface \in DOMAIN replaced : replaced[surface] \in Seq(Symbols(SlotNames))

\* What a surface is served can be told block by block.
LEMMA TemplateTells ==
  ASSUME TemplatesTell, NEW surface \in Surfaces
  PROVE  /\ Migrated[surface] \in Seq(Symbols(SlotNames)) /\ Migrated[surface] /= <<>>
         /\ TemplateOf(surface) \in Seq(Symbols(SlotNames))
  <1>1. \A names \in SUBSET SlotNames : Symbols(names) \subseteq Symbols(SlotNames)
    BY DEF Symbols, SlotsNamed
  <1>2. \A names \in SUBSET SlotNames : Seq(Symbols(names)) \subseteq Seq(Symbols(SlotNames))
    BY <1>1, SeqMonotonic
  <1>3. /\ {"schema_block", "photo_type", "project_id", "note", "optional_sections"} \in SUBSET SlotNames
        /\ {"project_prompt_text", "custom_prompt_instruction", "example_schema_json",
            "existing_ai_contexts_section", "preferred_ai_hints_section",
            "photo_metadata_lines"} \in SUBSET SlotNames
        /\ {"custom_prompt", "photo_dataset_json"} \in SUBSET SlotNames
    BY DEF SlotNames
  <1>4. /\ PhotoTemplate("project") \in Seq(Symbols(SlotNames)) /\ PhotoTemplate("invoice") \in Seq(Symbols(SlotNames))
        /\ ProgressTemplate \in Seq(Symbols(SlotNames)) /\ MarkdownTemplate \in Seq(Symbols(SlotNames))
    BY <1>2, <1>3, MigratedIsSeq
  <1>5. /\ PhotoTemplate("project") /= <<>> /\ PhotoTemplate("invoice") /= <<>>
        /\ ProgressTemplate /= <<>> /\ MarkdownTemplate /= <<>>
    BY DEF PhotoTemplate, ProgressTemplate, MarkdownTemplate
  <1>6. /\ Migrated["photo"] = PhotoTemplate("project") /\ Migrated["invoice"] = PhotoTemplate("invoice")
        /\ Migrated["video"] = PhotoTemplate("project") /\ Migrated["progress"] = ProgressTemplate
        /\ Migrated["markdown"] = MarkdownTemplate
    BY DEF Migrated
  <1>7. Migrated[surface] \in Seq(Symbols(SlotNames)) /\ Migrated[surface] /= <<>>
    BY <1>4, <1>5, <1>6 DEF Surfaces
  <1>. QED BY <1>7 DEF TemplateOf, TemplatesTell

\* A template that renders has no slot but those of its surface.
LEMMA RendersTells ==
  ASSUME NEW surface, NEW in, Renders(surface, in), TemplateOf(surface) \in Seq(Symbols(SlotNames))
  PROVE  TemplateOf(surface) \in Seq(Symbols(DOMAIN Slots(surface, in))) /\ TemplateOf(surface) /= <<>>
  <1> DEFINE t == TemplateOf(surface)
             names == DOMAIN Slots(surface, in)
  <1>1. t /= <<>> /\ \A i \in DOMAIN t : IsSlot(t[i]) => t[i][2] \in names
    BY DEF Renders
  <1>2. t \in Seq(Symbols(SlotNames))
    OBVIOUS
  <1> HIDE DEF t, names
  <1>3. Len(t) \in Nat /\ DOMAIN t = 1 .. Len(t) /\ t = [i \in 1 .. Len(t) |-> t[i]]
        /\ \A i \in 1 .. Len(t) : t[i] \in Symbols(SlotNames)
    BY <1>2
  <1>4. \A i \in 1 .. Len(t) : t[i] \in Symbols(names)
    <2> SUFFICES ASSUME NEW i \in 1 .. Len(t) PROVE t[i] \in Symbols(names)
      OBVIOUS
    <2>1. CASE t[i] \in Literals
      BY <2>1 DEF Symbols
    <2>2. CASE t[i] \in SlotsNamed(SlotNames)
      <3>1. IsSlot(t[i]) /\ t[i] = <<"slot", t[i][2]>> BY <2>2, SlotIsBlock
      <3>2. t[i][2] \in names BY <1>1, <1>3, <3>1
      <3>. QED BY <3>1, <3>2 DEF Symbols, SlotsNamed
    <2>3. t[i] \in Symbols(SlotNames) BY <1>3
    <2>. QED BY <2>1, <2>2, <2>3 DEF Symbols
  <1>5. t \in Seq(Symbols(names))
    BY <1>3, <1>4, IsASeq
  <1>. QED BY <1>1, <1>5 DEF t, names

\* The one template of a surface that gives the code's prompt, in a case where
\* every slot has something to say.
LEMMA PassingMeansMigrated ==
  ASSUME TemplatesTell, NEW surface \in Surfaces, NEW in, Renders(surface, in),
         DOMAIN Slots(surface, in) \subseteq SlotNames,
         Distinguished(DOMAIN Slots(surface, in), Slots(surface, in)),
         Migrated[surface] \in Seq(Symbols(DOMAIN Slots(surface, in))),
         Rendered(surface, in) = Filled(Migrated[surface], Slots(surface, in))
  PROVE  TemplateOf(surface) = Migrated[surface]
  <1> DEFINE names == DOMAIN Slots(surface, in)
             values == Slots(surface, in)
             t == TemplateOf(surface)
             m == Migrated[surface]
  <1>1. m /= <<>>
    BY TemplateTells
  <1>2. t \in Seq(Symbols(names)) /\ t /= <<>>
    BY TemplateTells, RendersTells
  <1>3. Filled(t, values) = Filled(m, values)
    BY DEF Rendered
  <1>4. names \subseteq SlotNames /\ Distinguished(names, values) /\ m \in Seq(Symbols(names))
    OBVIOUS
  <1> HIDE DEF names, values, t, m
  <1>5. t = m
    BY <1>1, <1>2, <1>3, <1>4, OneTemplate
  <1>. QED BY <1>5 DEF t, m

\* The slots of the template of photos, invoices and video frames.
PhotoNames == {"schema_block", "photo_type", "project_id", "note", "optional_sections"}

\* The texts of the fixtures and inputs.
LEMMA LettersAreWords ==
  /\ "p" \in Words /\ "n" \in Words /\ "g" \in Words /\ "o" \in Words /\ "r" \in Words
  /\ "s" \in Words /\ "c" \in Words /\ "d" \in Words /\ "h" \in Words /\ "i" \in Words
  /\ "k" \in Words /\ "l" \in Words /\ "m" \in Words /\ "R" \in Words /\ "" \in Words
  /\ "blank" \in Words /\ "format" \in Words
  BY DEF Words

\* A tuple of elements is a sequence of them.
LEMMA TuplesAreSeqs ==
  ASSUME NEW S, NEW a \in S, NEW b \in S, NEW c \in S
  PROVE  <<a>> \in Seq(S) /\ <<a, b>> \in Seq(S) /\ <<a, b, c>> \in Seq(S)
  OBVIOUS

\* A photo with any texts.
LEMMA PhotoCaseIsInput ==
  ASSUME NEW site \in Words, NEW note \in Words, NEW guidance \in Words, NEW operator \in Words,
         NEW remarks \in Seq(Words)
  PROVE  PhotoInput(PhotoCase(site, note, guidance, operator, remarks))
  BY DEF PhotoInput, PhotoCase

\* Texts that say something.
SpokenWords == Words \ {"", "blank"}

\* A sequence of them does.
LEMMA SpokenSeq ==
  ASSUME NEW texts \in Seq(SpokenWords)
  PROVE  Spoken(texts) /\ texts \in Seq(Words)
  <1>1. ASSUME NEW w \in SpokenWords PROVE Strip(w) /= "" /\ w \in Words
    BY DEF SpokenWords, Strip
  <1>2. \A i \in DOMAIN texts : texts[i] \in SpokenWords
    OBVIOUS
  <1>3. texts \in Seq(Words)
    <2>1. SpokenWords \subseteq Words BY DEF SpokenWords
    <2>. QED BY <2>1, SeqMonotonic
  <1>. QED BY <1>1, <1>2, <1>3 DEF Spoken

\* The contexts and hints of the fixtures and inputs are such texts.
LEMMA SpokenLetters ==
  /\ "c" \in SpokenWords /\ "d" \in SpokenWords /\ "h" \in SpokenWords /\ "i" \in SpokenWords
  BY DEF SpokenWords, Words

\* The fixture with guidance, annotations and an operator's text tells which
\* template a photo or an invoice is served.
LEMMA PhotoAuditTells ==
  ASSUME TemplatesTell, NEW surface \in {"photo", "invoice"}, AuditPasses(surface)
  PROVE  TemplateOf(surface) = Migrated[surface]
  <1> DEFINE in == PhotoCase("p", "n", "g", "o", <<"r", "s">>)
             type == PhotoType(surface)
  <1>1. in \in Cases(surface)
    <2>1. in \in PhotoFixtures /\ in \in InvoiceFixtures
      BY DEF PhotoFixtures, InvoiceFixtures
    <2>2. FixturesOf["photo"] = PhotoFixtures /\ FixturesOf["invoice"] = InvoiceFixtures
      BY DEF FixturesOf
    <2> HIDE DEF in
    <2>. QED BY <2>1, <2>2 DEF Cases
  <1>2. PhotoInput(in)
    <2>1. <<"r", "s">> \in Seq(Words)
      BY LettersAreWords, TuplesAreSeqs
    <2>. QED BY <2>1, LettersAreWords, PhotoCaseIsInput
  <1>3. in.guidance = "g"
    BY DEF PhotoCase
  <1>4. Guided(in)
    BY <1>3 DEF Guided, Sanitized, Strip
  <1>5. Renders(surface, in) /\ Rendered(surface, in) = CodePrompt(surface, in)
    BY <1>1 DEF AuditPasses
  <1> HIDE DEF in
  <1>6. Slots(surface, in) = PhotoSlots(surface, in) /\ CodePrompt(surface, in) = ContextPrompt(type, in)
    BY DEF Slots, CodePrompt
  <1>7. Migrated[surface] = PhotoTemplate(type) /\ type \in {"project", "invoice"}
    BY DEF Migrated, PhotoType
  <1>8. DOMAIN Slots(surface, in) = PhotoNames /\ Distinguished(DOMAIN Slots(surface, in), Slots(surface, in))
    BY <1>2, <1>4, <1>6, PhotoDistinguished DEF PhotoNames
  <1>9. PhotoNames \subseteq SlotNames /\ Migrated[surface] \in Seq(Symbols(PhotoNames))
    BY <1>7, MigratedIsSeq DEF PhotoNames, SlotNames
  <1>10. Rendered(surface, in) = Filled(Migrated[surface], Slots(surface, in))
    BY <1>2, <1>5, <1>6, <1>7, PhotoFilled
  <1>11. surface \in Surfaces
    BY DEF Surfaces
  <1>. QED BY <1>5, <1>8, <1>9, <1>10, <1>11, PassingMeansMigrated

\* For a video, the one with guidance and an operator's text.
LEMMA VideoAuditTells ==
  ASSUME TemplatesTell, AuditPasses("video")
  PROVE  TemplateOf("video") = Migrated["video"]
  <1> DEFINE in == PhotoCase("p", "n", "g", "o", <<>>)
  <1>1. in \in Cases("video")
    BY DEF Cases, FixturesOf, VideoFixtures
  <1>2. PhotoInput(in)
    <2>1. <<>> \in Seq(Words)
      BY EmptySeq
    <2>. QED BY <2>1, LettersAreWords, PhotoCaseIsInput
  <1>3. [in EXCEPT !.note = Strip(in.note), !.guidance = Sanitized(in.guidance), !.remarks = <<>>] = in
    <2>1. in = [site |-> "p", note |-> "n", guidance |-> "g", operator |-> "o", remarks |-> <<>>]
      BY DEF PhotoCase
    <2>2. Strip(in.note) = "n" /\ Sanitized(in.guidance) = "g"
      BY <2>1 DEF Strip, Sanitized
    <2> HIDE DEF in
    <2>3. in.note = "n" /\ in.guidance = "g" /\ in.remarks = <<>>
      BY <2>1
    <2>. QED BY <2>1, <2>2, <2>3
  <1>4. in.guidance = "g"
    BY DEF PhotoCase
  <1>5. Guided(in)
    BY <1>4 DEF Guided, Sanitized, Strip
  <1>6. Renders("video", in) /\ Rendered("video", in) = ContextPrompt("project", in)
    BY <1>1 DEF AuditPasses
  <1> HIDE DEF in
  <1>7. Slots("video", in) = PhotoSlots("video", in)
    BY <1>3 DEF Slots, VideoSlots
  <1>8. Migrated["video"] = PhotoTemplate("project") /\ PhotoType("video") = "project"
    BY DEF Migrated, PhotoType
  <1>9. DOMAIN Slots("video", in) = PhotoNames /\ Distinguished(DOMAIN Slots("video", in), Slots("video", in))
    BY <1>2, <1>5, <1>7, PhotoDistinguished DEF PhotoNames
  <1>10. PhotoNames \subseteq SlotNames /\ Migrated["video"] \in Seq(Symbols(PhotoNames))
    BY <1>8, MigratedIsSeq DEF PhotoNames, SlotNames
  <1>11. Rendered("video", in) = Filled(Migrated["video"], Slots("video", in))
    BY <1>2, <1>6, <1>7, <1>8, PhotoFilled
  <1>12. "video" \in Surfaces
    BY DEF Surfaces
  <1>. QED BY <1>6, <1>9, <1>10, <1>11, <1>12, PassingMeansMigrated

\* For a progress report, the one with contexts and hints both.
LEMMA ProgressAuditTells ==
  ASSUME TemplatesTell, AuditPasses("progress")
  PROVE  TemplateOf("progress") = Migrated["progress"]
  <1> DEFINE in == ReportCase("o", <<"c", "d">>, <<"h">>, <<"k", "l", "m">>)
  <1>1. in \in Cases("progress")
    BY DEF Cases, FixturesOf, ProgressFixtures
  <1>2. /\ in.guidance = "g" /\ in.operator = "o" /\ in.contexts = <<"c", "d">> /\ in.hints = <<"h">>
        /\ in.photos = <<"k", "l", "m">>
        /\ in = [guidance |-> "g", operator |-> "o", contexts |-> <<"c", "d">>, hints |-> <<"h">>,
                 photos |-> <<"k", "l", "m">>]
    BY DEF ReportCase
  <1>3. FullReport(in)
    <2>1. <<"c", "d">> \in Seq(Words) /\ <<"h">> \in Seq(Words) /\ <<"k", "l", "m">> \in Seq(Words)
      BY LettersAreWords, TuplesAreSeqs
    <2>2. Spoken(<<"c", "d">>) /\ Spoken(<<"h">>)
      <3>1. <<"c", "d">> \in Seq(SpokenWords) /\ <<"h">> \in Seq(SpokenWords)
        BY SpokenLetters, TuplesAreSeqs
      <3>. QED BY <3>1, SpokenSeq
    <2>3. in \in [guidance : Words, operator : Words, contexts : Seq(Words), hints : Seq(Words),
                  photos : Seq(Words)]
      BY <1>2, <2>1, LettersAreWords
    <2>4. in.photos /= <<>> /\ in.contexts /= <<>> /\ in.hints /= <<>> /\ in.photos[1] = "k"
      BY <1>2
    <2>. QED BY <1>2, <2>2, <2>3, <2>4 DEF FullReport, ProgressInput
  <1>4. Renders("progress", in) /\ Rendered("progress", in) = ProgressPrompt(in)
    BY <1>1 DEF AuditPasses, CodePrompt
  <1> HIDE DEF in
  <1>5. Slots("progress", in) = ProgressSlots(in)
    BY DEF Slots
  <1>6. Migrated["progress"] = ProgressTemplate
    BY DEF Migrated
  <1> DEFINE names == {"project_prompt_text", "custom_prompt_instruction", "example_schema_json",
                       "existing_ai_contexts_section", "preferred_ai_hints_section",
                       "photo_metadata_lines"}
  <1>7. DOMAIN Slots("progress", in) = names
        /\ Distinguished(DOMAIN Slots("progress", in), Slots("progress", in))
    BY <1>3, <1>5, ProgressDistinguished
  <1>8. names \subseteq SlotNames /\ Migrated["progress"] \in Seq(Symbols(names))
    BY <1>6, MigratedIsSeq DEF SlotNames
  <1>9. Rendered("progress", in) = Filled(Migrated["progress"], Slots("progress", in))
    BY <1>3, <1>4, <1>5, <1>6, ProgressFilled DEF FullReport
  <1>10. "progress" \in Surfaces
    BY DEF Surfaces
  <1> HIDE DEF names
  <1>. QED BY <1>4, <1>7, <1>8, <1>9, <1>10, PassingMeansMigrated

\* For a report in Markdown, one with an operator's text.
LEMMA MarkdownAuditTells ==
  ASSUME TemplatesTell, AuditPasses("markdown")
  PROVE  TemplateOf("markdown") = Migrated["markdown"]
  <1> DEFINE in == MarkdownCase("o", <<"k", "l">>)
             names == {"custom_prompt", "photo_dataset_json"}
  <1>1. in \in Cases("markdown")
    BY DEF Cases, FixturesOf, MarkdownFixtures
  <1>2. in.operator = "o" /\ in.photos = <<"k", "l">> /\ in = [operator |-> "o", photos |-> <<"k", "l">>]
    BY DEF MarkdownCase
  <1>3. MarkdownInput(in) /\ in.photos /= <<>> /\ in.photos[1] = "k"
    <2>1. <<"k", "l">> \in Seq(Words)
      BY LettersAreWords, TuplesAreSeqs
    <2>2. in.photos /= <<>> /\ in.photos[1] = "k"
      BY <1>2
    <2>3. in \in [operator : Words, photos : Seq(Words)]
      BY <1>2, <2>1, LettersAreWords
    <2>. QED BY <2>2, <2>3 DEF MarkdownInput
  <1>4. Renders("markdown", in) /\ Rendered("markdown", in) = MarkdownPrompt(in)
    BY <1>1 DEF AuditPasses, CodePrompt
  <1> HIDE DEF in
  <1>5. Slots("markdown", in) = MarkdownSlots(in)
    BY DEF Slots
  <1>6. Migrated["markdown"] = MarkdownTemplate
    BY DEF Migrated
  <1>7. DOMAIN Slots("markdown", in) = names
        /\ Distinguished(DOMAIN Slots("markdown", in), Slots("markdown", in))
    BY <1>2, <1>3, <1>5, MarkdownDistinguished
  <1>8. names \subseteq SlotNames /\ Migrated["markdown"] \in Seq(Symbols(names))
    BY <1>6, MigratedIsSeq DEF SlotNames
  <1>9. Rendered("markdown", in) = Filled(Migrated["markdown"], Slots("markdown", in))
    BY <1>3, <1>4, <1>5, <1>6, MarkdownFilled
  <1>10. "markdown" \in Surfaces
    BY DEF Surfaces
  <1> HIDE DEF names
  <1>. QED BY <1>4, <1>7, <1>8, <1>9, <1>10, PassingMeansMigrated

\* An audit that passes leaves one template.
LEMMA AuditTells ==
  ASSUME TemplatesTell, NEW surface \in Surfaces, AuditPasses(surface)
  PROVE  TemplateOf(surface) = Migrated[surface]
  <1>1. CASE surface \in {"photo", "invoice"} BY <1>1, PhotoAuditTells
  <1>2. CASE surface = "video" BY <1>2, VideoAuditTells
  <1>3. CASE surface = "progress" BY <1>3, ProgressAuditTells
  <1>4. CASE surface = "markdown" BY <1>4, MarkdownAuditTells
  <1>. QED BY <1>1, <1>2, <1>3, <1>4 DEF Surfaces

-----------------------------------------------------------------------------
(* What workers get then *)

\* The inputs that workers may have are such inputs.
LEMMA PhotoInputsAre ==
  ASSUME NEW in \in PhotoInputs
  PROVE  PhotoInput(in)
  <1>1. Remarks \subseteq Seq(Words)
    <2>1. /\ <<"blank", "r">> \in Seq(Words) /\ <<"r", "R">> \in Seq(Words) /\ <<"r", "s">> \in Seq(Words)
          /\ <<>> \in Seq(Words)
      BY LettersAreWords, TuplesAreSeqs, EmptySeq
    <2>2. ASSUME NEW remarks \in Remarks PROVE remarks \in Seq(Words)
      <3>1. CASE remarks = <<>> BY <2>1, <3>1
      <3>2. CASE remarks = <<"blank", "r">> BY <2>1, <3>2
      <3>3. CASE remarks = <<"r", "R">> BY <2>1, <3>3
      <3>4. CASE remarks = <<"r", "s">> BY <2>1, <3>4
      <3>. QED BY <3>1, <3>2, <3>3, <3>4 DEF Remarks
    <2>. QED BY <2>2
  <1>2. /\ {"p"} \subseteq Words /\ {"", "blank", "n"} \subseteq Words
        /\ {"", "format", "g"} \subseteq Words /\ {"", "blank", "o"} \subseteq Words
    BY LettersAreWords
  <1>3. in \in [site : {"p"}, note : {"", "blank", "n"}, guidance : {"", "format", "g"},
                operator : {"", "blank", "o"}, remarks : Remarks]
    BY DEF PhotoInputs
  <1>. QED BY <1>1, <1>2, <1>3 DEF PhotoInput

\* So are those of reports.
LEMMA ReportInputsAre ==
  /\ \A in \in ProgressInputs : ProgressInput(in)
  /\ \A in \in MarkdownInputs : MarkdownInput(in)
  <1> DEFINE Contexts == {<<>>, <<"c">>, <<"c", "d">>}
             Hints == {<<>>, <<"h">>, <<"h", "i">>}
             Photos == {<<"k">>, <<"l", "k">>}
  <1>1. ASSUME NEW texts \in Contexts \cup Hints PROVE texts \in Seq(Words) /\ Spoken(texts)
    <2>1. /\ <<"c">> \in Seq(SpokenWords) /\ <<"c", "d">> \in Seq(SpokenWords)
          /\ <<"h">> \in Seq(SpokenWords) /\ <<"h", "i">> \in Seq(SpokenWords)
      BY SpokenLetters, TuplesAreSeqs
    <2>2. <<>> \in Seq(SpokenWords)
      BY EmptySeq
    <2>3. CASE texts = <<>> BY <2>2, <2>3, SpokenSeq
    <2>4. CASE texts = <<"c">> BY <2>1, <2>4, SpokenSeq
    <2>5. CASE texts = <<"c", "d">> BY <2>1, <2>5, SpokenSeq
    <2>6. CASE texts = <<"h">> BY <2>1, <2>6, SpokenSeq
    <2>7. CASE texts = <<"h", "i">> BY <2>1, <2>7, SpokenSeq
    <2>. QED BY <2>3, <2>4, <2>5, <2>6, <2>7
  <1>2. ASSUME NEW photos \in Photos PROVE photos \in Seq(Words) /\ photos /= <<>>
    <2>1. <<"k">> \in Seq(Words) /\ <<"l", "k">> \in Seq(Words) BY LettersAreWords, TuplesAreSeqs
    <2>2. <<"k">> /= <<>> /\ <<"l", "k">> /= <<>> OBVIOUS
    <2>3. CASE photos = <<"k">> BY <2>1, <2>2, <2>3
    <2>4. CASE photos = <<"l", "k">> BY <2>1, <2>2, <2>4
    <2>. QED BY <2>3, <2>4
  <1>3. {"", "blank", "g"} \subseteq Words /\ {"", "blank", "o"} \subseteq Words
    BY LettersAreWords
  <1>4. ProgressInputs = [guidance : {"", "blank", "g"}, operator : {"", "blank", "o"},
                          contexts : Contexts, hints : Hints, photos : Photos]
    BY DEF ProgressInputs
  <1>5. MarkdownInputs = [operator : {"", "blank", "o"}, photos : Photos]
    BY DEF MarkdownInputs
  <1> HIDE DEF Contexts, Hints, Photos
  <1>6. ASSUME NEW in \in ProgressInputs PROVE ProgressInput(in)
    <2>1. /\ in \in [guidance : Words, operator : Words, contexts : Contexts, hints : Hints, photos : Photos]
          /\ in.contexts \in Contexts /\ in.hints \in Hints /\ in.photos \in Photos
      BY <1>3, <1>4
    <2>2. /\ in.contexts \in Seq(Words) /\ in.hints \in Seq(Words) /\ in.photos \in Seq(Words)
          /\ Spoken(in.contexts) /\ Spoken(in.hints) /\ in.photos /= <<>>
      BY <1>1, <1>2, <2>1
    <2>3. in \in [guidance : Words, operator : Words, contexts : Seq(Words), hints : Seq(Words),
                  photos : Seq(Words)]
      BY <2>1, <2>2
    <2>. QED BY <2>2, <2>3 DEF ProgressInput
  <1>7. ASSUME NEW in \in MarkdownInputs PROVE MarkdownInput(in)
    BY <1>2, <1>3, <1>5 DEF MarkdownInput
  <1>. QED BY <1>6, <1>7

\* The template of the migrations has a value for each slot.
LEMMA MigratedRenders ==
  ASSUME NEW surface, NEW in, NEW names, names \subseteq SlotNames, names \subseteq DOMAIN Slots(surface, in),
         TemplateOf(surface) \in Seq(Symbols(names)), TemplateOf(surface) /= <<>>
  PROVE  Renders(surface, in)
  <1> DEFINE t == TemplateOf(surface)
  <1>1. ASSUME NEW i \in DOMAIN t, IsSlot(t[i]) PROVE t[i][2] \in DOMAIN Slots(surface, in)
    <2>1. t[i] \in Symbols(names) OBVIOUS
    <2>2. t[i] \notin Literals BY <1>1, LiteralIsBlock
    <2>3. t[i] \in SlotsNamed(names) BY <2>1, <2>2 DEF Symbols
    <2>. QED BY <2>3, SlotIsBlock
  <1>. QED BY <1>1 DEF Renders

\* An input of a surface with any texts, and as many of them as one likes.
AnyInput(surface, in) ==
  CASE surface = "progress" -> ProgressInput(in)
    [] surface = "markdown" -> MarkdownInput(in)
    [] OTHER -> PhotoInput(in)

LEMMA InputsAreAny ==
  ASSUME NEW surface \in Surfaces, NEW in \in InputsOf[surface]
  PROVE  AnyInput(surface, in)
  <1>1. /\ InputsOf["photo"] = PhotoInputs /\ InputsOf["invoice"] = PhotoInputs
        /\ InputsOf["video"] = VideoInputs /\ VideoInputs \subseteq PhotoInputs
        /\ InputsOf["progress"] = ProgressInputs /\ InputsOf["markdown"] = MarkdownInputs
    BY DEF InputsOf, VideoInputs
  <1>. QED BY <1>1, PhotoInputsAre, ReportInputsAre DEF AnyInput, Surfaces

\* With the template of the migrations, the registry's prompt is the code's,
\* whatever a worker has.
LEMMA MigratedMeansSame ==
  ASSUME NEW surface \in Surfaces, TemplateOf(surface) = Migrated[surface], TemplatesTell,
         surface = "video" => remarked = {},
         NEW in, AnyInput(surface, in)
  PROVE  Same(surface, in)
  <1>1. Migrated[surface] /= <<>>
    BY TemplateTells
  <1>2. PhotoNames \subseteq SlotNames
    BY DEF PhotoNames, SlotNames
  <1>3. CASE surface \in {"photo", "invoice"}
    <2> DEFINE type == PhotoType(surface)
    <2>1. PhotoInput(in)
      BY <1>3 DEF AnyInput
    <2>2. Slots(surface, in) = PhotoSlots(surface, in) /\ CodePrompt(surface, in) = ContextPrompt(type, in)
      BY <1>3 DEF Slots, CodePrompt
    <2>3. Migrated[surface] = PhotoTemplate(type) /\ type \in {"project", "invoice"}
      BY <1>3 DEF Migrated, PhotoType
    <2>4. DOMAIN PhotoSlots(surface, in) = PhotoNames
      BY DEF PhotoSlots, PhotoNames
    <2>5. Migrated[surface] \in Seq(Symbols(PhotoNames))
      BY <2>3, MigratedIsSeq DEF PhotoNames
    <2>6. Renders(surface, in)
      BY <1>1, <1>2, <2>2, <2>4, <2>5, MigratedRenders
    <2>7. Rendered(surface, in) = ContextPrompt(type, in)
      BY <2>1, <2>2, <2>3, PhotoFilled DEF Rendered
    <2>. QED BY <2>2, <2>6, <2>7 DEF Same
  <1>4. CASE surface = "video"
    <2> DEFINE asked == [in EXCEPT !.note = Strip(in.note), !.guidance = Sanitized(in.guidance),
                                   !.remarks = <<>>]
    <2>1. PhotoInput(in)
      BY <1>4 DEF AnyInput
    <2>2. PhotoInput(asked)
      <3>1. in.note \in Words /\ in.guidance \in Words
        BY <2>1 DEF PhotoInput
      <3>2. Strip(in.note) \in Words /\ Sanitized(in.guidance) \in Words /\ <<>> \in Seq(Words)
        BY <3>1, OneIsSeq, EmptySeq
      <3>. QED BY <2>1, <3>2 DEF PhotoInput
    <2>3. Slots("video", in) = PhotoSlots("video", asked)
      BY DEF Slots, VideoSlots
    <2>4. CodePrompt("video", in) = ContextPrompt("project", asked)
      <3>1. remarked = {} BY <1>4
      <3>2. (IF "asset" \in remarked THEN <<"r">> ELSE <<>>) \o (IF "photo" \in remarked THEN <<"s">> ELSE <<>>) = <<>>
        BY <3>1, ConcatEmptySeq, EmptySeq
      <3>. QED BY <3>2 DEF CodePrompt, VideoPrompt
    <2>5. Migrated["video"] = PhotoTemplate("project") /\ PhotoType("video") = "project"
      BY DEF Migrated, PhotoType
    <2>6. DOMAIN PhotoSlots("video", asked) = PhotoNames
      BY DEF PhotoSlots, PhotoNames
    <2> HIDE DEF asked
    <2>7. Migrated["video"] \in Seq(Symbols(PhotoNames))
      BY <2>5, MigratedIsSeq DEF PhotoNames
    <2>8. Renders("video", in)
      BY <1>1, <1>2, <1>4, <2>3, <2>6, <2>7, MigratedRenders
    <2>9. Rendered("video", in) = ContextPrompt("project", asked)
      BY <1>4, <2>2, <2>3, <2>5, PhotoFilled DEF Rendered
    <2>. QED BY <1>4, <2>4, <2>8, <2>9 DEF Same
  <1>5. CASE surface = "progress"
    <2> DEFINE names == {"project_prompt_text", "custom_prompt_instruction", "example_schema_json",
                         "existing_ai_contexts_section", "preferred_ai_hints_section",
                         "photo_metadata_lines"}
    <2>1. ProgressInput(in)
      BY <1>5 DEF AnyInput
    <2>2. Slots("progress", in) = ProgressSlots(in) /\ CodePrompt("progress", in) = ProgressPrompt(in)
      BY DEF Slots, CodePrompt
    <2>3. Migrated["progress"] = ProgressTemplate
      BY DEF Migrated
    <2>4. DOMAIN ProgressSlots(in) = names
      BY DEF ProgressSlots
    <2>5. names \subseteq SlotNames /\ Migrated["progress"] \in Seq(Symbols(names))
      BY <2>3, MigratedIsSeq DEF SlotNames
    <2> HIDE DEF names
    <2>6. Renders("progress", in)
      BY <1>1, <1>5, <2>2, <2>4, <2>5, MigratedRenders
    <2>7. Rendered("progress", in) = ProgressPrompt(in)
      BY <1>5, <2>1, <2>2, <2>3, ProgressFilled DEF Rendered
    <2>. QED BY <1>5, <2>2, <2>6, <2>7 DEF Same
  <1>6. CASE surface = "markdown"
    <2> DEFINE names == {"custom_prompt", "photo_dataset_json"}
    <2>1. MarkdownInput(in)
      BY <1>6 DEF AnyInput
    <2>2. Slots("markdown", in) = MarkdownSlots(in) /\ CodePrompt("markdown", in) = MarkdownPrompt(in)
      BY DEF Slots, CodePrompt
    <2>3. Migrated["markdown"] = MarkdownTemplate
      BY DEF Migrated
    <2>4. DOMAIN MarkdownSlots(in) = names
      BY DEF MarkdownSlots
    <2>5. names \subseteq SlotNames /\ Migrated["markdown"] \in Seq(Symbols(names))
      BY <2>3, MigratedIsSeq DEF SlotNames
    <2> HIDE DEF names
    <2>6. Renders("markdown", in)
      BY <1>1, <1>6, <2>2, <2>4, <2>5, MigratedRenders
    <2>7. Rendered("markdown", in) = MarkdownPrompt(in)
      BY <1>6, <2>1, <2>2, <2>3, MarkdownFilled DEF Rendered
    <2>. QED BY <1>6, <2>2, <2>6, <2>7 DEF Same
  <1>. QED BY <1>3, <1>4, <1>5, <1>6 DEF Surfaces

-----------------------------------------------------------------------------
(* The invariant *)

\* Whatever a release does, the templates can be told block by block; and a surface
\* whose audit has passed is served the template of the migrations.
ParityInv ==
  /\ TemplatesTell
  /\ audited \in Surfaces \cup {"none"}
  /\ audited /= "none" => TemplateOf(audited) = Migrated[audited]

\* Whatever a release makes of a template can be told block by block.
LEMMA VersionsTell ==
  ASSUME TemplatesTell, NEW surface \in Surfaces, NEW version \in Versions(TemplateOf(surface))
  PROVE  version \in Seq(Symbols(SlotNames))
  <1> DEFINE S == Symbols(SlotNames)
             t == TemplateOf(surface)
  <1>1. t \in Seq(S) /\ \A s \in Surfaces : Migrated[s] \in Seq(S)
    BY TemplateTells
  <1>2. <<"rules", "new">> \in S /\ <<"slot", "unknown">> \in S
    <2>1. "new" \in Words /\ "unknown" \in SlotNames BY DEF Words, SlotNames
    <2>2. <<"rules", "new">> \in Literals BY <2>1 DEF Literals
    <2>3. <<"slot", "unknown">> \in SlotsNamed(SlotNames) BY <2>1 DEF SlotsNamed
    <2>. QED BY <2>2, <2>3 DEF Symbols
  <1>3. \/ version \in {Migrated[s] : s \in Surfaces}
        \/ version \in {Without(t, i) : i \in DOMAIN t}
        \/ version \in {Swapped(t, i) : i \in 1 .. Len(t) - 1}
        \/ version \in {[t EXCEPT ![i] = b] : i \in DOMAIN t, b \in {<<"rules", "new">>, <<"slot", "unknown">>}}
        \/ version = <<>>
    BY DEF Versions
  <1> HIDE DEF S, t
  <1>4. Len(t) \in Nat /\ DOMAIN t = 1 .. Len(t) /\ \A i \in 1 .. Len(t) : t[i] \in S
    BY <1>1
  <1>5. ASSUME NEW i \in DOMAIN t PROVE Without(t, i) \in Seq(S)
    <2>1. SubSeq(t, 1, i - 1) \in Seq(S)
      BY <1>1, <1>4, SubSeqProperties
    <2>2. SubSeq(t, i + 1, Len(t)) \in Seq(S)
      BY <1>1, <1>4, SubSeqProperties
    <2>. QED BY <2>1, <2>2, ConcatProperties DEF Without
  <1>6. ASSUME NEW i \in 1 .. Len(t) - 1 PROVE Swapped(t, i) \in Seq(S)
    <2>1. t[i] \in S /\ t[i + 1] \in S /\ i \in 1 .. Len(t) /\ i + 1 \in 1 .. Len(t)
      BY <1>4
    <2>. QED BY <1>1, <1>4, <2>1, ExceptSeq DEF Swapped
  <1>7. ASSUME NEW i \in DOMAIN t, NEW b \in S PROVE [t EXCEPT ![i] = b] \in Seq(S)
    BY <1>1, <1>4, ExceptSeq
  <1>8. <<>> \in Seq(S)
    BY EmptySeq
  <1>9. version \in Seq(S)
    <2>1. CASE version \in {Migrated[s] : s \in Surfaces}
      BY <1>1, <2>1
    <2>2. CASE version \in {Without(t, i) : i \in DOMAIN t}
      BY <1>5, <2>2
    <2>3. CASE version \in {Swapped(t, i) : i \in 1 .. Len(t) - 1}
      BY <1>6, <2>3
    <2>4. CASE version \in {[t EXCEPT ![i] = b] : i \in DOMAIN t, b \in {<<"rules", "new">>, <<"slot", "unknown">>}}
      <3>1. PICK i \in DOMAIN t, b \in {<<"rules", "new">>, <<"slot", "unknown">>} :
              version = [t EXCEPT ![i] = b]
        BY <2>4
      <3>2. b \in S
        BY <1>2, <3>1
      <3>. QED BY <1>7, <3>1, <3>2
    <2>5. CASE version = <<>>
      BY <1>8, <2>5
    <2>. QED BY <1>3, <2>1, <2>2, <2>3, <2>4, <2>5
  <1>. QED BY <1>9 DEF S

\* A release takes the audit of its surface back, and leaves the others alone.
LEMMA ReleaseKeepsParity ==
  ASSUME ParityInv, NEW surface \in Surfaces, ReleaseTemplate(surface)
  PROVE  ParityInv'
  <1>1. PICK version \in Versions(TemplateOf(surface)) :
          replaced' = [s \in DOMAIN replaced \cup {surface} |->
                         IF s = surface THEN version ELSE replaced[s]]
    BY DEF ReleaseTemplate
  <1>2. version \in Seq(Symbols(SlotNames))
    BY VersionsTell DEF ParityInv
  <1>3. TemplatesTell'
    BY <1>1, <1>2 DEF ParityInv, TemplatesTell
  <1>4. audited' \in {audited, "none"} /\ audited' /= surface
    BY DEF ReleaseTemplate, Surfaces
  <1>5. ASSUME NEW s, s /= surface PROVE TemplateOf(s)' = TemplateOf(s)
    BY <1>1, <1>5 DEF TemplateOf
  <1>. QED BY <1>3, <1>4, <1>5 DEF ParityInv

\* An audit changes no template.
LEMMA AuditKeepsParity ==
  ASSUME ParityInv, NEW surface \in Surfaces, AuditParity(surface)
  PROVE  ParityInv'
  <1>1. replaced' = replaced /\ audited' = IF AuditPasses(surface) THEN surface ELSE "none"
    BY DEF AuditParity
  <1>2. TemplatesTell' /\ \A s : TemplateOf(s)' = TemplateOf(s)
    BY <1>1 DEF ParityInv, TemplatesTell, TemplateOf
  <1>3. AuditPasses(surface) => TemplateOf(surface) = Migrated[surface]
    BY AuditTells DEF ParityInv
  <1>. QED BY <1>1, <1>2, <1>3 DEF ParityInv

\* Of all that releases may make of the templates - blocks left out, in another
\* order, with another text, with slots that nothing fills - an audit that passes
\* (app/cli.py) leaves exactly one for the surface, that of the migrations, and it
\* stays until the next release changes it.
THEOREM ParityInvariant == ParitySpec => []ParityInv
  <1>1. ParityInit => ParityInv
    BY DEF ParityInit, ParityInv, TemplatesTell, Surfaces
  <1>2. ParityInv /\ [ParityNext]_parityVars => ParityInv'
    <2> SUFFICES ASSUME ParityInv, [ParityNext]_parityVars PROVE ParityInv'
      OBVIOUS
    <2>1. ASSUME NEW surface \in Surfaces, ReleaseTemplate(surface) PROVE ParityInv'
      BY <2>1, ReleaseKeepsParity
    <2>2. ASSUME NEW surface \in Surfaces, AuditParity(surface) PROVE ParityInv'
      BY <2>2, AuditKeepsParity
    <2>3. ASSUME UNCHANGED <<replaced, audited>> PROVE ParityInv'
      BY <2>3 DEF ParityInv, TemplatesTell, TemplateOf
    <2>. QED BY <2>1, <2>2, <2>3 DEF ParityNext, Remark, parityVars
  <1>. QED BY <1>1, <1>2, PTL DEF ParitySpec

\* The template of the migrations is ready, and gives the prompts of the code.
LEMMA ParityMeansSame ==
  ASSUME ParityInv
  PROVE  PassingMeansSame
  <1> SUFFICES ASSUME audited /= "none"
               PROVE  /\ CoverageStatus(audited) = "db_prompt_shadow_ready"
                      /\ \/ audited = "video" /\ remarked /= {}
                         \/ \A in \in InputsOf[audited] : Same(audited, in)
    BY DEF PassingMeansSame
  <1>1. audited \in Surfaces /\ TemplateOf(audited) = Migrated[audited] /\ TemplatesTell
    BY DEF ParityInv
  <1>2. CoverageStatus(audited) = "db_prompt_shadow_ready"
    BY <1>1, TemplateTells DEF CoverageStatus
  <1>3. CASE audited = "video" /\ remarked /= {}
    BY <1>2, <1>3
  <1>4. CASE ~ (audited = "video" /\ remarked /= {})
    BY <1>1, <1>2, <1>4, InputsAreAny, MigratedMeansSame
  <1>. QED BY <1>3, <1>4

\* The fixtures of the audits (app/cli.py) are enough: as long as the audit of a
\* surface stands, the registry gives a worker the prompt of the code for whatever
\* photo, video or report it has, annotated videos excepted.
THEOREM AuditsAreEnough == ParitySpec => []PassingMeansSame
  BY ParityInvariant, ParityMeansSame, PTL

\* The same for photos with any texts and any number of annotations, and reports on
\* any number of photos (app/services/ai_pipeline.py, reports.py), where the runs
\* take a few.
AnyPromptIsSame ==
  audited /= "none" /\ (audited = "video" => remarked = {}) =>
    \A in : AnyInput(audited, in) => Same(audited, in)

\* However long the inputs are, a passed audit vouches for them.
THEOREM AuditsCoverAnyInput == ParitySpec => []AnyPromptIsSame
  <1>1. ParityInv => AnyPromptIsSame
    BY MigratedMeansSame DEF ParityInv, AnyPromptIsSame
  <1>. QED BY <1>1, ParityInvariant, PTL

-----------------------------------------------------------------------------
(* AIBackends: the rotation *)

\* How many places a backend has in a pool, and where they end.
Share(pool, b) == IF b \in pool THEN Weights[b] ELSE 0
Parts(pool) == [b \in Backends |-> PlacesOf(pool, b)]
Last(pool, b) == Len(Running(Parts(pool))[b])
Before(pool, b) == Last(pool, b) - Share(pool, b)

\* The places of each backend are as many as its share.
LEMMA PartsAreSeqs ==
  ASSUME NEW pool
  PROVE  /\ Len(Weights) \in Nat \ {0} /\ Backends = 1 .. Len(Weights)
         /\ Parts(pool) \in Seq(Seq(Backends)) /\ Len(Parts(pool)) = Len(Weights)
         /\ \A b \in Backends :
              /\ Share(pool, b) \in Nat /\ Len(Parts(pool)[b]) = Share(pool, b)
              /\ \A k \in 1 .. Share(pool, b) : Parts(pool)[b][k] = b
  <1>1. Weights \in Seq(Nat \ {0}) /\ Weights /= <<>>
    BY BackendsAssumption
  <1>2. Len(Weights) \in Nat \ {0} /\ Backends = 1 .. Len(Weights)
    BY <1>1 DEF Backends
  <1>3. ASSUME NEW b \in Backends
        PROVE  /\ Share(pool, b) \in Nat
               /\ PlacesOf(pool, b) = [k \in 1 .. Share(pool, b) |-> b]
    BY <1>1 DEF Share, PlacesOf, Backends
  <1>4. ASSUME NEW b \in Backends
        PROVE  /\ PlacesOf(pool, b) \in Seq(Backends) /\ Len(PlacesOf(pool, b)) = Share(pool, b)
               /\ \A k \in 1 .. Share(pool, b) : PlacesOf(pool, b)[k] = b
    BY <1>3, IsASeq
  <1>5. Parts(pool) \in Seq(Seq(Backends)) /\ Len(Parts(pool)) = Len(Weights)
    <2>1. Parts(pool) = [b \in 1 .. Len(Weights) |-> PlacesOf(pool, b)]
      BY <1>2 DEF Parts
    <2>2. \A b \in 1 .. Len(Weights) : PlacesOf(pool, b) \in Seq(Backends)
      BY <1>2, <1>4
    <2>. QED BY <1>2, <2>1, <2>2, IsASeq
  <1>6. \A b \in Backends : Parts(pool)[b] = PlacesOf(pool, b)
    BY DEF Parts
  <1>. QED BY <1>2, <1>3, <1>4, <1>5, <1>6

\* They come after those of the backends before it.
LEMMA PlacesFollow ==
  ASSUME NEW pool, NEW b \in Backends
  PROVE  /\ Last(pool, b) \in Nat /\ Before(pool, b) \in Nat
         /\ Before(pool, b) = IF b = 1 THEN 0 ELSE Last(pool, b - 1)
  <1> DEFINE seqs == Parts(pool)
             R == Running(seqs)
  <1>1. /\ Backends = 1 .. Len(Weights) /\ Len(Weights) \in Nat
        /\ seqs \in Seq(Seq(Backends)) /\ Len(seqs) = Len(Weights)
        /\ Share(pool, b) \in Nat /\ Len(seqs[b]) = Share(pool, b)
    BY PartsAreSeqs
  <1>2. ASSUME NEW c \in Backends
        PROVE  /\ R[c] \in Seq(Backends) /\ seqs[c] \in Seq(Backends)
               /\ c = 1 => R[c] = seqs[c]
               /\ c > 1 => R[c] = R[c - 1] \o seqs[c]
    <2>1. c \in 1 .. Len(seqs)
      BY <1>1
    <2>2. seqs[c] \in Seq(Backends)
      BY <1>1, <2>1
    <2>. QED BY <1>1, <2>1, <2>2, RunningSteps
  <1>3. Last(pool, b) = Len(R[b]) /\ Len(R[b]) \in Nat
    BY <1>2 DEF Last
  <1>4. Last(pool, b - 1) = Len(R[b - 1])
    BY DEF Last
  <1> HIDE DEF seqs, R
  <1>5. CASE b = 1
    <2>1. R[b] = seqs[b]
      BY <1>2, <1>5
    <2>2. Last(pool, b) = Share(pool, b)
      BY <1>1, <1>3, <2>1
    <2>. QED BY <1>1, <1>5, <2>2 DEF Before
  <1>6. CASE b > 1
    <2>1. b - 1 \in Backends
      BY <1>1, <1>6
    <2>2. R[b] = R[b - 1] \o seqs[b] /\ R[b - 1] \in Seq(Backends) /\ seqs[b] \in Seq(Backends)
      BY <1>2, <1>6, <2>1
    <2>3. Len(R[b]) = Len(R[b - 1]) + Len(seqs[b]) /\ Len(R[b - 1]) \in Nat
      BY <2>2, ConcatLonger
    <2>. QED BY <1>1, <1>3, <1>4, <1>6, <2>3 DEF Before
  <1>7. b = 1 \/ b > 1
    BY <1>1
  <1>. QED BY <1>5, <1>6, <1>7

\* What is at a backend's places is that backend.
LEMMA OwnPlaces ==
  ASSUME NEW pool, NEW b \in Backends
  PROVE  /\ Places(pool) \in Seq(Backends) /\ Last(pool, b) <= Len(Places(pool))
         /\ Len(Places(pool)) = Last(pool, Len(Weights)) /\ Len(Weights) \in Backends
         /\ \A i \in 1 .. Len(Places(pool)) :
              Before(pool, b) < i /\ i <= Last(pool, b) => Places(pool)[i] = b
  <1> DEFINE seqs == Parts(pool)
             R == Running(seqs)
             n == Len(Weights)
  <1>1. /\ Backends = 1 .. n /\ n \in Nat \ {0}
        /\ seqs \in Seq(Seq(Backends)) /\ Len(seqs) = n
        /\ Share(pool, b) \in Nat /\ Len(seqs[b]) = Share(pool, b)
        /\ \A k \in 1 .. Share(pool, b) : seqs[b][k] = b
    BY PartsAreSeqs
  <1>2. n \in Backends /\ seqs /= <<>> /\ b <= n
    BY <1>1
  <1>3. Places(pool) = R[n]
    <2>1. Places(pool) = Flat!FlattenSeq(seqs)
      BY DEF Places, Parts
    <2>2. Flat!FlattenSeq(seqs) = R[Len(seqs)]
      BY <1>2 DEF Flat!FlattenSeq, Running
    <2>. QED BY <1>1, <2>1, <2>2
  <1>4. ASSUME NEW c \in Backends
        PROVE  /\ R[c] \in Seq(Backends) /\ seqs[c] \in Seq(Backends)
               /\ c = 1 => R[c] = seqs[c]
               /\ c > 1 => R[c] = R[c - 1] \o seqs[c]
    <2>1. c \in 1 .. Len(seqs)
      BY <1>1
    <2>2. seqs[c] \in Seq(Backends)
      BY <1>1, <2>1
    <2>. QED BY <1>1, <2>1, <2>2, RunningSteps, ZenonT(30)
  <1>5. Len(R[b]) <= Len(R[n]) /\ \A k \in 1 .. Len(R[b]) : R[n][k] = R[b][k]
    <2>1. b \in 1 .. Len(seqs) /\ n \in 1 .. Len(seqs)
      BY <1>1, <1>2
    <2>. QED BY <1>1, <1>2, <2>1, RunningPrefix, ZenonT(30)
  <1>6. \A c \in Backends : Last(pool, c) = Len(R[c])
    BY DEF Last
  <1>7. /\ Last(pool, b) \in Nat /\ Before(pool, b) \in Nat
        /\ Before(pool, b) = IF b = 1 THEN 0 ELSE Last(pool, b - 1)
        /\ Last(pool, b) = Before(pool, b) + Share(pool, b)
    <2>1. /\ Last(pool, b) \in Nat /\ Before(pool, b) \in Nat
          /\ Before(pool, b) = IF b = 1 THEN 0 ELSE Last(pool, b - 1)
      BY PlacesFollow
    <2>. QED BY <1>1, <2>1 DEF Before
  <1> HIDE DEF seqs, R, n
  <1>8. ASSUME NEW i \in 1 .. Len(Places(pool)), Before(pool, b) < i, i <= Last(pool, b)
        PROVE  Places(pool)[i] = b
    <2>1. i \in Nat /\ i \in 1 .. Len(R[b])
      <3>1. Len(R[n]) \in Nat BY <1>2, <1>4
      <3>. QED BY <1>3, <1>6, <1>7, <1>8, <3>1
    <2>2. Places(pool)[i] = R[b][i]
      BY <1>3, <1>5, <2>1
    <2>3. CASE b = 1
      BY <1>1, <1>4, <1>6, <1>7, <1>8, <2>1, <2>2, <2>3
    <2>4. CASE b > 1
      <3>1. b - 1 \in Backends
        BY <1>1, <2>4
      <3>2. R[b] = R[b - 1] \o seqs[b] /\ R[b - 1] \in Seq(Backends) /\ seqs[b] \in Seq(Backends)
        BY <1>4, <2>4, <3>1
      <3>3. Before(pool, b) = Len(R[b - 1])
        BY <1>6, <1>7, <2>4, <3>1
      <3>4. i - Len(R[b - 1]) \in 1 .. Share(pool, b) /\ ~ (i <= Len(R[b - 1]))
            /\ i \in 1 .. Len(R[b - 1]) + Len(seqs[b])
        <4> DEFINE l == Len(R[b - 1])
                   w == Share(pool, b)
        <4>1. l \in Nat /\ w \in Nat /\ l < i /\ i <= l + w /\ Len(seqs[b]) = w
          BY <1>1, <1>7, <1>8, <2>1, <3>2, <3>3
        <4>2. i \in Nat
          BY <2>1
        <4> HIDE DEF l, w
        <4>3. i - l \in 1 .. w /\ ~ (i <= l) /\ i \in 1 .. l + w
          BY <4>1, <4>2
        <4>. QED BY <4>1, <4>3 DEF l, w
      <3>5. (R[b - 1] \o seqs[b])[i] = seqs[b][i - Len(R[b - 1])]
        BY <3>2, <3>4, ConcatProperties
      <3>. QED BY <1>1, <2>2, <3>2, <3>4, <3>5
    <2>5. b = 1 \/ b > 1
      BY <1>1
    <2>. QED BY <2>3, <2>4, <2>5
  <1>. QED BY <1>2, <1>3, <1>4, <1>5, <1>6, <1>8 DEF n

\* Each place is within those of one backend, and of no other.
LEMMA PlaceIsOwned ==
  ASSUME NEW pool, NEW i \in 1 .. Len(Places(pool)), NEW b \in Backends
  PROVE  Places(pool)[i] = b <=> Before(pool, b) < i /\ i <= Last(pool, b)
  <1> DEFINE n == Len(Weights)
             Past == {c \in Backends : i <= Last(pool, c)}
  <1>1. /\ Backends = 1 .. n /\ n \in Backends /\ Len(Places(pool)) = Last(pool, n)
        /\ Places(pool) \in Seq(Backends) /\ i \in Nat
    BY PartsAreSeqs, OwnPlaces
  <1>2. PICK c \in Past : \A d \in Past : c <= d
    <2>1. n \in Past BY <1>1
    <2>2. Past \subseteq Nat BY <1>1
    <2>. QED BY <2>1, <2>2, LeastOne
  <1>3. c \in Backends /\ i <= Last(pool, c)
    BY <1>2
  <1>4. /\ Last(pool, c) \in Nat /\ Before(pool, c) \in Nat
        /\ Before(pool, c) = IF c = 1 THEN 0 ELSE Last(pool, c - 1)
    BY <1>3, PlacesFollow
  <1>5. Before(pool, c) < i
    <2>1. CASE c = 1 BY <1>1, <1>4, <2>1
    <2>2. CASE c /= 1
      <3>1. c - 1 \in Backends /\ ~ (c <= c - 1) BY <1>1, <1>3, <2>2
      <3>2. c - 1 \notin Past
        <4> HIDE DEF Past
        <4>. QED BY <1>2, <3>1
      <3>3. ~ (i <= Last(pool, c - 1)) BY <3>1, <3>2
      <3>4. Last(pool, c - 1) \in Nat BY <3>1, PlacesFollow
      <3>. QED BY <1>1, <1>4, <2>2, <3>3, <3>4
    <2>. QED BY <2>1, <2>2
  <1>6. Places(pool)[i] = c
    BY <1>3, <1>5, OwnPlaces
  <1>7. Before(pool, b) < i /\ i <= Last(pool, b) => Places(pool)[i] = b
    BY OwnPlaces
  <1>. QED BY <1>3, <1>5, <1>6, <1>7

\* A pool that is not empty has a place.
LEMMA PlacesExist ==
  ASSUME NEW pool, pool \subseteq Backends, pool /= {}
  PROVE  Len(Places(pool)) \in Nat \ {0}
  <1>1. PICK b \in pool : TRUE
    OBVIOUS
  <1>2. Share(pool, b) \in Nat \ {0}
    BY <1>1, BackendsAssumption DEF Share, Backends
  <1>3. Last(pool, b) \in Nat /\ Before(pool, b) \in Nat /\ Last(pool, b) <= Len(Places(pool))
        /\ Places(pool) \in Seq(Backends)
    BY <1>1, PlacesFollow, OwnPlaces
  <1>4. Len(Places(pool)) \in Nat
    BY <1>3
  <1>. QED BY <1>2, <1>3, <1>4 DEF Before

\* What is left of the first none, the first one, ... of some places when each
\* backend is kept where it comes first.
Kept(s) ==
  CHOOSE f : f = [n \in 0 .. Len(s) |-> IF n = 0 THEN <<>> ELSE WithNext(f[n - 1], s[n])]

\* There is such a function.
LEMMA KeptExist ==
  ASSUME NEW s, Len(s) \in Nat
  PROVE  Kept(s) =
           [n \in 0 .. Len(s) |->
              IF n = 0 THEN <<>> ELSE WithNext(Kept(s)[n - 1], s[n])]
  <1> DEFINE Upto(n, f) ==
               f = [i \in 0 .. n |-> IF i = 0 THEN <<>> ELSE WithNext(f[i - 1], s[i])]
             Bad == {n \in Nat : ~ \E f : Upto(n, f)}
  <1>1. SUFFICES Bad = {}
    BY DEF Kept
  <1>2. SUFFICES ASSUME Bad /= {} PROVE FALSE
    OBVIOUS
  <1>3. PICK n \in Bad : \A m \in Bad : n <= m
    <2>1. Bad \subseteq Nat OBVIOUS
    <2>. QED BY <1>2, <2>1, LeastOne
  <1>4. n /= 0
    <2>1. Upto(0, [i \in 0 .. 0 |-> <<>>])
      OBVIOUS
    <2>. QED BY <2>1
  <1>5. PICK f : Upto(n - 1, f)
    <2>1. n - 1 \in Nat /\ n - 1 < n BY <1>4
    <2>2. \A m \in Bad : n <= m BY <1>3
    <2>3. n \in Nat OBVIOUS
    <2> HIDE DEF Bad
    <2>4. n - 1 \notin Bad BY <2>1, <2>2, <2>3
    <2>. QED BY <2>1, <2>4 DEF Bad
  <1> DEFINE g == [i \in 0 .. n |-> IF i = n THEN WithNext(f[n - 1], s[n]) ELSE f[i]]
  <1>6. ASSUME NEW i \in 0 .. n
        PROVE  g[i] = IF i = 0 THEN <<>> ELSE WithNext(g[i - 1], s[i])
    <2>1. CASE i = n
      BY <1>4, <2>1
    <2>2. CASE i /= n
      <3>1. i \in 0 .. n - 1 BY <2>2
      <3>2. f[i] = IF i = 0 THEN <<>> ELSE WithNext(f[i - 1], s[i])
        BY <1>5, <3>1
      <3>3. g[i] = f[i] BY <2>2
      <3>4. i /= 0 => g[i - 1] = f[i - 1] BY <3>1
      <3>. QED BY <3>2, <3>3, <3>4
    <2>. QED BY <2>1, <2>2
  <1>7. Upto(n, g)
    <2>1. g = [i \in 0 .. n |-> g[i]] OBVIOUS
    <2> HIDE DEF g
    <2>. QED BY <1>6, <2>1
  <1>. QED BY <1>3, <1>7


\* t has each of the first k elements of s once, and begins as s does.
KeepsEach(S, s, k, t) ==
  /\ t \in Seq(S)
  /\ \A i, j \in 1 .. Len(t) : t[i] = t[j] => i = j
  /\ \A i \in 1 .. k : \E j \in 1 .. Len(t) : t[j] = s[i]
  /\ \A j \in 1 .. Len(t) : \E i \in 1 .. k : t[j] = s[i]
  /\ k > 0 => Len(t) > 0 /\ t[1] = s[1]

LEMMA NextIsKept ==
  ASSUME NEW S, NEW s \in Seq(S), NEW k \in 1 .. Len(s), NEW t, KeepsEach(S, s, k - 1, t)
  PROVE  KeepsEach(S, s, k, WithNext(t, s[k]))
  <1> DEFINE u == WithNext(t, s[k])
             more == Append(t, s[k])
  <1>1. /\ t \in Seq(S) /\ Len(t) \in Nat /\ DOMAIN t = 1 .. Len(t) /\ Len(s) \in Nat
        /\ s[k] \in S /\ k \in Nat
    BY DEF KeepsEach
  <1>2. 1 .. k = (1 .. k - 1) \cup {k}
    BY <1>1
  <1>3. CASE \E i \in 1 .. Len(t) : t[i] = s[k]
    <2>1. u = t
      BY <1>1, <1>3 DEF WithNext
    <2>2. \A i \in 1 .. k : \E j \in 1 .. Len(t) : t[j] = s[i]
      BY <1>2, <1>3 DEF KeepsEach
    <2>3. \A j \in 1 .. Len(t) : \E i \in 1 .. k : t[j] = s[i]
      BY <1>2 DEF KeepsEach
    <2>4. Len(t) > 0 /\ t[1] = s[1]
      <3>1. CASE k = 1
        BY <1>3, <3>1 DEF KeepsEach
      <3>2. CASE k > 1
        BY <1>1, <3>2 DEF KeepsEach
      <3>. QED BY <1>1, <3>1, <3>2
    <2>5. \A i, j \in 1 .. Len(t) : t[i] = t[j] => i = j
      BY DEF KeepsEach
    <2>. QED BY <1>1, <2>1, <2>2, <2>3, <2>4, <2>5 DEF KeepsEach
  <1>4. CASE ~ \E i \in 1 .. Len(t) : t[i] = s[k]
    <2>1. u = more
      BY <1>1, <1>4 DEF WithNext
    <2>2. /\ more \in Seq(S) /\ Len(more) = Len(t) + 1 /\ more[Len(t) + 1] = s[k]
          /\ \A i \in 1 .. Len(t) : more[i] = t[i]
      BY <1>1, AppendProperties
    <2>3. 1 .. Len(more) = (1 .. Len(t)) \cup {Len(t) + 1}
      BY <1>1, <2>2
    <2> HIDE DEF more
    <2>4. ASSUME NEW i \in 1 .. Len(more), NEW j \in 1 .. Len(more), more[i] = more[j] PROVE i = j
      <3>1. CASE i \in 1 .. Len(t) /\ j \in 1 .. Len(t)
        BY <2>2, <2>4, <3>1 DEF KeepsEach
      <3>2. CASE i = Len(t) + 1 /\ j \in 1 .. Len(t)
        BY <1>4, <2>2, <2>4, <3>2
      <3>3. CASE i \in 1 .. Len(t) /\ j = Len(t) + 1
        BY <1>4, <2>2, <2>4, <3>3
      <3>. QED BY <2>3, <3>1, <3>2, <3>3
    <2>5. ASSUME NEW i \in 1 .. k PROVE \E j \in 1 .. Len(more) : more[j] = s[i]
      <3>1. CASE i = k
        BY <2>2, <2>3, <3>1
      <3>2. CASE i \in 1 .. k - 1
        <4>1. PICK j \in 1 .. Len(t) : t[j] = s[i]
          BY <3>2 DEF KeepsEach
        <4>. QED BY <2>2, <2>3, <4>1
      <3>. QED BY <1>2, <3>1, <3>2
    <2>6. ASSUME NEW j \in 1 .. Len(more) PROVE \E i \in 1 .. k : more[j] = s[i]
      <3>1. CASE j = Len(t) + 1
        BY <1>1, <2>2, <3>1
      <3>2. CASE j \in 1 .. Len(t)
        <4>1. PICK i \in 1 .. k - 1 : t[j] = s[i]
          BY <3>2 DEF KeepsEach
        <4>. QED BY <1>2, <2>2, <3>2, <4>1
      <3>. QED BY <2>3, <3>1, <3>2
    <2>7. Len(more) > 0 /\ more[1] = s[1]
      <3>1. CASE k = 1
        <4>1. Len(t) = 0
          <5>1. 1 .. k - 1 = {} BY <3>1
          <5>2. \A j \in 1 .. Len(t) : FALSE BY <5>1 DEF KeepsEach
          <5>. QED BY <1>1, <5>2
        <4>. QED BY <2>2, <3>1, <4>1
      <3>2. CASE k > 1
        <4>1. Len(t) > 0 /\ t[1] = s[1]
          BY <1>1, <3>2 DEF KeepsEach
        <4>. QED BY <1>1, <2>2, <4>1
      <3>. QED BY <1>1, <3>1, <3>2
    <2>8. KeepsEach(S, s, k, more)
      BY <2>2, <2>4, <2>5, <2>6, <2>7 DEF KeepsEach
    <2>. QED BY <2>1, <2>8
  <1>. QED BY <1>3, <1>4

\* The order of a request has each backend once, and begins as the places do.
LEMMA DistinctKeeps ==
  ASSUME NEW S, NEW s \in Seq(S)
  PROVE  KeepsEach(S, s, Len(s), Distinct(s))
  <1> DEFINE n == Len(s)
             f == Kept(s)
             Bad == {k \in 0 .. n : ~ KeepsEach(S, s, k, f[k])}
  <1>1. n \in Nat
    OBVIOUS
  <1>2. Distinct(s) = f[n]
    BY DEF Distinct, Kept
  <1>3. \A k \in 0 .. n : f[k] = IF k = 0 THEN <<>> ELSE WithNext(f[k - 1], s[k])
    <2>1. f = [k \in 0 .. n |-> IF k = 0 THEN <<>> ELSE WithNext(f[k - 1], s[k])]
      BY <1>1, KeptExist
    <2> HIDE DEF f
    <2>. QED BY <2>1
  <1> HIDE DEF n, f
  <1>4. ASSUME Bad /= {} PROVE FALSE
    <2>1. Bad \subseteq Nat BY <1>1
    <2>2. PICK k \in Bad : \A m \in Bad : k <= m BY <1>4, <2>1, LeastOne
    <2>3. k \in 0 .. n /\ ~ KeepsEach(S, s, k, f[k]) BY <2>2
    <2>4. k /= 0
      <3>1. f[0] = <<>> BY <1>1, <1>3
      <3>2. KeepsEach(S, s, 0, <<>>)
        BY EmptySeq DEF KeepsEach
      <3>. QED BY <2>3, <3>1, <3>2
    <2>5. k \in 1 .. n /\ k - 1 \in 0 .. n BY <1>1, <2>3, <2>4
    <2>6. k - 1 \notin Bad
      <3>1. ~ (k <= k - 1) BY <2>5
      <3> HIDE DEF Bad
      <3>. QED BY <2>2, <3>1
    <2>7. KeepsEach(S, s, k - 1, f[k - 1]) BY <2>5, <2>6
    <2>8. f[k] = WithNext(f[k - 1], s[k]) BY <1>3, <2>3, <2>4
    <2>9. KeepsEach(S, s, k, f[k])
      BY <2>5, <2>7, <2>8, NextIsKept DEF n
    <2>. QED BY <2>3, <2>9
  <1>5. KeepsEach(S, s, n, f[n])
    BY <1>1, <1>4
  <1>. QED BY <1>2, <1>5 DEF n

\* The first of the rotated places is that of the turn.
LEMMA RotatedBegins ==
  ASSUME NEW S, NEW s \in Seq(S), NEW by \in 0 .. Len(s) - 1
  PROVE  /\ Rotated(s, by) \in Seq(S) /\ Len(Rotated(s, by)) = Len(s)
         /\ Rotated(s, by)[1] = s[by + 1]
         /\ \A i \in 1 .. Len(s) : \E j \in 1 .. Len(s) : Rotated(s, by)[j] = s[i]
  <1> DEFINE first == SubSeq(s, by + 1, Len(s))
             last == SubSeq(s, 1, by)
  <1>1. Len(s) \in Nat /\ by \in Nat /\ by + 1 \in 1 .. Len(s)
    OBVIOUS
  <1>2. /\ first \in Seq(S) /\ Len(first) = Len(s) - by
        /\ \A i \in 1 .. Len(s) - by : first[i] = s[by + i]
    BY <1>1, SubSeqProperties
  <1>3. last \in Seq(S) /\ Len(last) = by /\ \A i \in 1 .. by : last[i] = s[i]
    BY <1>1, SubSeqProperties
  <1>4. /\ first \o last \in Seq(S) /\ Len(first \o last) = Len(first) + Len(last)
        /\ \A i \in 1 .. Len(first) + Len(last) : (first \o last)[i] =
             IF i <= Len(first) THEN first[i] ELSE last[i - Len(first)]
    BY <1>2, <1>3, ConcatProperties
  <1>5. Rotated(s, by) = first \o last
    BY DEF Rotated
  <1> DEFINE all == first \o last
  <1> HIDE DEF first, last
  <1>6. Len(all) = Len(s) /\ all[1] = s[by + 1]
    BY <1>1, <1>2, <1>3, <1>4
  <1>7. ASSUME NEW i \in 1 .. Len(s) PROVE \E j \in 1 .. Len(s) : all[j] = s[i]
    <2>1. CASE i > by
      <3>1. i - by \in 1 .. Len(s) - by /\ by + (i - by) = i /\ i - by \in 1 .. Len(s)
        BY <1>1, <2>1
      <3>2. all[i - by] = s[i]
        BY <1>1, <1>2, <1>3, <1>4, <3>1
      <3>. QED BY <3>1, <3>2
    <2>2. CASE i <= by
      <3>1. /\ Len(s) - by + i \in 1 .. Len(s) /\ ~ (Len(s) - by + i <= Len(s) - by)
            /\ Len(s) - by + i - (Len(s) - by) = i /\ i \in 1 .. by
        BY <1>1, <2>2
      <3>2. all[Len(s) - by + i] = s[i]
        <4> DEFINE j == Len(s) - by + i
        <4>1. Len(first) = Len(s) - by /\ Len(first) + Len(last) = Len(s)
          BY <1>1, <1>2, <1>3
        <4>2. all[j] = last[j - Len(first)]
          BY <1>4, <3>1, <4>1
        <4>. QED BY <1>3, <3>1, <4>1, <4>2
      <3>. QED BY <3>1, <3>2
    <2>3. i > by \/ i <= by
      BY <1>1
    <2>. QED BY <2>1, <2>2, <2>3
  <1>. QED BY <1>4, <1>5, <1>6, <1>7

\* How often a backend has led when so many turns of a round were taken.
Lead(pool, b, turns) ==
  IF turns <= Before(pool, b) THEN 0
  ELSE IF Last(pool, b) <= turns THEN Share(pool, b)
  ELSE turns - Before(pool, b)

LeadInv ==
  /\ turn \in [SUBSET Backends -> Nat]
  /\ led \in [SUBSET Backends -> [Backends -> Nat]]
  /\ \A p \in SUBSET Backends :
       \/ turn[p] > 0 /\ turn[p] < Len(Places(p)) /\ \A b \in Backends : led[p][b] = Lead(p, b, turn[p])
       \/ turn[p] = 0 /\ \A b \in Backends : led[p][b] = 0
       \/ turn[p] = 0 /\ \A b \in Backends : led[p][b] = Share(p, b)

\* The next turn is the next place's.
LEMMA LeadGrows ==
  ASSUME NEW pool, NEW turns \in Nat, turns < Len(Places(pool)), NEW b \in Backends
  PROVE  /\ Lead(pool, b, turns) \in Nat /\ Lead(pool, b, 0) = 0
         /\ Lead(pool, b, turns + 1) =
              IF Places(pool)[turns + 1] = b THEN Lead(pool, b, turns) + 1 ELSE Lead(pool, b, turns)
  <1>1. /\ Last(pool, b) \in Nat /\ Before(pool, b) \in Nat /\ Share(pool, b) \in Nat
        /\ Last(pool, b) = Before(pool, b) + Share(pool, b)
    <2>1. Last(pool, b) \in Nat /\ Before(pool, b) \in Nat /\ Share(pool, b) \in Nat
      BY PlacesFollow, PartsAreSeqs
    <2>. QED BY <2>1 DEF Before
  <1>2. turns + 1 \in 1 .. Len(Places(pool))
    <2>1. Len(Places(pool)) \in Nat BY OwnPlaces
    <2>. QED BY <2>1
  <1>3. Places(pool)[turns + 1] = b <=> Before(pool, b) < turns + 1 /\ turns + 1 <= Last(pool, b)
    BY <1>2, PlaceIsOwned
  <1>. QED BY <1>1, <1>3 DEF Lead

\* What a request takes from the rotation of its pool.
LEMMA DispatchTakesAPlace ==
  ASSUME LeadInv, NEW pool \in SUBSET Backends, pool /= {}
  PROVE  LET order == Distinct(Rotated(Places(pool), turn[pool])) IN
         /\ turn[pool] \in Nat /\ turn[pool] < Len(Places(pool))
         /\ Len(order) > 0 /\ order[1] = Places(pool)[turn[pool] + 1] /\ order[1] \in Backends
         /\ KeepsEach(Backends, Rotated(Places(pool), turn[pool]), Len(Places(pool)), order)
  <1> DEFINE s == Places(pool)
             t == turn[pool]
             r == Rotated(s, t)
             order == Distinct(r)
  <1>1. s \in Seq(Backends) /\ Len(s) \in Nat \ {0}
    <2>1. Len(Weights) \in Backends BY PartsAreSeqs
    <2>. QED BY <2>1, OwnPlaces, PlacesExist
  <1>2. t \in Nat /\ t < Len(s)
    BY <1>1 DEF LeadInv
  <1>3. r \in Seq(Backends) /\ Len(r) = Len(s) /\ r[1] = s[t + 1]
    <2>1. t \in 0 .. Len(s) - 1 BY <1>1, <1>2
    <2> HIDE DEF s, t
    <2>. QED BY <1>1, <2>1, RotatedBegins
  <1>4. KeepsEach(Backends, r, Len(s), order)
    <2> HIDE DEF s, r
    <2>. QED BY <1>3, DistinctKeeps
  <1>5. Len(order) > 0 /\ order[1] = r[1] /\ order \in Seq(Backends)
    BY <1>1, <1>4 DEF KeepsEach
  <1>6. order[1] \in Backends
    <2> HIDE DEF order
    <2>. QED BY <1>5
  <1>. QED BY <1>2, <1>3, <1>4, <1>5, <1>6

LEMMA DispatchKeepsLead ==
  ASSUME LeadInv, NEW c \in Callers, NEW nodes \in SUBSET Backends, Dispatch(c, nodes)
  PROVE  LeadInv'
  <1> DEFINE pool == Pool(nodes)
             t == turn[pool]
             order == Distinct(Rotated(Places(pool), t))
             round == IF t = 0 THEN [b \in Backends |-> 0] ELSE led[pool]
             b0 == order[1]
             n == Len(Places(pool))
  <1>1. pool \in SUBSET Backends /\ pool /= {}
    BY DEF Pool, Dispatchable, Dispatch
  <1>2. /\ t \in Nat /\ t < n /\ b0 = Places(pool)[t + 1] /\ b0 \in Backends /\ n \in Nat
    <2>1. n \in Nat BY <1>1, PlacesExist
    <2>. QED BY <1>1, <2>1, DispatchTakesAPlace
  <1>3. /\ turn' = [turn EXCEPT ![pool] = (t + 1) % n]
        /\ led' = [led EXCEPT ![pool] = [round EXCEPT ![b0] = round[b0] + 1]]
    BY DEF Dispatch, NextPlace
  <1>4. round \in [Backends -> Nat] /\ \A b \in Backends : round[b] = Lead(pool, b, t)
    <2>1. CASE t = 0
      BY <1>2, <2>1, LeadGrows
    <2>2. CASE t /= 0
      BY <1>1, <2>2 DEF LeadInv
    <2>. QED BY <2>1, <2>2
  <1> HIDE DEF round, order, b0, n, t, pool
  <1>5. /\ turn'[pool] = (t + 1) % n
        /\ led'[pool] = [round EXCEPT ![b0] = round[b0] + 1]
        /\ \A p \in SUBSET Backends : p /= pool => turn'[p] = turn[p] /\ led'[p] = led[p]
    BY <1>1, <1>3 DEF LeadInv
  <1>6. led'[pool] \in [Backends -> Nat] /\ \A b \in Backends : led'[pool][b] = Lead(pool, b, t + 1)
    <2>1. \A b \in Backends : Lead(pool, b, t + 1) = IF b0 = b THEN Lead(pool, b, t) + 1 ELSE Lead(pool, b, t)
      BY <1>2, LeadGrows DEF n
    <2>. QED BY <1>2, <1>4, <1>5, <2>1
  <1>7. \/ turn'[pool] = t + 1 /\ t + 1 < n
        \/ turn'[pool] = 0 /\ t + 1 = n
    BY <1>2, <1>5
  <1>8. ASSUME t + 1 = n, NEW b \in Backends PROVE Lead(pool, b, t + 1) = Share(pool, b)
    <2>1. Last(pool, b) <= n /\ Last(pool, b) \in Nat /\ Before(pool, b) \in Nat /\ Share(pool, b) \in Nat
      BY OwnPlaces, PlacesFollow, PartsAreSeqs DEF n
    <2>2. Last(pool, b) = Before(pool, b) + Share(pool, b)
      BY <2>1 DEF Before
    <2>. QED BY <1>2, <1>8, <2>1, <2>2 DEF Lead
  <1>9. /\ turn' \in [SUBSET Backends -> Nat]
        /\ led' \in [SUBSET Backends -> [Backends -> Nat]]
    <2>1. turn'[pool] \in Nat BY <1>2, <1>7
    <2>2. \A p \in SUBSET Backends : turn'[p] \in Nat /\ led'[p] \in [Backends -> Nat]
      BY <1>5, <1>6, <2>1 DEF LeadInv
    <2>3. turn' = [p \in SUBSET Backends |-> turn'[p]] /\ led' = [p \in SUBSET Backends |-> led'[p]]
      BY <1>3 DEF LeadInv
    <2>. QED BY <2>2, <2>3
  <1>10. ASSUME NEW p \in SUBSET Backends
         PROVE  \/ turn'[p] > 0 /\ turn'[p] < Len(Places(p)) /\ \A b \in Backends : led'[p][b] = Lead(p, b, turn'[p])
                \/ turn'[p] = 0 /\ \A b \in Backends : led'[p][b] = 0
                \/ turn'[p] = 0 /\ \A b \in Backends : led'[p][b] = Share(p, b)
    <2>1. CASE p /= pool
      BY <1>5, <2>1 DEF LeadInv
    <2>2. CASE p = pool /\ t + 1 < n
      BY <1>2, <1>6, <1>7, <2>2 DEF n
    <2>3. CASE p = pool /\ t + 1 = n
      BY <1>2, <1>6, <1>7, <1>8, <2>3
    <2>. QED BY <1>7, <2>1, <2>2, <2>3
  <1>11. \A p, b : Lead(p, b, turn'[p]) = Lead(p, b, turn[p])' /\ Len(Places(p)) = Len(Places(p))'
                   /\ Share(p, b)' = Share(p, b)
    BY DEF Lead, Before, Last, Share, Places, PlacesOf, Parts, Running
  <1>. QED BY <1>9, <1>10, <1>11 DEF LeadInv

\* The rotation (_build_backend_order of app/services/ai_pipeline.py) is where the
\* places say: whoever leads has led as often in this round as places of its own
\* have had their turn.
THEOREM RotationInvariant == BackendsSpec => []LeadInv
  <1>1. BackendsInit => LeadInv
    BY DEF BackendsInit, LeadInv
  <1>2. LeadInv /\ [BackendsNext]_backendVars => LeadInv'
    <2> SUFFICES ASSUME LeadInv, [BackendsNext]_backendVars PROVE LeadInv'
      OBVIOUS
    <2>1. ASSUME NEW c \in Callers, Dispatch(c, Backends) PROVE LeadInv'
      BY <2>1, DispatchKeepsLead
    <2>2. ASSUME NEW c \in Callers, Transcribe(c) PROVE LeadInv'
      BY <2>2, BackendsAssumption, DispatchKeepsLead DEF Transcribe
    <2>3. ASSUME UNCHANGED <<turn, led>> PROVE LeadInv'
      BY <2>3, ZenonT(30) DEF LeadInv, Lead, Before, Last, Share, Places, PlacesOf, Parts, Running
    <2>4. ASSUME NEW c \in Callers, Request(c) PROVE LeadInv'
      BY <2>3, <2>4 DEF Request, Answered, FrameAnswered, Unreadable, Refused, Answers, GoesOn
    <2>5. ASSUME SwitchCooldownOff \/ Elapse \/ BackendChanges PROVE LeadInv'
      BY <2>3, <2>5 DEF SwitchCooldownOff, Elapse, BackendChanges
    <2>6. CASE UNCHANGED backendVars
      BY <2>3, <2>6 DEF backendVars
    <2>. QED BY <2>1, <2>2, <2>4, <2>5, <2>6 DEF BackendsNext, SomeDispatch
  <1>. QED BY <1>1, <1>2, PTL DEF BackendsSpec

\* Whatever the weights are, and whichever backends fail and recover while others
\* are asked, a round of a pool's rotation gives each the lead as often as its
\* weight says.
THEOREM RoundsAreFair == BackendsSpec => []LeadsByWeight
  <1>1. LeadInv => LeadsByWeight
    <2> SUFFICES ASSUME LeadInv, NEW p \in SUBSET Backends, turn[p] = 0, NEW b \in p, led[p][b] > 0,
                        NEW c \in p
                 PROVE  led[p][c] = Weights[c]
      BY DEF LeadsByWeight
    <2>1. \A d \in Backends : led[p][d] = Share(p, d)
      BY SMTT(30) DEF LeadInv
    <2>. QED BY <2>1, SMTT(30) DEF Share
  <1>. QED BY <1>1, RotationInvariant, PTL

\* The places of a pool are those of its backends, and each has one.
LEMMA PlacesAreOfThePool ==
  ASSUME NEW pool \in SUBSET Backends
  PROVE  /\ Places(pool) \in Seq(pool)
         /\ \A b \in pool : \E i \in 1 .. Len(Places(pool)) : Places(pool)[i] = b
  <1> DEFINE s == Places(pool)
             n == Len(s)
  <1>1. s \in Seq(Backends) /\ n \in Nat
    <2>1. Len(Weights) \in Backends BY PartsAreSeqs
    <2>2. s \in Seq(Backends) BY <2>1, OwnPlaces
    <2> HIDE DEF s
    <2>. QED BY <2>2
  <1>2. ASSUME NEW i \in 1 .. n PROVE s[i] \in pool
    <2> DEFINE b == s[i]
    <2>1. b \in Backends
      BY <1>1
    <2>2. Before(pool, b) < i /\ i <= Last(pool, b)
      BY <2>1, PlaceIsOwned
    <2>3. Last(pool, b) \in Nat /\ Before(pool, b) = Last(pool, b) - Share(pool, b) /\ i \in Nat
      BY <2>1, PlacesFollow DEF Before
    <2>4. Share(pool, b) /= 0
      BY <2>2, <2>3
    <2>. QED BY <2>4 DEF Share
  <1>3. s \in Seq(pool)
    <2> HIDE DEF s
    <2>1. s = [i \in 1 .. n |-> s[i]] BY <1>1
    <2>. QED BY <1>1, <1>2, <2>1, IsASeq
  <1>4. ASSUME NEW b \in pool PROVE \E i \in 1 .. n : s[i] = b
    <2>1. Share(pool, b) \in Nat \ {0}
      BY BackendsAssumption DEF Share, Backends
    <2>2. /\ Last(pool, b) \in Nat /\ Before(pool, b) \in Nat /\ Last(pool, b) <= n
          /\ Before(pool, b) = Last(pool, b) - Share(pool, b)
      BY PlacesFollow, OwnPlaces DEF Before
    <2>3. Last(pool, b) \in 1 .. n /\ Before(pool, b) < Last(pool, b) /\ Last(pool, b) <= Last(pool, b)
      BY <1>1, <2>1, <2>2
    <2>. QED BY <2>3, PlaceIsOwned
  <1>. QED BY <1>3, <1>4

\* Each thread has an order of backends that are left.
BackendsTyped == DOMAIN left = Callers

\* A request gets an order that has each backend of its pool once.
AllAreAsked(c, nodes) ==
  Dispatch(c, nodes) =>
    /\ left'[c] \in Seq(Pool(nodes))
    /\ \A b \in Pool(nodes) : \E i \in 1 .. Len(left'[c]) : left'[c][i] = b
    /\ \A i, j \in 1 .. Len(left'[c]) : left'[c][i] = left'[c][j] => i = j

AsksEachOnce ==
  [][\A c \in Callers, nodes \in SUBSET Backends : AllAreAsked(c, nodes)]_backendVars

\* No backend that is not cooling down is left out of a request's order or asked
\* twice for it (_build_backend_order), whatever the weights and the turn.
THEOREM NobodyIsLeftOut == BackendsSpec => AsksEachOnce
  <1>1. LeadInv /\ BackendsTyped /\ [BackendsNext]_backendVars =>
          [\A c \in Callers, nodes \in SUBSET Backends : AllAreAsked(c, nodes)]_backendVars
    <2> SUFFICES ASSUME LeadInv, BackendsTyped, NEW c \in Callers, NEW nodes \in SUBSET Backends,
                        Dispatch(c, nodes)
                 PROVE  AllAreAsked(c, nodes)
      BY DEF AllAreAsked
    <2> DEFINE pool == Pool(nodes)
               s == Places(pool)
               t == turn[pool]
               r == Rotated(s, t)
               order == Distinct(r)
    <2>1. pool \in SUBSET Backends /\ pool /= {}
      BY DEF Pool, Dispatchable, Dispatch
    <2>2. left' = [left EXCEPT ![c] = order]
      BY DEF Dispatch
    <2>3. left'[c] = order
      BY <2>2 DEF BackendsTyped
    <2>4. t \in Nat /\ t < Len(s)
      BY <2>1, DispatchTakesAPlace
    <2>5. s \in Seq(pool) /\ \A b \in pool : \E i \in 1 .. Len(s) : s[i] = b
      BY <2>1, PlacesAreOfThePool
    <2> HIDE DEF s, t, pool, order
    <2>6. /\ r \in Seq(pool) /\ Len(r) = Len(s)
          /\ \A i \in 1 .. Len(s) : \E j \in 1 .. Len(s) : r[j] = s[i]
      <3>1. t \in 0 .. Len(s) - 1 BY <2>4, <2>5
      <3>. QED BY <2>5, <3>1, RotatedBegins
    <2> HIDE DEF r
    <2>7. KeepsEach(pool, r, Len(s), order)
      BY <2>6, DistinctKeeps DEF order
    <2>8. \A b \in pool : \E i \in 1 .. Len(order) : order[i] = b
      <3> SUFFICES ASSUME NEW b \in pool PROVE \E i \in 1 .. Len(order) : order[i] = b
        OBVIOUS
      <3>1. PICK i \in 1 .. Len(s) : s[i] = b BY <2>5
      <3>2. PICK j \in 1 .. Len(s) : r[j] = b BY <2>6, <3>1
      <3>. QED BY <2>7, <3>2 DEF KeepsEach
    <2>9. order \in Seq(pool) /\ \A i, j \in 1 .. Len(order) : order[i] = order[j] => i = j
      BY <2>7 DEF KeepsEach
    <2>. QED BY <2>3, <2>8, <2>9 DEF AllAreAsked, pool
  <1>2. BackendsInit => BackendsTyped
    BY DEF BackendsInit, BackendsTyped
  <1>3. BackendsTyped /\ [BackendsNext]_backendVars => BackendsTyped'
    BY DEF BackendsTyped, BackendsNext, backendVars, SomeDispatch, Transcribe, Dispatch, Request, Answered,
           FrameAnswered, Unreadable, Refused, Answers, GoesOn, SwitchCooldownOff, Elapse, BackendChanges
  <1>. QED BY <1>1, <1>2, <1>3, RotationInvariant, PTL DEF BackendsSpec, AsksEachOnce

=============================================================================
