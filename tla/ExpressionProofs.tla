-------------------------- MODULE ExpressionProofs --------------------------
(***************************************************************************)
(* Proofs about the expression layer and the commands around it, for any    *)
(* number of processes, texts, receipts and versions: promotions stand,     *)
(* writes to receipts can be undone, a valid text was written part by part, *)
(* verdicts on fixtures follow from their runs, a prompt that is ready can  *)
(* be generated from, and a second bootstrap heals what the first left.     *)
(***************************************************************************)
EXTENDS
  ExpressionArtifacts, ReceiptAttribution, TextSections, GoldenReplay,
  PromptRegistry, SequenceTheorems, FiniteSetTheorems, WellFoundedInduction, TLAPS

-----------------------------------------------------------------------------
(* ExpressionArtifacts *)

Rows ==
  [status : ArtifactStatuses, errors : BOOLEAN, failsFrom : Nat, contract : 1 .. MaxContracts,
   promoted : BOOLEAN, supersedes : {LatestOf(ids) : ids \in SUBSET Nat}]

Sessions ==
  [at : {"idle", "loaded", "found", "selected"}, target : Nat, loaded : Rows,
   found : SUBSET Nat, stale : BOOLEAN]

ExpressionTypes ==
  /\ kind \in {"employee", "manager"}
  /\ artifacts \in Seq(Rows)
  /\ rules \in Nat /\ contract \in 1 .. MaxContracts
  /\ operator \in [Operators -> Sessions]
  /\ promotedLast \in [1 .. MaxContracts -> Nat]
  /\ overlapped \in [1 .. MaxContracts -> BOOLEAN]

PromotedOf(c) == {a \in PromotedIds : artifacts[a].contract = c}

\* What an operator has loaded is what the rows hold, until another session commits:
\* the row it promotes, those that give way to it, and those it may withdraw.
SessionFits(s) ==
  /\ s.at \in {"loaded", "found"} =>
       /\ s.target \in Ids /\ s.loaded.contract = artifacts[s.target].contract
       /\ ~s.stale => s.loaded = artifacts[s.target]
  /\ s.at = "found" =>
       /\ \A b \in s.found : b \in Ids /\ artifacts[b].contract = artifacts[s.target].contract
       /\ ~s.stale => s.found = GivesWay(s.target)
  /\ s.at = "selected" =>
       /\ s.found \subseteq Ids
       /\ ~s.stale => s.found \cap PromotedIds = {}

\* The promotions to one contract, so long as none overlapped another session.
PromotionsHold(c) ==
  ~overlapped[c] =>
    /\ \A a \in PromotedOf(c) : artifacts[a].status = "promoted_valid"
    /\ kind = "employee" /\ promotedLast[c] /= 0 => PromotedOf(c) = {promotedLast[c]}

ExpressionInv ==
  /\ ExpressionTypes
  /\ \A o \in Operators : SessionFits(operator[o])
  /\ \A c \in 1 .. MaxContracts : PromotionsHold(c)

LEMMA NewArtifact ==
  ASSUME ExpressionAssumption, NEW status \in ArtifactStatuses, NEW errors \in BOOLEAN,
         NEW failsFrom \in Nat, NEW version \in 1 .. MaxContracts
  PROVE  Artifact(status, errors, failsFrom, version) \in Rows
<1>1. LatestOf({}) = 0
  BY DEF LatestOf
<1>2. 0 \in {LatestOf(ids) : ids \in SUBSET Nat}
  BY <1>1
<1>3. QED
  BY <1>2 DEF Artifact, Rows

LEMMA NoSessionFits == ExpressionAssumption => NoSession \in Sessions
<1> SUFFICES ASSUME ExpressionAssumption PROVE NoSession \in Sessions
  OBVIOUS
<1>1. 1 \in 1 .. MaxContracts /\ 1 \in Nat /\ "shadow_valid" \in ArtifactStatuses
  BY DEF ExpressionAssumption, ArtifactStatuses
<1>2. Artifact("shadow_valid", FALSE, 1, 1) \in Rows
  BY <1>1, NewArtifact
<1>3. QED
  BY <1>2 DEF NoSession, Sessions

\* Rows that are rewritten in place are as many as before.
LEMMA RowsInPlace ==
  ASSUME NEW S, NEW s \in Seq(S), NEW f, f = [i \in 1 .. Len(s) |-> f[i]],
         \A i \in 1 .. Len(s) : f[i] \in S
  PROVE  f \in Seq(S) /\ Len(f) = Len(s)
<1>1. Len(s) \in Nat
  BY LenProperties
<1> DEFINE n == Len(s)
<1> HIDE DEF n
<1>2. f \in [1 .. n -> S] /\ n \in Nat
  BY <1>1 DEF n
<1>3. f \in Seq(S)
  BY <1>2, SeqDef
<1>4. Len(f) \in Nat /\ DOMAIN f = 1 .. Len(f) /\ DOMAIN f = 1 .. n
  BY <1>2, <1>3, LenProperties
<1>5. Len(f) = n
  BY <1>2, <1>4
<1>6. QED
  BY <1>3, <1>5 DEF n

\* A step that commits nothing about the artifacts.
LEMMA PromotionsStay ==
  ASSUME ExpressionInv, UNCHANGED <<kind, artifacts, promotedLast, overlapped>>,
         rules' \in Nat, contract' \in 1 .. MaxContracts,
         operator' \in [Operators -> Sessions],
         \A o \in Operators : operator'[o] = operator[o] \/ SessionFits(operator'[o])
  PROVE  ExpressionInv'
<1>1. Ids' = Ids /\ PromotedIds' = PromotedIds
  BY DEF Ids, PromotedIds
<1>2. ASSUME NEW a PROVE GivesWay(a)' = GivesWay(a) /\ PromotedOf(a)' = PromotedOf(a)
  BY <1>1 DEF GivesWay, ScopeOf, PromotedOf
<1>3. ASSUME NEW o \in Operators PROVE SessionFits(operator[o])'
  <2>1. SessionFits(operator'[o])
    BY DEF ExpressionInv
  <2>2. QED
    BY <1>1, <1>2, <2>1 DEF SessionFits
<1>4. ASSUME NEW c \in 1 .. MaxContracts PROVE PromotionsHold(c)'
  BY <1>2, <1>4 DEF ExpressionInv, PromotionsHold
<1>5. QED
  BY <1>3, <1>4 DEF ExpressionInv, ExpressionTypes

\* A run stores an artifact that nobody sees.
LEMMA StoredUnseen ==
  ASSUME ExpressionAssumption, ExpressionInv, NEW r \in Runs, NEW failed \in BOOLEAN,
         NEW answered \in BOOLEAN, NEW v \in 1 .. MaxRules + 1,
         StoreArtifact(r, failed, answered, v)
  PROVE  ExpressionInv'
<1> DEFINE new == Artifact(RunStatus(failed, answered, rules < v), failed \/ rules >= v, v, contract)
           n == Len(artifacts)
<1>1. artifacts' = Append(artifacts, new) /\ artifacts \in Seq(Rows)
  BY DEF StoreArtifact, ExpressionInv, ExpressionTypes
<1>2. new \in Rows
  <2>1. RunStatus(failed, answered, rules < v) \in ArtifactStatuses
    BY DEF RunStatus, ArtifactStatuses
  <2>2. (failed \/ rules >= v) \in BOOLEAN
    OBVIOUS
  <2>3. v \in Nat
    BY DEF ExpressionAssumption
  <2>4. contract \in 1 .. MaxContracts
    BY DEF ExpressionInv, ExpressionTypes
  <2>5. QED
    BY <2>1, <2>2, <2>3, <2>4, NewArtifact
<1>3. ~new.promoted
  BY DEF Artifact
<1> HIDE DEF new
<1>4. /\ n \in Nat /\ Ids = 1 .. n
      /\ artifacts' \in Seq(Rows) /\ Ids' = 1 .. n + 1
      /\ \A b \in 1 .. n : artifacts'[b] = artifacts[b]
      /\ artifacts'[n + 1] = new
  BY <1>1, <1>2, LenProperties, AppendProperties DEF Ids
<1> HIDE DEF n
<1>5. UNCHANGED <<kind, rules, contract, operator, promotedLast, overlapped>>
  BY DEF StoreArtifact
<1>6. Ids \subseteq Ids' /\ PromotedIds' = PromotedIds /\ PromotedIds \subseteq Ids
  BY <1>3, <1>4 DEF PromotedIds
<1>7. ASSUME NEW a \in Ids PROVE GivesWay(a)' = GivesWay(a) /\ artifacts'[a] = artifacts[a]
  BY <1>4, <1>5, <1>6 DEF GivesWay, ScopeOf
<1>8. ASSUME NEW c PROVE PromotedOf(c)' = PromotedOf(c)
  BY <1>4, <1>5, <1>6 DEF PromotedOf
<1>9. ASSUME NEW o \in Operators PROVE SessionFits(operator[o])'
  <2>1. SessionFits(operator[o]) /\ operator'[o] = operator[o]
    BY <1>5 DEF ExpressionInv
  <2>2. QED
    BY <1>6, <1>7, <2>1 DEF SessionFits
<1>10. ASSUME NEW c \in 1 .. MaxContracts PROVE PromotionsHold(c)'
  <2>1. PromotionsHold(c)
    BY DEF ExpressionInv
  <2>2. \A a \in PromotedOf(c) : artifacts'[a] = artifacts[a]
    BY <1>6, <1>7 DEF PromotedOf
  <2>3. QED
    BY <1>5, <1>8, <2>1, <2>2 DEF PromotionsHold
<1>11. QED
  BY <1>4, <1>5, <1>9, <1>10 DEF ExpressionInv, ExpressionTypes

\* A commit overtakes the sessions that are open: they know that they are stale.
LEMMA OvertakenFit ==
  ASSUME ExpressionAssumption, ExpressionInv, NEW o \in Operators, operator' = Overtaken(o),
         Ids' = Ids, \A b \in Ids : artifacts'[b].contract = artifacts[b].contract
  PROVE  /\ operator' \in [Operators -> Sessions]
         /\ \A p \in Operators : SessionFits(operator[p])'
<1>1. ASSUME NEW p \in Operators
      PROVE  /\ operator'[p] \in Sessions
             /\ operator'[p].at /= "idle" =>
                  /\ operator'[p].stale
                  /\ operator'[p].at = operator[p].at /\ operator'[p].target = operator[p].target
                  /\ operator'[p].found = operator[p].found
                  /\ operator'[p].loaded = operator[p].loaded
  <2>1. operator[p] \in Sessions /\ NoSession \in Sessions /\ NoSession.at = "idle"
    BY NoSessionFits DEF ExpressionInv, ExpressionTypes, NoSession
  <2>2. operator'[p] = IF p = o THEN NoSession
                       ELSE [operator[p] EXCEPT !.stale = operator[p].at /= "idle"]
    BY DEF Overtaken
  <2>3. CASE p = o
    BY <2>1, <2>2, <2>3
  <2>4. CASE p /= o
    <3>1. PICK t \in Sessions : t = operator[p]
      BY <2>1
    <3>2. operator'[p] = [t EXCEPT !.stale = t.at /= "idle"]
      BY <2>2, <2>4, <3>1
    <3>3. /\ operator'[p].at = t.at /\ operator'[p].target = t.target
          /\ operator'[p].found = t.found /\ operator'[p].loaded = t.loaded
          /\ operator'[p].stale <=> t.at /= "idle"
          /\ operator'[p] \in Sessions
      BY <3>2 DEF Sessions
    <3>4. QED
      BY <3>1, <3>3
  <2>5. QED
    BY <2>3, <2>4
<1>2. operator' \in [Operators -> Sessions]
  BY <1>1 DEF Overtaken
<1>3. ASSUME NEW p \in Operators PROVE SessionFits(operator[p])'
  <2>1. SessionFits(operator[p])
    BY DEF ExpressionInv
  <2>2. QED
    BY <1>1, <2>1 DEF SessionFits
<1>4. QED
  BY <1>2, <1>3

\* A promotion takes the place of what it found; unless another session committed
\* meanwhile, that is all that was promoted for its reader.
LEMMA PromotionHolds ==
  ASSUME ExpressionAssumption, ExpressionInv, NEW o \in Operators, CommitPromotion(o)
  PROVE  ExpressionInv'
<1>0. PICK s \in Sessions, a \in Nat, c \in 1 .. MaxContracts :
        s = operator[o] /\ a = s.target /\ c = s.loaded.contract
  BY DEF ExpressionInv, ExpressionTypes, Sessions, Rows
<1> DEFINE wanted == [s.loaded EXCEPT !.promoted = TRUE, !.status = "promoted_valid",
                        !.supersedes = IF s.found = {} THEN @ ELSE LatestOf(s.found)]
           row(b) == IF b = a THEN Merged(artifacts[a], s.loaded, wanted)
                     ELSE IF b \in s.found THEN [artifacts[b] EXCEPT !.promoted = FALSE]
                     ELSE artifacts[b]
<1>1. /\ s.at = "found" /\ s \in Sessions /\ SessionFits(s)
      /\ artifacts' = [b \in Ids |-> row(b)]
      /\ promotedLast' = [promotedLast EXCEPT ![c] = a]
      /\ overlapped' = [overlapped EXCEPT ![c] = s.stale \/ (kind = "manager" /\ @)]
      /\ operator' = Overtaken(o)
      /\ UNCHANGED <<kind, facts, rules, contract, run>>
  BY <1>0 DEF CommitPromotion, ExpressionInv, ExpressionTypes
<1>2. /\ a \in Ids /\ c = artifacts[a].contract 
      /\ \A b \in s.found : b \in Ids /\ artifacts[b].contract = c
      /\ ~s.stale => s.loaded = artifacts[a] /\ s.found = GivesWay(a)
  BY <1>0, <1>1 DEF SessionFits
<1>3. \A b \in Ids : artifacts[b] \in Rows
  BY ElementOfSeq DEF ExpressionInv, ExpressionTypes, Ids
<1>4. /\ wanted \in Rows /\ wanted.promoted /\ wanted.status = "promoted_valid"
      /\ wanted.contract = c
  <2>1. s.loaded \in Rows /\ s.found \in SUBSET Nat
    BY <1>0 DEF Sessions
  <2>2. LatestOf(s.found) \in {LatestOf(ids) : ids \in SUBSET Nat}
    BY <2>1
  <2>3. QED
    BY <1>0, <2>1, <2>2 DEF Rows, ArtifactStatuses
<1> HIDE DEF wanted
<1>5. ASSUME NEW b \in Ids
      PROVE  /\ row(b) \in Rows /\ artifacts'[b] = row(b)
             /\ artifacts'[b].contract = artifacts[b].contract
             /\ artifacts[b].contract /= c => artifacts'[b] = artifacts[b]
  <2>1. Merged(artifacts[a], s.loaded, wanted) \in Rows
    <3>1. artifacts[a] \in Rows /\ s.loaded \in Rows /\ wanted \in Rows
      BY <1>1, <1>2, <1>3, <1>4 DEF Sessions
    <3>2. QED
      BY <3>1 DEF Merged, Rows
  <2>2. Merged(artifacts[a], s.loaded, wanted).contract = c
    <3>1. artifacts[a] \in Rows /\ wanted.contract = c /\ artifacts[a].contract = c
      BY <1>2, <1>3, <1>4
    <3>2. QED
      BY <3>1 DEF Merged, Rows
  <2>3. [artifacts[b] EXCEPT !.promoted = FALSE] \in Rows
    BY <1>3 DEF Rows
  <2>4. artifacts'[b] = row(b)
    BY <1>1
  <2>5. CASE b = a
    BY <1>2, <2>1, <2>2, <2>4, <2>5
  <2>6. CASE b /= a /\ b \in s.found
    <3>1. row(b) = [artifacts[b] EXCEPT !.promoted = FALSE] /\ artifacts[b] \in Rows
      BY <1>3, <2>6
    <3>2. row(b).contract = artifacts[b].contract
      BY <3>1 DEF Rows
    <3>3. QED
      BY <1>2, <2>3, <2>4, <2>6, <3>1, <3>2
  <2>7. CASE b /= a /\ b \notin s.found
    BY <1>3, <2>4, <2>7
  <2>8. QED
    BY <2>5, <2>6, <2>7
<1> HIDE DEF row
<1>6. artifacts' \in Seq(Rows) /\ Ids' = Ids
  <2>1. artifacts \in Seq(Rows)
    BY DEF ExpressionInv, ExpressionTypes
  <2>2. artifacts' = [i \in 1 .. Len(artifacts) |-> artifacts'[i]]
    BY <1>1, <1>5 DEF Ids
  <2>3. \A i \in 1 .. Len(artifacts) : artifacts'[i] \in Rows
    BY <1>5 DEF Ids
  <2>4. artifacts' \in Seq(Rows) /\ Len(artifacts') = Len(artifacts)
    BY <2>1, <2>2, <2>3, RowsInPlace
  <2>5. QED
    BY <2>4 DEF Ids
<1>7. operator' \in [Operators -> Sessions] /\ \A p \in Operators : SessionFits(operator[p])'
  BY <1>1, <1>5, <1>6, OvertakenFit
<1>8. ASSUME NEW d \in 1 .. MaxContracts, d /= c PROVE PromotionsHold(d)'
  <2>1. PromotionsHold(d)
    BY DEF ExpressionInv
  <2>2. PromotedOf(d)' = PromotedOf(d) /\ \A b \in PromotedOf(d) : artifacts'[b] = artifacts[b]
    BY <1>5, <1>6, <1>8 DEF PromotedOf, PromotedIds
  <2>3. UNCHANGED <<kind, overlapped[d], promotedLast[d]>>
    BY <1>1, <1>8 DEF ExpressionInv, ExpressionTypes
  <2>4. QED
    BY <2>1, <2>2, <2>3 DEF PromotionsHold
<1>9. PromotionsHold(c)'
  <2> SUFFICES ASSUME ~overlapped'[c]
               PROVE  /\ \A b \in PromotedOf(c)' : artifacts'[b].status = "promoted_valid"
                      /\ kind = "employee" /\ promotedLast'[c] /= 0
                           => PromotedOf(c)' = {promotedLast'[c]}
    BY <1>1 DEF PromotionsHold
  <2>1. /\ ~s.stale /\ (kind = "manager" => ~overlapped[c])
        /\ promotedLast'[c] = a
    BY <1>1, <1>2 DEF ExpressionInv, ExpressionTypes
  <2>2. artifacts'[a] = Merged(artifacts[a], artifacts[a], wanted) /\ artifacts[a] \in Rows
    BY <1>2, <1>3, <1>5, <2>1 DEF row
  <2>3. artifacts'[a].promoted /\ artifacts'[a].status = "promoted_valid"
    BY <1>4, <2>2 DEF Merged, Rows
  <2>4. ASSUME NEW b \in PromotedOf(c)', b /= a
        PROVE  b \in PromotedOf(c) \ s.found /\ artifacts'[b] = artifacts[b]
    <3>1. b \in Ids /\ artifacts'[b].promoted /\ artifacts[b].contract = c
      BY <1>5, <1>6 DEF PromotedOf, PromotedIds
    <3>2. b \notin s.found
      <4>1. SUFFICES ASSUME b \in s.found PROVE FALSE
        OBVIOUS
      <4>2. artifacts'[b] = [artifacts[b] EXCEPT !.promoted = FALSE] /\ artifacts[b] \in Rows
        BY <1>3, <1>5, <2>4, <3>1, <4>1 DEF row
      <4>3. QED
        BY <3>1, <4>2 DEF Rows
    <3>3. artifacts'[b] = artifacts[b]
      BY <1>5, <2>4, <3>1, <3>2 DEF row
    <3>4. QED
      BY <3>1, <3>2, <3>3 DEF PromotedOf, PromotedIds
  <2>5. a \in PromotedOf(c)'
    BY <1>2, <1>5, <1>6, <2>3 DEF PromotedOf, PromotedIds
  <2>6. CASE kind = "employee"
    <3>1. PromotedOf(c) \ {a} \subseteq s.found
      BY <1>2, <2>1, <2>6 DEF GivesWay, PromotedOf, ScopeOf
    <3>2. PromotedOf(c)' = {a}
      BY <2>4, <2>5, <3>1
    <3>3. QED
      BY <2>1, <2>3, <3>2
  <2>7. CASE kind = "manager"
    <3>1. PromotionsHold(c)
      BY <1>2 DEF ExpressionInv
    <3>2. \A b \in PromotedOf(c) : artifacts[b].status = "promoted_valid"
      BY <2>1, <2>7, <3>1 DEF PromotionsHold
    <3>3. QED
      BY <2>3, <2>4, <2>7, <3>2
  <2>8. QED
    BY <2>6, <2>7 DEF ExpressionInv, ExpressionTypes
<1>10. /\ promotedLast' \in [1 .. MaxContracts -> Nat]
       /\ overlapped' \in [1 .. MaxContracts -> BOOLEAN]
  BY <1>1 DEF ExpressionInv, ExpressionTypes, Sessions
<1>11. ExpressionTypes'
  BY <1>1, <1>6, <1>7, <1>10 DEF ExpressionInv, ExpressionTypes
<1>12. QED
  BY <1>7, <1>8, <1>9, <1>11 DEF ExpressionInv

\* A revalidation withdraws nothing that is promoted, unless a session committed since
\* it selected.
LEMMA RevalidationHolds ==
  ASSUME ExpressionAssumption, ExpressionInv, NEW o \in Operators, CommitRevalidation(o)
  PROVE  ExpressionInv'
<1>0. PICK s \in Sessions : s = operator[o]
  BY DEF ExpressionInv, ExpressionTypes
<1> DEFINE withdrawn == {a \in s.found : rules >= artifacts[a].failsFrom}
<1>1. /\ s.at = "selected" /\ SessionFits(s)
      /\ artifacts' = [a \in Ids |->
           IF a \in withdrawn
           THEN [artifacts[a] EXCEPT !.status = "shadow_invalid", !.errors = TRUE]
           ELSE artifacts[a]]
      /\ overlapped' = [c \in 1 .. MaxContracts |-> overlapped[c] \/ s.stale]
      /\ operator' = IF withdrawn = {} THEN [operator EXCEPT ![o] = NoSession] ELSE Overtaken(o)
      /\ UNCHANGED <<kind, facts, rules, contract, run, promotedLast>>
  BY <1>0 DEF CommitRevalidation, ExpressionInv
<1>2. /\ withdrawn \subseteq Ids
      /\ ~s.stale => withdrawn \cap PromotedIds = {}
  BY <1>1 DEF SessionFits
<1> HIDE DEF withdrawn
<1>3. \A b \in Ids : artifacts[b] \in Rows
  BY ElementOfSeq DEF ExpressionInv, ExpressionTypes, Ids
<1>4. ASSUME NEW b \in Ids
      PROVE  /\ artifacts'[b] \in Rows
             /\ artifacts'[b].contract = artifacts[b].contract
             /\ artifacts'[b].promoted <=> artifacts[b].promoted
             /\ b \notin withdrawn => artifacts'[b] = artifacts[b]
  <2>1. PICK row \in Rows : row = artifacts[b]
    BY <1>3
  <2>2. artifacts'[b] = IF b \in withdrawn
                        THEN [row EXCEPT !.status = "shadow_invalid", !.errors = TRUE] ELSE row
    BY <1>1, <2>1
  <2>3. CASE b \in withdrawn
    <3>1. artifacts'[b] = [row EXCEPT !.status = "shadow_invalid", !.errors = TRUE]
      BY <2>2, <2>3
    <3>2. QED
      BY <2>1, <2>3, <3>1 DEF Rows, ArtifactStatuses
  <2>4. CASE b \notin withdrawn
    BY <2>1, <2>2, <2>4
  <2>5. QED
    BY <2>3, <2>4
<1>5. artifacts' \in Seq(Rows) /\ Ids' = Ids
  <2>1. artifacts \in Seq(Rows)
    BY DEF ExpressionInv, ExpressionTypes
  <2>2. artifacts' = [i \in 1 .. Len(artifacts) |-> artifacts'[i]]
    BY <1>1 DEF Ids
  <2>3. \A i \in 1 .. Len(artifacts) : artifacts'[i] \in Rows
    BY <1>4 DEF Ids
  <2>4. artifacts' \in Seq(Rows) /\ Len(artifacts') = Len(artifacts)
    BY <2>1, <2>2, <2>3, RowsInPlace
  <2>5. QED
    BY <2>4 DEF Ids
<1>6. PromotedIds' = PromotedIds
  BY <1>4, <1>5 DEF PromotedIds
<1>7. operator' \in [Operators -> Sessions] /\ \A p \in Operators : SessionFits(operator[p])'
  <2>1. CASE withdrawn = {}
    <3>1. operator' = [operator EXCEPT ![o] = NoSession]
      BY <1>1, <2>1
    <3>2. operator' \in [Operators -> Sessions]
      BY <3>1, NoSessionFits DEF ExpressionInv, ExpressionTypes
    <3>3. \A b \in Ids : artifacts'[b] = artifacts[b]
      BY <1>4, <2>1
    <3>4. ASSUME NEW a \in Ids PROVE GivesWay(a)' = GivesWay(a)
      BY <1>1, <1>2, <1>4, <1>6, <3>3 DEF GivesWay, ScopeOf, PromotedIds
    <3>5. ASSUME NEW p \in Operators PROVE SessionFits(operator[p])'
      <4>1. CASE p = o
        <5>1. operator'[p].at = "idle"
          BY <3>1, <4>1 DEF ExpressionInv, ExpressionTypes, NoSession
        <5>2. QED
          BY <5>1 DEF SessionFits
      <4>2. CASE p /= o
        <5>1. operator'[p] = operator[p] /\ SessionFits(operator[p])
          BY <3>1, <4>2 DEF ExpressionInv, ExpressionTypes
        <5>2. QED
          BY <1>5, <1>6, <3>3, <3>4, <5>1 DEF SessionFits
      <4>3. QED
        BY <4>1, <4>2
    <3>6. QED
      BY <3>2, <3>5
  <2>2. CASE withdrawn /= {}
    BY <1>1, <1>4, <1>5, <2>2, OvertakenFit
  <2>3. QED
    BY <2>1, <2>2
<1>8. ASSUME NEW c \in 1 .. MaxContracts PROVE PromotionsHold(c)'
  <2>1. PromotionsHold(c)
    BY DEF ExpressionInv
  <2>2. overlapped'[c] <=> overlapped[c] \/ s.stale
    BY <1>1, <1>8
  <2>3. PromotedOf(c)' = PromotedOf(c)
    BY <1>4, <1>6 DEF PromotedOf, PromotedIds
  <2>4. ~s.stale => \A b \in PromotedOf(c) : artifacts'[b] = artifacts[b]
    BY <1>2, <1>4 DEF PromotedOf, PromotedIds
  <2>5. QED
    BY <1>1, <2>1, <2>2, <2>3, <2>4 DEF PromotionsHold
<1>9. overlapped' \in [1 .. MaxContracts -> BOOLEAN]
  BY <1>1 DEF ExpressionInv, ExpressionTypes, Sessions
<1>10. ExpressionTypes'
  BY <1>1, <1>5, <1>7, <1>9 DEF ExpressionInv, ExpressionTypes
<1>11. QED
  BY <1>7, <1>8, <1>10 DEF ExpressionInv

\* A step of an operator that only reads.
LEMMA SessionStep ==
  ASSUME ExpressionInv, NEW o \in Operators, NEW next \in Sessions, SessionFits(next),
         operator' = [operator EXCEPT ![o] = next],
         UNCHANGED <<kind, artifacts, rules, contract, promotedLast, overlapped>>
  PROVE  ExpressionInv'
<1>1. operator' \in [Operators -> Sessions]
  BY DEF ExpressionInv, ExpressionTypes
<1>2. \A p \in Operators : operator'[p] = operator[p] \/ SessionFits(operator'[p])
  BY DEF ExpressionInv, ExpressionTypes
<1>3. rules' \in Nat /\ contract' \in 1 .. MaxContracts
  BY DEF ExpressionInv, ExpressionTypes
<1>4. QED
  BY <1>1, <1>2, <1>3, PromotionsStay

LEMMA ExpressionStep ==
  ASSUME ExpressionAssumption, ExpressionInv, [ExpressionNext]_expressionVars
  PROVE  ExpressionInv'
<1> USE DEF ExpressionTypes
<1>0. NoSession \in Sessions /\ SessionFits(NoSession) /\ NoSession.at = "idle"
      /\ NoSession.stale = FALSE
  BY NoSessionFits DEF SessionFits, NoSession
<1>1. ASSUME NEW r \in Runs, TakeSnapshot(r) \/ EndWait(r) \/ StopRun(r) PROVE ExpressionInv'
  BY <1>1, PromotionsStay DEF TakeSnapshot, EndWait, StopRun, ExpressionInv
<1>2. ASSUME NEW r \in Runs, NEW failed \in BOOLEAN, NEW answered \in BOOLEAN,
             NEW v \in 1 .. MaxRules + 1, StoreArtifact(r, failed, answered, v)
      PROVE  ExpressionInv'
  BY <1>2, StoredUnseen
<1>3. ASSUME NEW o \in Operators, NEW a \in Ids, NEW checked \in BOOLEAN,
             LoadTarget(o, a, checked)
      PROVE  ExpressionInv'
  <2> DEFINE next == [NoSession EXCEPT !.at = "loaded", !.target = a, !.loaded = artifacts[a]]
  <2>1. artifacts[a] \in Rows /\ a \in Nat
    BY ElementOfSeq, LenProperties DEF ExpressionInv, Ids
  <2>2. /\ next \in Sessions /\ next.at = "loaded" /\ next.target = a
        /\ next.loaded = artifacts[a]
    BY <1>0, <2>1 DEF Sessions
  <2>3. /\ operator' = [operator EXCEPT ![o] = next]
        /\ UNCHANGED <<kind, artifacts, rules, contract, promotedLast, overlapped>>
    BY <1>3 DEF LoadTarget
  <2> HIDE DEF next
  <2>4. SessionFits(next)
    BY <2>2 DEF SessionFits
  <2>5. QED
    BY <2>2, <2>3, <2>4, SessionStep
<1>4. ASSUME NEW o \in Operators, FindPromoted(o) PROVE ExpressionInv'
  <2>1. PICK s \in Sessions : s = operator[o] /\ s.at = "loaded" /\ SessionFits(s)
    BY <1>4 DEF FindPromoted, ExpressionInv
  <2> DEFINE next == [s EXCEPT !.at = "found", !.found = GivesWay(s.target)]
  <2>2. GivesWay(s.target) \subseteq Ids /\ Ids \subseteq Nat
    BY LenProperties DEF GivesWay, PromotedIds, Ids, ExpressionInv
  <2>3. /\ next \in Sessions /\ next.at = "found" /\ next.target = s.target
        /\ next.loaded = s.loaded /\ next.found = GivesWay(s.target) /\ next.stale = s.stale
    BY <2>2 DEF Sessions
  <2>4. /\ operator' = [operator EXCEPT ![o] = next]
        /\ UNCHANGED <<kind, artifacts, rules, contract, promotedLast, overlapped>>
    BY <1>4, <2>1 DEF FindPromoted, ExpressionInv
  <2>5. \A b \in GivesWay(s.target) :
          b \in Ids /\ artifacts[b].contract = artifacts[s.target].contract
    BY DEF GivesWay, PromotedIds
  <2> HIDE DEF next
  <2>6. SessionFits(next)
    BY <2>1, <2>3, <2>5 DEF SessionFits
  <2>7. QED
    BY <2>3, <2>4, <2>6, SessionStep
<1>5. ASSUME NEW o \in Operators, CommitPromotion(o) PROVE ExpressionInv'
  BY <1>5, PromotionHolds
<1>6. ASSUME NEW o \in Operators, SelectPassing(o) PROVE ExpressionInv'
  <2> DEFINE next == [NoSession EXCEPT !.at = "selected", !.found = Revalidated]
  <2>1. Revalidated \subseteq Ids \ PromotedIds /\ Ids \subseteq Nat
    BY LenProperties DEF Revalidated, Ids, ExpressionInv
  <2>2. next \in Sessions /\ next.at = "selected" /\ next.found = Revalidated
    BY <1>0, <2>1 DEF Sessions
  <2>3. /\ operator' = [operator EXCEPT ![o] = next]
        /\ UNCHANGED <<kind, artifacts, rules, contract, promotedLast, overlapped>>
    BY <1>6 DEF SelectPassing
  <2> HIDE DEF next
  <2>4. SessionFits(next)
    BY <2>1, <2>2 DEF SessionFits
  <2>5. QED
    BY <2>2, <2>3, <2>4, SessionStep
<1>7. ASSUME NEW o \in Operators, CommitRevalidation(o) PROVE ExpressionInv'
  BY <1>7, RevalidationHolds
<1>8. ASSUME NEW o \in Operators, StopSession(o) PROVE ExpressionInv'
  BY <1>0, <1>8, SessionStep DEF StopSession
<1>9. CASE Release
  <2>1. rules' \in Nat /\ contract' \in 1 .. MaxContracts
    BY <1>9 DEF Release, ExpressionInv, ExpressionAssumption
  <2>2. QED
    BY <1>9, <2>1, PromotionsStay DEF Release, ExpressionInv
<1>10. CASE UNCHANGED expressionVars
  BY <1>10, PromotionsStay DEF expressionVars, ExpressionInv
<1>11. QED
  BY <1>1, <1>2, <1>3, <1>4, <1>5, <1>6, <1>7, <1>8, <1>9, <1>10 DEF ExpressionNext

\* What the operators have loaded is what the rows hold until another commits, and
\* the promotions that none overlapped hold.
THEOREM ExpressionInvariant == ExpressionSpec => []ExpressionInv
<1> USE ExpressionAssumption
<1>1. ExpressionInit => ExpressionInv
  <2> SUFFICES ASSUME ExpressionInit PROVE ExpressionInv
    OBVIOUS
  <2>1. artifacts = <<>> /\ Ids = {}
    BY EmptySeq DEF ExpressionInit, Ids
  <2>2. ExpressionTypes
    BY <2>1, NoSessionFits, EmptySeq DEF ExpressionInit, ExpressionTypes, ExpressionAssumption
  <2>3. \A o \in Operators : operator[o].at = "idle"
    BY DEF ExpressionInit, NoSession
  <2>4. \A c \in 1 .. MaxContracts : PromotionsHold(c)
    BY <2>1 DEF ExpressionInit, PromotionsHold, PromotedOf, PromotedIds
  <2>5. QED
    BY <2>2, <2>3, <2>4 DEF ExpressionInv, SessionFits
<1>2. ExpressionInv /\ [ExpressionNext]_expressionVars => ExpressionInv'
  BY ExpressionStep
<1>3. QED
  BY <1>1, <1>2, PTL DEF ExpressionSpec

\* A promoted text stays the one that is shown, and valid, until the next promotion,
\* whatever is written, released or revalidated; unless two sessions overlapped
\* (promote_expression_artifact, expression_revalidate_artifacts).
THEOREM PromotedStands == ExpressionSpec => []PromotionStands
<1>1. ExpressionInv => PromotionStands
  <2> SUFFICES ASSUME ExpressionInv PROVE PromotionStands
    OBVIOUS
  <2>1. LastPromotionStands
    <3> SUFFICES ASSUME kind = "employee", NEW c \in 1 .. MaxContracts,
                        promotedLast[c] /= 0, ~overlapped[c]
                 PROVE  Shown(c) = {promotedLast[c]}
      BY DEF LastPromotionStands
    <3>1. PromotionsHold(c)
      BY DEF ExpressionInv
    <3>2. QED
      BY <3>1 DEF PromotionsHold, PromotedOf, Shown
  <2>2. PromotedIsValid
    <3> SUFFICES ASSUME \A c \in 1 .. MaxContracts : ~overlapped[c], NEW a \in PromotedIds
                 PROVE  artifacts[a].status = "promoted_valid"
      BY DEF PromotedIsValid
    <3>1. artifacts[a].contract \in 1 .. MaxContracts
      <4>1. artifacts \in Seq(Rows) /\ a \in 1 .. Len(artifacts)
        BY DEF ExpressionInv, ExpressionTypes, PromotedIds, Ids
      <4>2. artifacts[a] \in Rows
        BY <4>1, ElementOfSeq
      <4>3. QED
        BY <4>2 DEF Rows
    <3>2. QED
      BY <3>1 DEF ExpressionInv, PromotionsHold, PromotedOf
  <2>3. QED
    BY <2>1, <2>2 DEF PromotionStands
<1>2. QED
  BY <1>1, ExpressionInvariant, PTL

-----------------------------------------------------------------------------
(* ReceiptAttribution *)

\* What a command means to write: once for each receipt, and to one that had no project.
WritesAreSingle(c) ==
  /\ step[c] \in {"idle", "audit"} => writes[c] = {}
  /\ step[c] \in {"choose", "commit"} =>
       \A w \in writes[c] : /\ w.was = NoSite /\ w.of \notin unread[c]
                            /\ \A v \in writes[c] : v.of = w.of => v = w

\* Before a command commits, what it will write stands in the file, unless another has
\* written over it.
FiledFirst(c) ==
  step[c] = "commit" =>
    /\ files[fileOf[c]].from /= NoCommand
    /\ files[fileOf[c]].from = c => files[fileOf[c]].entries = writes[c]

AttributionInv ==
  /\ step \in [Commands -> Steps] /\ fileOf \in [Commands -> FileNames]
  /\ DOMAIN writes = Commands /\ DOMAIN unread = Commands
  /\ DOMAIN files = FileNames /\ DOMAIN receipt = Receipts
  /\ by \in [Receipts -> Commands \cup {NoCommand}]
  /\ \A c \in Commands : WritesAreSingle(c) /\ FiledFirst(c)
  /\ \A r \in Receipts : by[r] /= NoCommand => step[by[r]] = "done"
  /\ Undoable

\* A step of one command that leaves the receipts and the files alone, and takes it
\* neither out of its end nor to its commit.
LEMMA CommandSteps ==
  ASSUME AttributionInv, NEW c \in Commands, UNCHANGED <<receipt, files, by, fileOf>>,
         step[c] /= "done",
         NEW at \in Steps \ {"commit"}, step' = [step EXCEPT ![c] = at],
         DOMAIN writes' = Commands, DOMAIN unread' = Commands,
         \A d \in Commands \ {c} : writes'[d] = writes[d] /\ unread'[d] = unread[d],
         WritesAreSingle(c)'
  PROVE  AttributionInv'
<1> USE DEF AttributionInv
<1>1. step' \in [Commands -> Steps] /\ step'[c] = at
  OBVIOUS
<1>2. ASSUME NEW d \in Commands PROVE WritesAreSingle(d)' /\ FiledFirst(d)'
  <2>1. CASE d = c
    BY <1>1, <2>1 DEF FiledFirst
  <2>2. CASE d /= c
    BY <2>2 DEF WritesAreSingle, FiledFirst
  <2>3. QED
    BY <2>1, <2>2
<1>3. \A r \in Receipts : by'[r] /= NoCommand => step'[by'[r]] = "done"
  OBVIOUS
<1>4. Undoable'
  BY DEF Undoable
<1>5. QED
  BY <1>1, <1>2, <1>3, <1>4

\* A step of others leaves every receipt as it is, or with a project of its own.
LEMMA OthersStep ==
  ASSUME AttributionInv, UNCHANGED <<step, fileOf, unread, writes, files>>,
         DOMAIN receipt' = Receipts, by' \in [Receipts -> Commands \cup {NoCommand}],
         \A r \in Receipts : by'[r] = NoCommand \/ (by'[r] = by[r] /\ receipt'[r] = receipt[r])
  PROVE  AttributionInv'
<1> USE DEF AttributionInv
<1>1. \A c \in Commands : WritesAreSingle(c)' /\ FiledFirst(c)'
  BY DEF WritesAreSingle, FiledFirst
<1>2. Undoable'
  BY DEF Undoable
<1>3. QED
  BY <1>1, <1>2

\* Of the receipts that an apply writes, each stands in its file.
LEMMA CommitKeepsUndoable ==
  ASSUME AttributionAssumption, AttributionInv, NEW c \in Commands, CommitApply(c)
  PROVE  AttributionInv'
<1> USE DEF AttributionInv
<1> DEFINE rows == {w.of : w \in writes[c]}
<1>1. /\ step[c] = "commit" /\ step' = [step EXCEPT ![c] = "done"]
      /\ UNCHANGED <<fileOf, unread, writes, files>>
  BY DEF CommitApply, MayCommit
<1>2. step' \in [Commands -> Steps] /\ step'[c] = "done" /\ \A d \in Commands \ {c} : step'[d] = step[d]
  BY <1>1 DEF Steps
<1>3. ASSUME NEW d \in Commands PROVE WritesAreSingle(d)' /\ FiledFirst(d)'
  BY <1>1, <1>2 DEF WritesAreSingle, FiledFirst
<1>4. CASE ~(rows \subseteq There)
  <2>1. receipt' = receipt /\ by' = [r \in Receipts |-> by[r]]
    BY <1>4 DEF CommitApply, Flush
  <2>2. by' = by
    BY <2>1
  <2>3. Undoable'
    BY <1>1, <2>1, <2>2 DEF Undoable
  <2>4. QED
    BY <1>1, <1>2, <1>3, <2>1, <2>2, <2>3
<1>5. CASE rows \subseteq There
  <2>1. /\ receipt' = [r \in Receipts |-> IF r \in rows THEN Targets(c)[r] ELSE receipt[r]]
        /\ by' = [r \in Receipts |-> IF \E w \in writes[c] : w.of = r THEN c ELSE by[r]]
    BY <1>5 DEF CommitApply, Flush
  <2>2. ASSUME NEW r \in Receipts
        PROVE  \/ by'[r] = by[r] /\ receipt'[r] = receipt[r]
               \/ /\ by'[r] = c
                  /\ \E w \in writes[c] : w.of = r /\ w.was = NoSite /\ w.site = receipt'[r]
    <3>1. CASE r \notin rows
      BY <2>1, <3>1
    <3>2. CASE r \in rows
      <4>1. PICK w \in writes[c] : w.of = r
        BY <3>2
      <4>2. w.was = NoSite /\ \A v \in writes[c] : v.of = r => v = w
        BY <1>1, <4>1 DEF WritesAreSingle
      <4>3. (CHOOSE v \in writes[c] : v.of = r) = w
        BY <4>1, <4>2
      <4>4. Targets(c)[r] = w.site
        BY <4>1, <4>3 DEF Targets
      <4>5. QED
        BY <2>1, <3>2, <4>1, <4>2, <4>4
    <3>3. QED
      BY <3>1, <3>2
  <2> HIDE DEF rows
  <2>3. \A r \in Receipts : by'[r] /= NoCommand => step'[by'[r]] = "done"
    BY <1>2, <2>2
  <2>4. Undoable'
    <3> SUFFICES ASSUME NEW r \in Receipts, by'[r] /= NoCommand,
                        files[fileOf[by'[r]]].from \in {by'[r], NoCommand}
                 PROVE  \E e \in files[fileOf[by'[r]]].entries :
                          e.of = r /\ e.site = receipt'[r] /\ e.was = NoSite
      BY <1>1 DEF Undoable
    <3>1. CASE by'[r] = by[r] /\ receipt'[r] = receipt[r]
      BY <3>1 DEF Undoable
    <3>2. CASE by'[r] = c /\ \E w \in writes[c] : w.of = r /\ w.was = NoSite /\ w.site = receipt'[r]
      BY <1>1, <3>2 DEF FiledFirst
    <3>3. QED
      BY <2>2, <3>1, <3>2
  <2>5. DOMAIN receipt' = Receipts /\ by' \in [Receipts -> Commands \cup {NoCommand}]
    BY <2>1
  <2>6. QED
    BY <1>1, <1>2, <1>3, <2>3, <2>4, <2>5
<1>6. QED
  BY <1>4, <1>5

LEMMA AttributionStep ==
  ASSUME AttributionAssumption, AttributionInv, [AttributionNext]_attributionVars
  PROVE  AttributionInv'
<1> USE DEF AttributionInv, Reading
<1>1. ASSUME NEW c \in Commands, BeginApply(c) PROVE AttributionInv'
  <2>1. WritesAreSingle(c)'
    BY <1>1 DEF BeginApply, WritesAreSingle
  <2>2. QED
    BY <1>1, <2>1, CommandSteps DEF BeginApply, Steps
<1>2. ASSUME NEW c \in Commands, Audit(c) PROVE AttributionInv'
  <2>1. WritesAreSingle(c)'
    BY <1>2 DEF Audit, WritesAreSingle
  <2>2. QED
    BY <1>2, <2>1, CommandSteps DEF Audit, Steps
<1>3. ASSUME NEW c \in Commands, NEW r \in Receipts, Choose(c, r) PROVE AttributionInv'
  <2>1. step' = [step EXCEPT ![c] = "choose"]
    BY <1>3 DEF Choose
  <2>2. WritesAreSingle(c)'
    <3>1. /\ step'[c] = "choose" /\ unread'[c] = unread[c] \ {r} /\ r \in unread[c]
          /\ \A w \in writes'[c] : w \in writes[c] \/ (w.of = r /\ w.was = NoSite)
          /\ \A v, w \in writes'[c] : v.of = r /\ w.of = r => v = w
      BY <1>3 DEF Choose, WritesAreSingle
    <3>2. QED
      BY <1>3, <3>1 DEF Choose, WritesAreSingle
  <2>3. QED
    BY <1>3, <2>1, <2>2, CommandSteps DEF Choose, Steps
<1>4. ASSUME NEW c \in Commands, WriteRollbackFile(c) PROVE AttributionInv'
  <2>1. /\ step[c] = "choose" /\ step' = [step EXCEPT ![c] = "commit"]
        /\ files' = [files EXCEPT ![fileOf[c]] = [from |-> c, entries |-> writes[c]]]
        /\ UNCHANGED <<receipt, fileOf, unread, writes, by>>
    BY <1>4 DEF WriteRollbackFile
  <2>2. step' \in [Commands -> Steps] /\ step'[c] = "commit"
        /\ \A d \in Commands \ {c} : step'[d] = step[d]
    BY <2>1 DEF Steps
  <2>3. ASSUME NEW d \in Commands PROVE WritesAreSingle(d)' /\ FiledFirst(d)'
    BY <2>1, <2>2 DEF WritesAreSingle, FiledFirst, AttributionAssumption
  <2>4. \A r \in Receipts : by'[r] /= NoCommand => step'[by'[r]] = "done" /\ by'[r] /= c
    BY <2>1, <2>2
  <2>5. Undoable'
    BY <2>1, <2>4 DEF Undoable, AttributionAssumption
  <2>6. QED
    BY <2>1, <2>2, <2>3, <2>4, <2>5
<1>5. ASSUME NEW c \in Commands, CommitApply(c) PROVE AttributionInv'
  BY <1>5, CommitKeepsUndoable
<1>6. ASSUME NEW c \in Commands, Die(c) PROVE AttributionInv'
  <2>1. WritesAreSingle(c)'
    BY <1>6 DEF Die, WritesAreSingle
  <2>2. QED
    BY <1>6, <2>1, CommandSteps DEF Die, Steps
<1>7. ASSUME NEW c \in Commands, BeginRollback(c) PROVE AttributionInv'
  <2>1. WritesAreSingle(c)'
    BY <1>7 DEF BeginRollback, WritesAreSingle
  <2>2. QED
    BY <1>7, <2>1, CommandSteps DEF BeginRollback, Steps
<1>8. ASSUME NEW c \in Commands, NEW r \in Receipts, Restore(c, r) PROVE AttributionInv'
  <2>1. step' = [step EXCEPT ![c] = "restore"] /\ WritesAreSingle(c)'
    BY <1>8 DEF Restore, WritesAreSingle
  <2>2. QED
    BY <1>8, <2>1, CommandSteps DEF Restore, Steps
<1>9. ASSUME NEW c \in Commands, CommitRollback(c) PROVE AttributionInv'
  <2>1. /\ step[c] = "restore" /\ step' = [step EXCEPT ![c] = "done"]
        /\ by' = [r \in Receipts |-> IF receipt'[r] /= receipt[r] THEN NoCommand ELSE by[r]]
        /\ UNCHANGED <<fileOf, unread, writes, files>>
        /\ DOMAIN receipt' = Receipts
    BY <1>9 DEF CommitRollback, Flush
  <2>2. step' \in [Commands -> Steps] /\ step'[c] = "done"
        /\ \A d \in Commands \ {c} : step'[d] = step[d]
    BY <2>1 DEF Steps
  <2>3. ASSUME NEW d \in Commands PROVE WritesAreSingle(d)' /\ FiledFirst(d)'
    BY <2>1, <2>2 DEF WritesAreSingle, FiledFirst
  <2>4. \A r \in Receipts : by'[r] = NoCommand \/ (by'[r] = by[r] /\ receipt'[r] = receipt[r])
    BY <2>1
  <2>5. Undoable'
    BY <2>1, <2>4 DEF Undoable
  <2>6. QED
    BY <2>1, <2>2, <2>3, <2>4, <2>5
<1>10. ASSUME NEW r \in Receipts, Attribute(r) PROVE AttributionInv'
  BY <1>10, OthersStep DEF Attribute
<1>11. ASSUME NEW r \in Receipts, EndAnalysis(r) PROVE AttributionInv'
  BY <1>11, OthersStep DEF EndAnalysis
<1>12. ASSUME NEW r \in Receipts, DeleteReceipt(r) PROVE AttributionInv'
  BY <1>12, OthersStep DEF DeleteReceipt
<1>13. ASSUME NEW p \in MaybeSite, Reassign(p) PROVE AttributionInv'
  BY <1>13, OthersStep DEF Reassign
<1>14. CASE UNCHANGED attributionVars
  BY <1>14, OthersStep DEF attributionVars
<1>15. QED
  BY <1>1, <1>2, <1>3, <1>4, <1>5, <1>6, <1>7, <1>8, <1>9, <1>10, <1>11, <1>12, <1>13, <1>14
  DEF AttributionNext

\* A command files what it will write before it commits.
THEOREM AttributionInvariant == AttributionSpec => []AttributionInv
<1> USE AttributionAssumption
<1>1. AttributionInit => AttributionInv
  BY DEF AttributionInit, AttributionInv, WritesAreSingle, FiledFirst, Undoable, Steps, Nowhere
<1>2. AttributionInv /\ [AttributionNext]_attributionVars => AttributionInv'
  BY AttributionStep
<1>3. QED
  BY <1>1, <1>2, PTL DEF AttributionSpec

\* Whatever an apply has given a receipt can be taken back, although the process may die
\* at any point and others change the receipts meanwhile (apply_finance_fact_attribution_payload,
\* rollback_finance_fact_attribution_payload).
THEOREM AppliesAreUndoable == AttributionSpec => []Undoable
<1>1. AttributionInv => Undoable
  BY DEF AttributionInv
<1>2. QED
  BY <1>1, AttributionInvariant, PTL

-----------------------------------------------------------------------------
(* TextSections *)

ReportFacts == [version : Nat, translated : BOOLEAN]

StringKeys == {<<"string", p, n>> : p \in TextParts, n \in Nat}
SnapshotKeys == {<<"translation">>, <<"markdown">>} \cup StringKeys

SectionRuns ==
  [step : {"insert", "ask"}, kind : Whole \cup Alone, part : TextParts, key : SnapshotKeys,
   facts : ReportFacts, outdated : BOOLEAN]

ComposedTexts ==
  [kind : Whole \cup Alone, status : {"shadow_valid", "shadow_fallback_valid", "shadow_invalid"},
   facts : ReportFacts, outdated : BOOLEAN, written : BOOLEAN]

\* The key of a string names the version of the report that its facts have.
KeyFits(key, known) ==
  \A p \in TextParts, n \in Nat :
    key = <<"string", p, n>> => known = [version |-> n, translated |-> FALSE]

Told(known) == \E j \in DOMAIN composed : composed[j].facts = known

\* A committed snapshot came with a text, and a run on outdated facts has those of one.
SectionInv ==
  /\ Len(reported) \in Nat /\ reported \in Seq([TextParts -> Wordings \cup {"plain", "none"}])
  /\ composed \in Seq(ComposedTexts)
  /\ begun \in [Writers -> SectionRuns \cup {NotBegun}]
  /\ DOMAIN snapshots \subseteq SnapshotKeys
  /\ \A k \in DOMAIN snapshots :
       snapshots[k] \in ReportFacts /\ KeyFits(k, snapshots[k]) /\ Told(snapshots[k])
  /\ \A w \in Writers :
       begun[w] /= NotBegun =>
         /\ KeyFits(begun[w].key, begun[w].facts)
         /\ begun[w].outdated => begun[w].kind /= "string" /\ Told(begun[w].facts)
  /\ ValidIsWritten

\* The key of a run, and the facts that it would take anew.
LEMMA KeyOfRun ==
  ASSUME SectionInv, NEW k \in Whole \cup Alone, NEW part \in TextParts
  PROVE  /\ SnapshotKey(k, part) \in SnapshotKeys /\ FactsNow(k) \in ReportFacts
         /\ KeyFits(SnapshotKey(k, part), FactsNow(k))
         /\ k = "string" => \E n \in Nat : /\ SnapshotKey(k, part) = <<"string", part, n>>
                                           /\ FactsNow(k) = [version |-> n, translated |-> FALSE]
<1> DEFINE n == Len(reported)
<1>1. n \in Nat /\ FactsNow(k) = [version |-> n, translated |-> k \notin Translating /\ Translated]
  BY DEF SectionInv, FactsNow
<1>2. SnapshotKey(k, part) = IF k = "translation" THEN <<"translation">>
                             ELSE IF k = "string" THEN <<"string", part, n>> ELSE <<"markdown">>
  BY DEF SnapshotKey
<1> HIDE DEF n
<1>3. FactsNow(k) \in ReportFacts
  BY <1>1 DEF ReportFacts
<1>4. CASE k = "string"
  <2>1. /\ SnapshotKey(k, part) = <<"string", part, n>>
        /\ FactsNow(k) = [version |-> n, translated |-> FALSE]
    BY <1>1, <1>2, <1>4 DEF Translating
  <2>2. ASSUME NEW p \in TextParts, NEW m \in Nat, <<"string", part, n>> = <<"string", p, m>>
        PROVE  m = n
    BY <2>2
  <2>3. KeyFits(SnapshotKey(k, part), FactsNow(k))
    BY <2>1, <2>2 DEF KeyFits
  <2>4. SnapshotKey(k, part) \in StringKeys
    BY <1>1, <2>1 DEF StringKeys
  <2>5. \E m \in Nat : /\ SnapshotKey(k, part) = <<"string", part, m>>
                       /\ FactsNow(k) = [version |-> m, translated |-> FALSE]
    BY <1>1, <2>1
  <2>6. SnapshotKey(k, part) \in SnapshotKeys
    BY <2>4 DEF SnapshotKeys
  <2>7. QED
    BY <1>3, <2>3, <2>5, <2>6
<1>5. CASE k /= "string"
  BY <1>2, <1>3, <1>5 DEF KeyFits, SnapshotKeys
<1>6. QED
  BY <1>4, <1>5

\* A step that stores nothing.
LEMMA SectionsStay ==
  ASSUME SectionInv, UNCHANGED <<reported, snapshots, composed>>,
         NEW w \in Writers, NEW next \in SectionRuns \cup {NotBegun},
         begun' = [begun EXCEPT ![w] = next],
         next /= NotBegun =>
           /\ KeyFits(next.key, next.facts)
           /\ next.outdated => next.kind /= "string" /\ Told(next.facts)
  PROVE  SectionInv'
<1>1. begun' \in [Writers -> SectionRuns \cup {NotBegun}]
  BY DEF SectionInv
<1>2. ASSUME NEW v \in Writers, begun'[v] /= NotBegun
      PROVE  /\ KeyFits(begun'[v].key, begun'[v].facts)
             /\ begun'[v].outdated => begun'[v].kind /= "string" /\ Told(begun'[v].facts)
  BY <1>2 DEF SectionInv
<1>3. \A known : Told(known)' <=> Told(known)
  BY DEF Told
<1>4. QED
  BY <1>1, <1>2, <1>3 DEF SectionInv, ValidIsWritten, KeyFits, Told

\* What is stored as valid was written by the models, part by part.
LEMMA ValidWhole ==
  ASSUME NEW mine, NEW ai \in BOOLEAN, NEW results \in PartResults(mine, ai),
         StatusOf(mine, ai, results) = "shadow_valid"
  PROVE  \A p \in DOMAIN results : results[p].by \in {"model", "mixed"} /\ ~results[p].erred
<1>1. ~UsedFallback(results) /\ ~Erred(results)
  BY DEF StatusOf
<1>2. \A p \in DOMAIN results : results[p] \in PartOutcomes
  BY DEF PartResults
<1>3. QED
  BY <1>1, <1>2 DEF UsedFallback, Erred, PartOutcomes

LEMMA StoreWholeHolds ==
  ASSUME SectionInv, NEW w \in Writers, StoreWhole(w)
  PROVE  SectionInv'
<1> DEFINE n == Len(composed)
<1>1. PICK mine \in SectionRuns : mine = begun[w]
  BY DEF StoreWhole, SectionInv, NotBegun
<1>a. PICK ai \in BOOLEAN : \E results \in PartResults(mine, ai) :
        composed' = Append(composed,
          [kind |-> mine.kind, status |-> StatusOf(mine, ai, results), facts |-> mine.facts,
           outdated |-> mine.outdated,
           written |-> \A p \in DOMAIN results :
                         results[p].by \in {"model", "mixed"} /\ ~results[p].erred])
  BY <1>1 DEF StoreWhole
<1>2. PICK results \in PartResults(mine, ai) :
        composed' = Append(composed,
          [kind |-> mine.kind, status |-> StatusOf(mine, ai, results), facts |-> mine.facts,
           outdated |-> mine.outdated,
           written |-> \A p \in DOMAIN results :
                         results[p].by \in {"model", "mixed"} /\ ~results[p].erred])
  BY <1>a
<1> DEFINE text ==
      [kind |-> mine.kind, status |-> StatusOf(mine, ai, results), facts |-> mine.facts,
       outdated |-> mine.outdated,
       written |-> \A p \in DOMAIN results :
                     results[p].by \in {"model", "mixed"} /\ ~results[p].erred]
<1>3. /\ text \in ComposedTexts /\ text.facts = mine.facts /\ text.kind = mine.kind
      /\ text.outdated = mine.outdated
      /\ text.status = "shadow_valid" => text.written
  <2>1. StatusOf(mine, ai, results) \in {"shadow_valid", "shadow_fallback_valid", "shadow_invalid"}
    BY DEF StatusOf
  <2>2. mine.outdated \in BOOLEAN /\ mine.kind \in Whole \cup Alone /\ mine.facts \in ReportFacts
    BY DEF SectionRuns
  <2>3. QED
    BY <2>1, <2>2, ValidWhole DEF ComposedTexts
<1>4. composed' = Append(composed, text)
  BY <1>2
<1> HIDE DEF text
<1>5. /\ n \in Nat /\ DOMAIN composed = 1 .. n
      /\ composed' \in Seq(ComposedTexts) /\ DOMAIN composed' = 1 .. n + 1
      /\ \A i \in 1 .. n : composed'[i] = composed[i]
      /\ composed'[n + 1] = text
  BY <1>3, <1>4, LenProperties, AppendProperties DEF SectionInv
<1> HIDE DEF n
<1>6. /\ snapshots' = [k \in DOMAIN snapshots \cup {mine.key} |->
                         IF k \in DOMAIN snapshots THEN snapshots[k] ELSE mine.facts]
      /\ begun' = [begun EXCEPT ![w] = NotBegun] /\ UNCHANGED reported
  BY <1>1 DEF StoreWhole
<1>7. \A known : Told(known) \/ known = mine.facts
                     => \E j \in DOMAIN composed' : composed'[j].facts = known
  BY <1>3, <1>5 DEF Told
<1>8. /\ mine /= NotBegun /\ mine.key \in SnapshotKeys /\ mine.facts \in ReportFacts
      /\ KeyFits(mine.key, mine.facts)
      /\ mine.outdated => mine.kind /= "string" /\ Told(mine.facts)
  <2>1. mine.key \in SnapshotKeys /\ mine.facts \in ReportFacts /\ mine.step \in {"insert", "ask"}
    BY DEF SectionRuns
  <2>2. mine /= NotBegun
    BY <2>1 DEF NotBegun
  <2>3. QED
    BY <1>1, <2>1, <2>2 DEF SectionInv
<1>9. /\ DOMAIN snapshots' \subseteq SnapshotKeys
      /\ \A k \in DOMAIN snapshots' :
           /\ snapshots'[k] \in ReportFacts /\ KeyFits(k, snapshots'[k])
           /\ \E j \in DOMAIN composed' : composed'[j].facts = snapshots'[k]
  <2>1. DOMAIN snapshots' \subseteq SnapshotKeys
    BY <1>6, <1>8 DEF SectionInv
  <2>2. ASSUME NEW k \in DOMAIN snapshots'
        PROVE  /\ snapshots'[k] \in ReportFacts /\ KeyFits(k, snapshots'[k])
               /\ \E j \in DOMAIN composed' : composed'[j].facts = snapshots'[k]
    BY <1>6, <1>7, <1>8 DEF SectionInv
  <2>3. QED
    BY <2>1, <2>2
<1>10. /\ begun' \in [Writers -> SectionRuns \cup {NotBegun}]
       /\ \A v \in Writers : begun'[v] /= NotBegun => begun'[v] = begun[v]
  BY <1>6 DEF SectionInv
<1>11. ValidIsWritten'
  <2> SUFFICES ASSUME NEW i \in 1 .. n + 1
               PROVE  /\ composed'[i].status = "shadow_valid" => composed'[i].written
                      /\ composed'[i].outdated =>
                           /\ composed'[i].kind /= "string"
                           /\ \E j \in 1 .. i - 1 : composed'[j].facts = composed'[i].facts
    BY <1>5 DEF ValidIsWritten
  <2>1. CASE i \in 1 .. n
    <3>1. \A j \in 1 .. i - 1 : composed'[j] = composed[j]
      BY <1>5, <2>1
    <3>2. /\ composed[i].status = "shadow_valid" => composed[i].written
          /\ composed[i].outdated =>
               /\ composed[i].kind /= "string"
               /\ \E j \in 1 .. i - 1 : composed[j].facts = composed[i].facts
      BY <1>5, <2>1 DEF SectionInv, ValidIsWritten
    <3>3. QED
      BY <1>5, <2>1, <3>1, <3>2
  <2>2. CASE i = n + 1
    <3>1. composed'[i] = text /\ i - 1 = n /\ i \in Nat
      BY <1>5, <2>2
    <3>2. text.outdated => text.kind /= "string" /\ Told(text.facts)
      BY <1>3, <1>8
    <3>3. QED
      BY <1>3, <1>5, <3>1, <3>2 DEF Told
  <2>3. QED
    BY <1>5, <2>1, <2>2
<1>12. ASSUME NEW v \in Writers, begun'[v] /= NotBegun
       PROVE  /\ KeyFits(begun'[v].key, begun'[v].facts)
              /\ begun'[v].outdated =>
                   /\ begun'[v].kind /= "string"
                   /\ \E j \in DOMAIN composed' : composed'[j].facts = begun'[v].facts
  BY <1>7, <1>10, <1>12 DEF SectionInv
<1>13. reported' = reported
  BY <1>6
<1>14. QED
  BY <1>5, <1>9, <1>10, <1>11, <1>12, <1>13 DEF SectionInv, KeyFits, Told

LEMMA SectionStep ==
  ASSUME SectionInv, [SectionsNext]_sectionVars
  PROVE  SectionInv'
<1>0. ASSUME NEW w \in Writers PROVE begun[w] \in SectionRuns \cup {NotBegun}
  BY DEF SectionInv
<1>1. ASSUME NEW w \in Writers, NEW k \in Whole \cup Alone, NEW part \in TextParts,
             StartRun(w, k, part)
      PROVE  SectionInv'
  <2> DEFINE key == SnapshotKey(k, part)
             kept == key \in DOMAIN snapshots
             known == IF kept THEN snapshots[key] ELSE FactsNow(k)
             next == [step |-> IF kept THEN "ask" ELSE "insert", kind |-> k, part |-> part,
                      key |-> key, facts |-> known, outdated |-> known /= FactsNow(k)]
  <2>1. /\ begun' = [begun EXCEPT ![w] = next] /\ UNCHANGED <<reported, snapshots, composed>>
    BY <1>1 DEF StartRun
  <2>2. /\ key \in SnapshotKeys /\ FactsNow(k) \in ReportFacts /\ KeyFits(key, FactsNow(k))
        /\ k = "string" => \E n \in Nat : /\ key = <<"string", part, n>>
                                          /\ FactsNow(k) = [version |-> n, translated |-> FALSE]
    BY KeyOfRun
  <2> HIDE DEF key
  <2>3. /\ known \in ReportFacts /\ KeyFits(key, known)
        /\ known /= FactsNow(k) => k /= "string" /\ Told(known)
    <3>1. CASE kept
      <4>1. known \in ReportFacts /\ KeyFits(key, known) /\ Told(known)
        BY <3>1 DEF SectionInv
      <4>2. k = "string" => known = FactsNow(k)
        BY <2>2, <4>1 DEF KeyFits
      <4>3. QED
        BY <4>1, <4>2
    <3>2. CASE ~kept
      BY <2>2, <3>2
    <3>3. QED
      BY <3>1, <3>2
  <2> HIDE DEF known
  <2>4. /\ next \in SectionRuns /\ next.key = key /\ next.facts = known /\ next.kind = k
        /\ next.outdated <=> known /= FactsNow(k)
    BY <2>2, <2>3 DEF SectionRuns
  <2> HIDE DEF next
  <2>5. QED
    BY <2>1, <2>3, <2>4, SectionsStay
<1>2. ASSUME NEW w \in Writers, InsertSnapshot(w) PROVE SectionInv'
  <2>1. PICK mine \in SectionRuns : mine = begun[w] /\ mine.step = "insert"
    BY <1>0, <1>2 DEF InsertSnapshot, NotBegun
  <2> DEFINE next == IF mine.key \in DOMAIN snapshots THEN NotBegun ELSE [mine EXCEPT !.step = "ask"]
  <2>2. /\ begun' = [begun EXCEPT ![w] = next] /\ UNCHANGED <<reported, snapshots, composed>>
    BY <1>2, <2>1 DEF InsertSnapshot, SectionInv
  <2>3. mine /= NotBegun
    BY <2>1 DEF NotBegun
  <2>4. /\ KeyFits(mine.key, mine.facts)
        /\ mine.outdated => mine.kind /= "string" /\ Told(mine.facts)
    BY <2>1, <2>3 DEF SectionInv
  <2>5. /\ next \in SectionRuns \cup {NotBegun}
        /\ next /= NotBegun => /\ next.key = mine.key /\ next.facts = mine.facts
                               /\ next.kind = mine.kind /\ next.outdated = mine.outdated
    BY DEF SectionRuns
  <2> HIDE DEF next
  <2>6. QED
    BY <2>2, <2>4, <2>5, SectionsStay
<1>3. ASSUME NEW w \in Writers, StoreWhole(w) PROVE SectionInv'
  BY <1>3, StoreWholeHolds
<1>4. ASSUME NEW w \in Writers, Abandon(w) PROVE SectionInv'
  BY <1>4, SectionsStay DEF Abandon
<1>5. CASE WriteReport
  <2>1. PICK wording \in [TextParts -> Wordings] : reported' = Append(reported, wording)
    BY <1>5 DEF WriteReport
  <2>2. /\ reported' \in Seq([TextParts -> Wordings \cup {"plain", "none"}])
        /\ Len(reported') \in Nat
    BY <2>1, AppendProperties, LenProperties DEF SectionInv
  <2>3. QED
    BY <1>5, <2>2 DEF WriteReport, SectionInv, ValidIsWritten, KeyFits, Told
<1>6. CASE UNCHANGED sectionVars
  BY <1>6 DEF sectionVars, SectionInv, ValidIsWritten, KeyFits, Told
<1>7. QED
  BY <1>1, <1>2, <1>3, <1>4, <1>5, <1>6 DEF SectionsNext

\* A text that counts as valid was written by a model in all its parts; one begun on
\* outdated facts is no string and shares them with an earlier text.
THEOREM SectionInvariant == SectionsSpec => []SectionInv
<1>1. SectionsInit => SectionInv
  <2> SUFFICES ASSUME SectionsInit PROVE SectionInv
    OBVIOUS
  <2> DEFINE first == [p \in TextParts |-> IF p = 1 THEN "plain" ELSE "none"]
  <2>1. reported = <<first>> /\ first \in [TextParts -> Wordings \cup {"plain", "none"}]
    BY DEF SectionsInit
  <2> HIDE DEF first
  <2>2. /\ reported \in Seq([TextParts -> Wordings \cup {"plain", "none"}])
        /\ Len(reported) \in Nat
    BY <2>1
  <2>3. composed \in Seq(ComposedTexts) /\ DOMAIN composed = {}
    BY EmptySeq DEF SectionsInit
  <2>4. DOMAIN snapshots = {}
    BY DEF SectionsInit
  <2>5. begun \in [Writers -> SectionRuns \cup {NotBegun}] /\ \A w \in Writers : begun[w] = NotBegun
    BY DEF SectionsInit
  <2>6. QED
    BY <2>2, <2>3, <2>4, <2>5 DEF SectionInv, ValidIsWritten
<1>2. SectionInv /\ [SectionsNext]_sectionVars => SectionInv'
  BY SectionStep
<1>3. QED
  BY <1>1, <1>2, PTL DEF SectionsSpec

\* A text that is stored as valid was written part by part by the models; none comes from
\* outdated facts but those of an earlier text, and no string does, whatever other commands
\* write and commit meanwhile
\* (generate_report_markdown_shadow, generate_report_markdown_section_shadow,
\* generate_progress_report_string_translation_shadow).
THEOREM ValidTextsAreWritten == SectionsSpec => []ValidIsWritten
<1>1. SectionInv => ValidIsWritten
  BY DEF SectionInv
<1>2. QED
  BY <1>1, SectionInvariant, PTL

-----------------------------------------------------------------------------
(* GoldenReplay *)

ReplayTexts ==
  [from : {"model", "polish", "fallback"}, forbiddenBy : Nat,
   denied : {"nowhere", "facts", "answer"}]

ArchiveRows ==
  [row : ReplayTexts, judged : Nat, tried : BOOLEAN, promoted : BOOLEAN,
   status : Sound \cup {"shadow_invalid"}]

\* What the validators found in a text under a version of the phrases, but for its surface.
Clean(text, version) ==
  text.forbiddenBy /= version /\ ~(type = "client" /\ text.denied = "facts")

\* The two kinds of text for which a replay cries wolf.
CriesWolf(a) ==
  \/ a.row.from = "polish" /\ type \in Locked
  \/ a.row.from /= "fallback" /\ a.tried

\* The status of a text is the verdict under the phrases it was last judged by; and a
\* replay of all that there is, without a failure, holds until something comes.
ReplayInv ==
  /\ type \in Known /\ edition \in Nat /\ archive \in Seq(ArchiveRows)
  /\ \A r \in StoredRows :
       CriesWolf(archive[r])
         \/ (archive[r].status \in Sound <=> Clean(archive[r].row, archive[r].judged))
  /\ complete /\ covered => \A r \in StoredRows : ~Fails(r)

LEMMA FlawsOf ==
  ASSUME NEW text, NEW baseline
  PROVE  Flaws(text, baseline) = {} <=>
           /\ Clean(text, edition)
           /\ ~(type \in Locked /\ text.from = "polish" /\ baseline /= "copied")
  BY DEF Flaws, Clean

\* A replay fails for a text whose status is not today's verdict.
LEMMA FailsIfChanged ==
  ASSUME NEW r \in StoredRows
  PROVE  Fails(r) <=> ~(archive[r].status \in Sound <=> FlawsNow(archive[r].row) = {})
  BY DEF Fails

\* Rows that keep their text, and whose status is as good as before or was withdrawn for
\* a flaw.
LEMMA ArchiveInPlace ==
  ASSUME ReplayInv, UNCHANGED <<type, edition, covered, complete>>,
         archive' = [r \in StoredRows |-> archive'[r]],
         \A r \in StoredRows :
           /\ archive'[r] \in ArchiveRows
           /\ archive'[r].row = archive[r].row /\ archive'[r].tried = archive[r].tried
           /\ \/ /\ archive'[r].judged = archive[r].judged
                 /\ archive'[r].status \in Sound <=> archive[r].status \in Sound
              \/ /\ archive'[r].judged = edition /\ archive'[r].status = "shadow_invalid"
                 /\ FlawsNow(archive[r].row) /= {}
  PROVE  ReplayInv'
<1>1. archive \in Seq(ArchiveRows) /\ StoredRows = 1 .. Len(archive)
  BY LenProperties DEF ReplayInv, StoredRows
<1>2. archive' \in Seq(ArchiveRows) /\ Len(archive') = Len(archive)
  <2>1. archive' = [r \in 1 .. Len(archive) |-> archive'[r]]
    BY <1>1
  <2>2. \A r \in 1 .. Len(archive) : archive'[r] \in ArchiveRows
    BY <1>1
  <2>3. QED
    BY <1>1, <2>1, <2>2, RowsInPlace
<1>3. StoredRows' = StoredRows
  BY <1>1, <1>2, LenProperties DEF StoredRows
<1>4. \A text : FlawsNow(text)' = FlawsNow(text)
  BY DEF FlawsNow, Flaws
<1>5. "shadow_invalid" \notin Sound
  BY DEF Sound
<1>6. ASSUME NEW r \in StoredRows
      PROVE  \/ CriesWolf(archive[r])'
             \/ (archive'[r].status \in Sound <=> Clean(archive[r].row, archive[r].judged)')
  <2>1. CASE /\ archive'[r].judged = archive[r].judged
             /\ archive'[r].status \in Sound <=> archive[r].status \in Sound
    BY <2>1 DEF ReplayInv, CriesWolf, Clean
  <2>2. CASE /\ archive'[r].judged = edition /\ archive'[r].status = "shadow_invalid"
             /\ FlawsNow(archive[r].row) /= {}
    <3>1. \/ ~Clean(archive[r].row, edition)
          \/ type \in Locked /\ archive[r].row.from = "polish"
      BY <2>2, FlawsOf DEF FlawsNow
    <3>2. QED
      BY <1>5, <2>2, <3>1 DEF CriesWolf, Clean
  <2>3. QED
    BY <2>1, <2>2
<1>7. ASSUME complete', covered', NEW r \in StoredRows' PROVE ~Fails(r)'
  <2>1. r \in StoredRows /\ ~Fails(r)
    BY <1>3, <1>7 DEF ReplayInv
  <2>2. FlawsNow(archive[r].row)' = FlawsNow(archive[r].row)
    BY <1>4, <2>1
  <2>3. archive'[r].status \in Sound <=> FlawsNow(archive[r].row) = {}
    BY <1>5, <2>1, FailsIfChanged
  <2>4. QED
    BY <2>2, <2>3 DEF Fails
<1>8. QED
  BY <1>2, <1>3, <1>6, <1>7 DEF ReplayInv

LEMMA ReplayStep ==
  ASSUME ReplayConstants, ReplayInv, [ReplayNext]_replayVars
  PROVE  ReplayInv'
<1>0. /\ archive \in Seq(ArchiveRows) /\ StoredRows = 1 .. Len(archive) /\ Len(archive) \in Nat
      /\ \A r \in StoredRows : archive[r] \in ArchiveRows
  <2>1. archive \in Seq(ArchiveRows)
    BY DEF ReplayInv
  <2>2. /\ StoredRows = 1 .. Len(archive) /\ Len(archive) \in Nat
        /\ \A r \in 1 .. Len(archive) : archive[r] \in ArchiveRows
    BY <2>1, LenProperties, ElementOfSeq DEF StoredRows
  <2>3. QED
    BY <2>1, <2>2
<1>1. ASSUME NEW text \in StoredTexts, NEW tried \in BOOLEAN, StoreText(text, tried)
      PROVE  ReplayInv'
  <2> DEFINE n == Len(archive)
             new == [row |-> text, status |-> StoredStatus(text, tried), judged |-> edition,
                     tried |-> tried, promoted |-> FALSE]
  <2>1. /\ archive' = Append(archive, new) /\ ~complete'
        /\ UNCHANGED <<type, edition, covered>>
    BY <1>1 DEF StoreText
  <2>2. text \in ReplayTexts
    BY DEF StoredTexts, ReplayTexts, Sources, Denials, ReplayConstants
  <2>3. StoredStatus(text, tried) \in Sound \cup {"shadow_invalid"}
    BY DEF StoredStatus, Sound
  <2>4. /\ new \in ArchiveRows /\ new.row = text /\ new.status = StoredStatus(text, tried)
        /\ new.judged = edition /\ new.tried = tried
    BY <2>2, <2>3 DEF ArchiveRows, ReplayInv
  <2> HIDE DEF new
  <2>5. /\ archive' \in Seq(ArchiveRows) /\ StoredRows' = 1 .. n + 1
        /\ \A r \in 1 .. n : archive'[r] = archive[r]
        /\ archive'[n + 1] = new
    BY <1>0, <2>1, <2>4, LenProperties, AppendProperties DEF StoredRows
  <2>6. CriesWolf(new) \/ (new.status \in Sound <=> Clean(text, edition))
    <3>1. FlawsWhenWritten(text) = {} <=> Clean(text, edition)
      BY FlawsOf DEF FlawsWhenWritten
    <3>2. QED
      BY <2>4, <3>1 DEF StoredStatus, CriesWolf, Sound
  <2>7. ASSUME NEW r \in StoredRows'
        PROVE  CriesWolf(archive[r])'
               \/ (archive'[r].status \in Sound <=> Clean(archive[r].row, archive[r].judged)')
    <3>1. CASE r \in 1 .. n
      BY <1>0, <2>1, <2>5, <3>1 DEF ReplayInv, CriesWolf, Clean
    <3>2. CASE r = n + 1
      BY <2>1, <2>4, <2>5, <2>6, <3>2 DEF CriesWolf, Clean
    <3>3. QED
      BY <1>0, <2>5, <3>1, <3>2
  <2>8. QED
    BY <2>1, <2>5, <2>7 DEF ReplayInv
<1>2. ASSUME NEW limit \in 1 .. MaxStored, GoldenRun(limit) PROVE ReplayInv'
  <2>1. /\ covered' => \A r \in Selected(limit) : ~Fails(r)
        /\ complete' => StoredRows \subseteq Selected(limit)
        /\ UNCHANGED <<type, archive, edition>>
    BY <1>2 DEF GoldenRun, Selected
  <2>2. StoredRows' = StoredRows /\ \A r : Fails(r)' <=> Fails(r)
    BY <2>1 DEF StoredRows, Fails, FlawsNow, Flaws
  <2>3. QED
    BY <2>1, <2>2 DEF ReplayInv, CriesWolf, Clean
<1>3. ASSUME NEW limit \in 1 .. MaxStored, Revalidate(limit) PROVE ReplayInv'
  <2> DEFINE eligible == {r \in StoredRows : ~archive[r].promoted /\ archive[r].status \in Sound}
             withdrawn == {r \in LatestRows(eligible, limit) : FlawsNow(archive[r].row) /= {}}
  <2>1. /\ archive' = [r \in StoredRows |->
             IF r \in withdrawn
             THEN [archive[r] EXCEPT !.status = "shadow_invalid", !.judged = edition]
             ELSE archive[r]]
        /\ UNCHANGED <<type, edition, covered, complete>>
    BY <1>3 DEF Revalidate
  <2>2. \A r \in withdrawn : FlawsNow(archive[r].row) /= {}
    OBVIOUS
  <2> HIDE DEF withdrawn
  <2>3. edition \in Nat
    BY DEF ReplayInv
  <2>4. ASSUME NEW r \in StoredRows
        PROVE  /\ archive'[r] \in ArchiveRows
               /\ archive'[r].row = archive[r].row /\ archive'[r].tried = archive[r].tried
               /\ \/ /\ archive'[r].judged = archive[r].judged
                     /\ archive'[r].status \in Sound <=> archive[r].status \in Sound
                  \/ /\ archive'[r].judged = edition /\ archive'[r].status = "shadow_invalid"
                     /\ FlawsNow(archive[r].row) /= {}
    <3>1. CASE r \in withdrawn
      <4>1. archive'[r] = [archive[r] EXCEPT !.status = "shadow_invalid", !.judged = edition]
        BY <2>1, <3>1
      <4>2. QED
        BY <1>0, <2>2, <2>3, <3>1, <4>1 DEF ArchiveRows
    <3>2. CASE r \notin withdrawn
      BY <1>0, <2>1, <3>2
    <3>3. QED
      BY <3>1, <3>2
  <2>5. archive' = [r \in StoredRows |-> archive'[r]]
    BY <2>1
  <2>6. QED
    BY <2>1, <2>4, <2>5, ArchiveInPlace
<1>4. ASSUME NEW r \in StoredRows, NEW checked \in BOOLEAN, PromoteText(r, checked)
      PROVE  ReplayInv'
  <2>1. /\ archive[r].status \in Sound
        /\ archive' = [s \in StoredRows |->
             IF s = r THEN [archive[r] EXCEPT !.promoted = TRUE, !.status = "promoted_valid"]
             ELSE [archive[s] EXCEPT !.promoted = @ /\ type /= "employee"]]
        /\ UNCHANGED <<type, edition, covered, complete>>
    BY <1>4 DEF PromoteText
  <2>2. ASSUME NEW s \in StoredRows
        PROVE  /\ archive'[s] \in ArchiveRows
               /\ archive'[s].row = archive[s].row /\ archive'[s].tried = archive[s].tried
               /\ archive'[s].judged = archive[s].judged
               /\ archive'[s].status \in Sound <=> archive[s].status \in Sound
    <3>0. PICK a \in ArchiveRows : a = archive[s]
      BY <1>0
    <3>1. CASE s = r
      <4>1. archive'[s] = [a EXCEPT !.promoted = TRUE, !.status = "promoted_valid"]
        BY <2>1, <3>0, <3>1
      <4>2. QED
        BY <2>1, <3>0, <3>1, <4>1 DEF ArchiveRows, Sound
    <3>2. CASE s /= r
      <4>1. archive'[s] = [a EXCEPT !.promoted = a.promoted /\ type /= "employee"]
        BY <2>1, <3>0, <3>2
      <4>2. (a.promoted /\ type /= "employee") \in BOOLEAN
        OBVIOUS
      <4>3. QED
        BY <3>0, <4>1, <4>2 DEF ArchiveRows
    <3>3. QED
      BY <3>1, <3>2
  <2>3. archive' = [s \in StoredRows |-> archive'[s]]
    BY <2>1
  <2>4. QED
    BY <2>1, <2>2, <2>3, ArchiveInPlace
<1>5. CASE EditPhrases
  <2>1. edition' \in Nat /\ ~complete' /\ UNCHANGED <<type, archive, covered>>
    BY <1>5 DEF EditPhrases, ReplayConstants
  <2>2. QED
    BY <2>1 DEF ReplayInv, StoredRows, CriesWolf, Clean
<1>6. CASE UNCHANGED replayVars
  <2>1. UNCHANGED <<type, archive, edition, covered, complete>>
    BY <1>6 DEF replayVars
  <2>2. StoredRows' = StoredRows /\ \A r : Fails(r)' <=> Fails(r)
    BY <2>1 DEF StoredRows, Fails, FlawsNow, Flaws
  <2>3. QED
    BY <2>1, <2>2 DEF ReplayInv, CriesWolf, Clean
<1>7. QED
  BY <1>1, <1>2, <1>3, <1>4, <1>5, <1>6 DEF ReplayNext

\* The status of every text is the verdict of the phrases it was judged by.
THEOREM ReplayInvariant == ReplaySpec => []ReplayInv
<1> USE ReplayConstants
<1>1. ReplayInit => ReplayInv
  <2> SUFFICES ASSUME ReplayInit PROVE ReplayInv
    OBVIOUS
  <2>1. archive \in Seq(ArchiveRows) /\ StoredRows = {}
    BY EmptySeq DEF ReplayInit, StoredRows
  <2>2. QED
    BY <2>1 DEF ReplayInit, ReplayInv, ReplayConstants
<1>2. ReplayInv /\ [ReplayNext]_replayVars => ReplayInv'
  BY ReplayStep
<1>3. QED
  BY <1>1, <1>2, PTL DEF ReplaySpec

\* A replay's failure is a regression, and a text that is ready for promotion is of a type
\* that a phone shows, among texts that would all pass again (run_expression_golden_replay,
\* build_expression_promotion_readiness_payload).
THEOREM VerdictsAreSound == ReplaySpec => []VerdictsHold
<1>1. ReplayInv => VerdictsHold
  <2> SUFFICES ASSUME ReplayInv PROVE VerdictsHold
    OBVIOUS
  <2>1. FailureIsRegression
    <3> SUFFICES ASSUME NEW r \in StoredRows, Fails(r), archive[r].judged = edition,
                        ~CriesWolf(archive[r])
                 PROVE  FALSE
      BY DEF FailureIsRegression, CriesWolf
    <3>1. archive[r].status \in Sound <=> Clean(archive[r].row, edition)
      BY DEF ReplayInv
    <3>2. FlawsNow(archive[r].row) = {} <=> Clean(archive[r].row, edition)
      BY FlawsOf DEF FlawsNow, CriesWolf
    <3>3. QED
      BY <3>1, <3>2, FailsIfChanged
  <2>2. ReadyIsSound
    <3> SUFFICES ASSUME NEW t \in StoredRows, Ready(t)
                 PROVE  /\ type \in Surfaced
                        /\ complete => \A r \in StoredRows :
                             archive[r].status \in Sound => FlawsNow(archive[r].row) = {}
      BY DEF ReadyIsSound
    <3>1. covered /\ type \in Surfaced
      BY DEF Ready, GenericBlockers, When
    <3>2. complete => \A r \in StoredRows : ~Fails(r)
      BY <3>1 DEF ReplayInv
    <3>3. QED
      BY <3>1, <3>2, FailsIfChanged
  <2>3. QED
    BY <2>1, <2>2 DEF VerdictsHold
<1>2. QED
  BY <1>1, ReplayInvariant, PTL

-----------------------------------------------------------------------------
(* PromptRegistry *)

VersionRows == [active : BOOLEAN, sound : BOOLEAN, nth : Nat]

BindingRows ==
  [scope : {"global", "company"}, version : Nat, priority : {NormalPriority, ReleasePriority}]

\* So long as no version was retired, every version is active and came with its binding,
\* so that the binding that the resolver finds is to the newest version.
NewestIsBound ==
  ~retired =>
    /\ versions \in Seq(VersionRows) /\ bindings \in Seq(BindingRows)
    /\ \A v \in 1 .. Len(versions) : versions[v].active
    /\ \A b \in 1 .. Len(bindings) : bindings[b].version \in 1 .. Len(versions)
    /\ Len(versions) /= 0 =>
         \E b \in Bound("global") :
           bindings[b].version = Len(versions) /\ \A c \in Bound("global") : Outranks(b, c)

LEMMA OnlyTop ==
  ASSUME bindings \in Seq(BindingRows), NEW b \in Bound("global"),
         \A c \in Bound("global") : Outranks(b, c)
  PROVE  Top("global") = b
<1>1. \A c \in Bound("global") : c \in 1 .. Len(bindings) /\ bindings[c] \in BindingRows
  BY LenProperties, ElementOfSeq DEF Bound
<1>2. \A c \in Bound("global") : c \in Nat /\ bindings[c].priority \in Nat
  BY <1>1, LenProperties DEF BindingRows, NormalPriority, ReleasePriority
<1>3. ASSUME NEW c \in Bound("global"), \A d \in Bound("global") : Outranks(c, d)
      PROVE  c = b
  <2>1. Outranks(b, c) /\ Outranks(c, b)
    BY <1>3
  <2>2. QED
    BY <1>2, <2>1 DEF Outranks
<1>4. QED
  BY <1>3 DEF Top

\* With every version active the newest one is the last.
LEMMA LatestIsLast ==
  ASSUME versions \in Seq(VersionRows), \A v \in 1 .. Len(versions) : versions[v].active
  PROVE  Latest = Len(versions)
<1> DEFINE n == Len(versions)
<1>1. n \in Nat /\ DOMAIN versions = 1 .. n
  BY LenProperties
<1> HIDE DEF n
<1>2. ActiveVersions = 1 .. n
  BY <1>1 DEF ActiveVersions, n
<1>3. CASE n = 0
  BY <1>1, <1>2, <1>3 DEF Latest, NoVersion, n
<1>4. CASE n /= 0
  <2>1. n \in 1 .. n /\ \A w \in 1 .. n : w <= n
    BY <1>1, <1>4
  <2>2. \A v \in 1 .. n : (\A w \in 1 .. n : w <= v) => v = n
    BY <1>1, <1>4
  <2>3. NewestOf(1 .. n) = n
    BY <2>1, <2>2 DEF NewestOf
  <2>4. QED
    BY <1>2, <2>1, <2>3 DEF Latest, n
<1>5. QED
  BY <1>3, <1>4

\* A version that comes with a binding ahead of the others.
LEMMA VersionWithBinding ==
  ASSUME NewestIsBound, ~retired, ~retired', NEW new \in VersionRows, new.active,
         NEW p \in {NormalPriority, ReleasePriority},
         versions' = Append(versions, new),
         bindings' = Append(bindings, [scope |-> "global", version |-> Len(versions) + 1,
                                       priority |-> p]),
         p = ReleasePriority \/ Len(versions) = 0
  PROVE  NewestIsBound'
<1> DEFINE n == Len(versions)
           m == Len(bindings)
           bound == [scope |-> "global", version |-> n + 1, priority |-> p]
<1>1. /\ versions \in Seq(VersionRows) /\ bindings \in Seq(BindingRows)
      /\ \A v \in 1 .. n : versions[v].active
      /\ \A b \in 1 .. m : bindings[b].version \in 1 .. n
  BY DEF NewestIsBound
<1>2. n \in Nat /\ m \in Nat
  BY <1>1, LenProperties
<1>3. bound \in BindingRows
  BY <1>2 DEF BindingRows
<1>4. /\ versions' \in Seq(VersionRows) /\ Len(versions') = n + 1
      /\ \A v \in 1 .. n : versions'[v] = versions[v]
      /\ versions'[n + 1] = new
  BY <1>1, AppendProperties
<1>5. bindings' = Append(bindings, bound)
  OBVIOUS
<1>6. bound.scope = "global" /\ bound.version = n + 1 /\ bound.priority = p
  OBVIOUS
<1> HIDE DEF bound
<1>7. /\ bindings' \in Seq(BindingRows) /\ Len(bindings') = m + 1
      /\ \A b \in 1 .. m : bindings'[b] = bindings[b]
      /\ bindings'[m + 1] = bound
  BY <1>1, <1>3, <1>5, AppendProperties
<1>8. DOMAIN bindings' = 1 .. m + 1 /\ \A b \in 1 .. m : bindings[b] \in BindingRows
  BY <1>1, <1>7, LenProperties, ElementOfSeq
<1> HIDE DEF n, m
<1>9. \A v \in 1 .. n + 1 : versions'[v].active
  BY <1>1, <1>2, <1>4
<1>10. \A b \in 1 .. m + 1 : bindings'[b].version \in 1 .. n + 1
  BY <1>1, <1>2, <1>6, <1>7
<1>11. m + 1 \in Bound("global")'
  BY <1>2, <1>6, <1>7, <1>8 DEF Bound
<1>12. ASSUME NEW c \in Bound("global")'
       PROVE  \/ p > bindings'[c].priority
              \/ p = bindings'[c].priority /\ m + 1 >= c
  <2>1. c \in 1 .. m + 1
    BY <1>8 DEF Bound
  <2>2. CASE c = m + 1
    BY <1>2, <1>6, <1>7, <2>2
  <2>3. CASE c \in 1 .. m
    <3>1. n /= 0
      BY <1>1, <1>2, <2>3
    <3>2. p = ReleasePriority
      BY <3>1 DEF n
    <3>3. bindings'[c].priority \in {NormalPriority, ReleasePriority}
      BY <1>7, <1>8, <2>3 DEF BindingRows
    <3>4. p > bindings'[c].priority \/ p = bindings'[c].priority
      <4>1. PICK q \in {100, 120} : q = bindings'[c].priority
        BY <3>3 DEF NormalPriority, ReleasePriority
      <4>2. p = 120
        BY <3>2 DEF ReleasePriority
      <4>3. p > q \/ p = q
        BY <4>2
      <4>4. QED
        BY <4>1, <4>3
    <3>5. m + 1 >= c
      BY <1>2, <2>3
    <3>6. QED
      BY <3>4, <3>5
  <2>4. c = m + 1 \/ c \in 1 .. m
    BY <1>2, <2>1
  <2>5. QED
    BY <2>2, <2>3, <2>4
<1>13. bindings'[m + 1].version = n + 1 /\ bindings'[m + 1].priority = p
  BY <1>6, <1>7
<1>14. \E b \in Bound("global")' :
         /\ bindings'[b].version = n + 1
         /\ \A c \in Bound("global")' :
              \/ bindings'[b].priority > bindings'[c].priority
              \/ bindings'[b].priority = bindings'[c].priority /\ b >= c
  <2>1. \A c \in Bound("global")' :
          \/ bindings'[m + 1].priority > bindings'[c].priority
          \/ bindings'[m + 1].priority = bindings'[c].priority /\ m + 1 >= c
    BY <1>12, <1>13
  <2>2. PICK b \in Bound("global")' : b = m + 1
    BY <1>11
  <2>3. bindings'[b].version = n + 1
    BY <1>13, <2>2
  <2>4. \A c \in Bound("global")' :
          \/ bindings'[b].priority > bindings'[c].priority
          \/ bindings'[b].priority = bindings'[c].priority /\ b >= c
    BY <2>1, <2>2
  <2>5. QED
    BY <2>3, <2>4
<1>15. QED
  BY <1>4, <1>7, <1>9, <1>10, <1>14 DEF NewestIsBound, Outranks

\* The bootstrap adds version and binding to an empty registry, and neither otherwise.
LEMMA ApplyKeepsBound ==
  ASSUME NewestIsBound, Apply, ~retired
  PROVE  NewestIsBound'
<1>1. /\ versions \in Seq(VersionRows) /\ bindings \in Seq(BindingRows)
      /\ \A v \in 1 .. Len(versions) : versions[v].active
      /\ \A b \in 1 .. Len(bindings) : bindings[b].version \in 1 .. Len(versions)
  BY DEF NewestIsBound
<1>2. Latest = Len(versions) /\ Len(versions) \in Nat /\ Len(bindings) \in Nat
  BY <1>1, LatestIsLast, LenProperties
<1>3. versions' = WithVersion /\ bindings' = WithBinding /\ retired' = retired
  BY DEF Apply
<1>4. CASE Len(versions) = 0
  <2>1. versions = <<>> /\ bindings = <<>>
    BY <1>1, <1>2, <1>4, EmptySeq
  <2>2. NextNth(versions) = 1
    <3>1. DOMAIN versions = {} /\ Len(versions) = 0
      BY <1>4, <2>1
    <3>2. Taken(versions) = {}
      BY <3>1 DEF Taken
    <3>3. 1 .. Len(versions) + 1 = {1} /\ 1 .. 1 - 1 = {}
      BY <3>1
    <3>4. QED
      BY <3>2, <3>3 DEF NextNth
  <2> DEFINE new == [active |-> TRUE, sound |-> TRUE, nth |-> 1]
  <2>3. WithVersion = Append(versions, new) /\ versions' = Append(versions, new)
    BY <1>2, <1>3, <1>4, <2>2 DEF WithVersion, NewVersion, NoVersion
  <2>4. new \in VersionRows /\ new.active /\ new.nth = 1
    BY DEF VersionRows
  <2> HIDE DEF new
  <2>5. DOMAIN WithVersion = {1} /\ WithVersion[1] = new
    <3>1. WithVersion = <<new>>
      BY <2>1, <2>3
    <3>2. QED
      BY <3>1
  <2>6. First(WithVersion) = {1}
    BY <2>4, <2>5 DEF First
  <2>7. BindsTo = 1
    BY <1>2, <1>4, <2>6 DEF BindsTo, FirstOrLatest, NoVersion
  <2>8. BoundTo(1) = {}
    BY <2>1 DEF BoundTo, Bound
  <2>9. bindings' = Append(bindings, [scope |-> "global", version |-> Len(versions) + 1,
                                      priority |-> NormalPriority])
    BY <1>3, <1>4, <2>7, <2>8 DEF WithBinding
  <2>10. QED
    BY <1>3, <1>4, <2>3, <2>4, <2>9, VersionWithBinding
<1>5. CASE Len(versions) /= 0
  <2>1. versions' = versions /\ BindsTo = Len(versions)
    BY <1>2, <1>3, <1>5 DEF WithVersion, BindsTo, NoVersion
  <2>2. BoundTo(Len(versions)) /= {}
    BY <1>5 DEF NewestIsBound, BoundTo
  <2>3. bindings' = bindings
    BY <1>3, <2>1, <2>2 DEF WithBinding
  <2>4. QED
    BY <1>3, <2>1, <2>3 DEF NewestIsBound, Bound, Outranks
<1>6. QED
  BY <1>4, <1>5

\* A company's binding is not asked for by the global scope.
LEMMA CompanyBindingKeeps ==
  ASSUME NewestIsBound, ~retired, NEW v \in DOMAIN versions, BindCompany(v)
  PROVE  NewestIsBound'
<1> DEFINE n == Len(versions)
           m == Len(bindings)
           bound == [scope |-> "company", version |-> v, priority |-> NormalPriority]
<1>1. /\ versions \in Seq(VersionRows) /\ bindings \in Seq(BindingRows)
      /\ \A w \in 1 .. n : versions[w].active
      /\ \A b \in 1 .. m : bindings[b].version \in 1 .. n
      /\ n /= 0 => \E b \in Bound("global") :
           bindings[b].version = n /\ \A c \in Bound("global") : Outranks(b, c)
  BY DEF NewestIsBound
<1>2. n \in Nat /\ m \in Nat /\ DOMAIN versions = 1 .. n /\ DOMAIN bindings = 1 .. m
  BY <1>1, LenProperties
<1>3. /\ bindings' = Append(bindings, bound) /\ bound \in BindingRows
      /\ UNCHANGED <<versions, retired>>
  BY <1>2 DEF BindCompany, BindingRows
<1>4. bound.scope = "company" /\ bound.version = v
  OBVIOUS
<1> HIDE DEF bound
<1>5. /\ bindings' \in Seq(BindingRows) /\ Len(bindings') = m + 1
      /\ \A b \in 1 .. m : bindings'[b] = bindings[b]
      /\ bindings'[m + 1] = bound
  BY <1>1, <1>3, AppendProperties
<1>6. DOMAIN bindings' = 1 .. m + 1
  BY <1>5, LenProperties
<1> HIDE DEF n, m
<1>7. Bound("global")' = Bound("global") /\ Bound("global") \subseteq 1 .. m
  BY <1>2, <1>4, <1>5, <1>6 DEF Bound
<1>8. \A b, c \in Bound("global") : Outranks(b, c)' <=> Outranks(b, c)
  BY <1>5, <1>7 DEF Outranks
<1>9. \A b \in 1 .. m + 1 : bindings'[b].version \in 1 .. n
  BY <1>1, <1>2, <1>4, <1>5
<1>10. n /= 0 => \E b \in Bound("global")' :
         bindings'[b].version = n /\ \A c \in Bound("global")' : Outranks(b, c)'
  BY <1>1, <1>5, <1>7, <1>8
<1>11. Len(versions)' = n /\ versions' = versions
  BY <1>3 DEF n
<1>12. QED
  BY <1>1, <1>5, <1>9, <1>10, <1>11 DEF NewestIsBound, Outranks

\* So long as no version is retired, the global scope resolves to the newest version.
THEOREM RegistryInvariant == RegistrySpec => []NewestIsBound
<1>1. RegistryInit => NewestIsBound
  <2> SUFFICES ASSUME RegistryInit PROVE NewestIsBound
    OBVIOUS
  <2>1. CASE Empty
    BY <2>1, EmptySeq DEF Empty, NewestIsBound
  <2>2. CASE Seeded
    <3> DEFINE first == [active |-> TRUE, sound |-> TRUE, nth |-> 1]
               bound == [scope |-> "global", version |-> 1, priority |-> NormalPriority]
    <3>1. versions = <<first>> /\ bindings = <<bound>>
      BY <2>2 DEF Seeded
    <3>2. first \in VersionRows /\ bound \in BindingRows /\ first.active
          /\ bound.scope = "global" /\ bound.version = 1 /\ bound.priority = NormalPriority
      BY DEF VersionRows, BindingRows
    <3> HIDE DEF first, bound
    <3>3. /\ versions \in Seq(VersionRows) /\ bindings \in Seq(BindingRows)
          /\ Len(versions) = 1 /\ Len(bindings) = 1 /\ DOMAIN bindings = {1}
          /\ versions[1] = first /\ bindings[1] = bound
      BY <3>1, <3>2
    <3>4. Bound("global") = {1} /\ Outranks(1, 1)
      BY <3>2, <3>3 DEF Bound, Outranks
    <3>5. QED
      BY <3>2, <3>3, <3>4 DEF NewestIsBound
  <2>3. QED
    BY <2>1, <2>2 DEF RegistryInit
<1>2. NewestIsBound /\ [RegistryNext]_registryVars => NewestIsBound'
  <2> SUFFICES ASSUME NewestIsBound, [RegistryNext]_registryVars, ~retired' PROVE NewestIsBound'
    BY DEF NewestIsBound
  <2>1. CASE Apply
    BY <2>1, ApplyKeepsBound DEF Apply
  <2>2. ASSUME NEW good \in BOOLEAN, ReleaseVersion(good) PROVE NewestIsBound'
    <3> DEFINE new == [active |-> TRUE, sound |-> good, nth |-> 0]
    <3>1. new \in VersionRows /\ new.active
      BY DEF VersionRows
    <3>2. /\ versions' = Append(versions, new) /\ ~retired
          /\ bindings' = Append(bindings, [scope |-> "global", version |-> Len(versions) + 1,
                                           priority |-> ReleasePriority])
      BY <2>2 DEF ReleaseVersion
    <3> HIDE DEF new
    <3>3. QED
      BY <3>1, <3>2, VersionWithBinding
  <2>3. ASSUME NEW v \in DOMAIN versions, Retire(v) PROVE NewestIsBound'
    BY <2>3 DEF Retire
  <2>4. ASSUME NEW v \in DOMAIN versions, BindCompany(v) PROVE NewestIsBound'
    BY <2>4, CompanyBindingKeeps DEF BindCompany
  <2>5. CASE UNCHANGED <<versions, bindings, retired>>
    BY <2>5 DEF NewestIsBound, Bound, Outranks
  <2>6. QED
    BY <2>1, <2>2, <2>3, <2>4, <2>5
    DEF RegistryNext, registryVars, ReleaseContract, RetireContract, Disable, Replay
<1>3. QED
  BY <1>1, <1>2, PTL DEF RegistrySpec

\* What is declared ready for promotion passes the registry's own audit, and the version
\* that the catalog filled in is the one that a generation resolves
\* (build_expression_promotion_readiness_payload, audit_expression_registry,
\* _resolve_prompt_version).
THEOREM ReadyIsGenerated == RegistrySpec => []ReadyIsServed
<1>1. NewestIsBound => ReadyIsServed
  <2> SUFFICES ASSUME NewestIsBound, PromotionReady
               PROVE  /\ RegistryIssues \subseteq {"template_artifact_type_mismatch"}
                      /\ retired \/ Generates({"global"})
    BY DEF ReadyIsServed
  <2>1. /\ template \notin {"none", "stage"} /\ audience = "active" /\ phrases
        /\ ActiveVersions /= {} /\ ActiveContracts /= {}
        /\ ~\A v \in ActiveVersions : BoundTo(v) = {}
        /\ Contract.complete
    BY DEF PromotionReady, LayerReady, ContractIssues, Issue
  <2>2. RegistryIssues \subseteq {"template_artifact_type_mismatch"}
    BY <2>1 DEF RegistryIssues, Issue
  <2>3. Latest /= NoVersion => versions[Latest].sound
    BY <2>1 DEF PromotionReady, CatalogIssues, Issue
  <2>4. ASSUME ~retired PROVE Generates({"global"})
    <3>1. /\ versions \in Seq(VersionRows) /\ bindings \in Seq(BindingRows)
          /\ \A v \in 1 .. Len(versions) : versions[v].active
      BY <2>4 DEF NewestIsBound
    <3>2. Latest = Len(versions) /\ DOMAIN versions = 1 .. Len(versions) /\ Len(versions) \in Nat
      BY <3>1, LatestIsLast, LenProperties
    <3>3. Len(versions) /= 0
      BY <2>1, <3>2 DEF ActiveVersions
    <3>4. PICK b \in Bound("global") :
            bindings[b].version = Len(versions) /\ \A c \in Bound("global") : Outranks(b, c)
      BY <2>4, <3>3 DEF NewestIsBound
    <3>5. Top("global") = b
      BY <3>1, <3>4, OnlyTop
    <3>6. Offers("global")
      BY <3>1, <3>2, <3>3, <3>4, <3>5 DEF Offers
    <3>7. Served({"global"}) = Len(versions)
      BY <3>4, <3>5, <3>6 DEF Served
    <3>8. QED
      BY <2>1, <2>3, <3>2, <3>3, <3>7 DEF Generates, NoVersion
  <2>5. QED
    BY <2>2, <2>4
<1>2. QED
  BY <1>1, RegistryInvariant, PTL

-----------------------------------------------------------------------------
(* What a bootstrap leaves *)

ContractRows == [active : BOOLEAN, complete : BOOLEAN, object : BOOLEAN, nth : Nat]

RegistryRows ==
  /\ versions \in Seq(VersionRows) /\ bindings \in Seq(BindingRows)
  /\ contracts \in Seq(ContractRows)

\* Until the next change by hand, nothing is missing but perhaps the binding of the
\* newest version.
BootstrapLeft ==
  applied =>
    /\ ActiveVersions /= {} /\ ActiveContracts /= {}
    /\ audience /= "none" /\ phrases /\ template /= "none"

\* A set of naturals has a least element.
LEMMA LeastOf ==
  ASSUME NEW T, T \subseteq Nat, T /= {}
  PROVE  \E n \in T : \A m \in T : n <= m
<1> DEFINE R == OpToRel(<, Nat)
<1>1. IsWellFoundedOn(R, Nat)
  BY NatLessThanWellFounded
<1>2. \A m, n \in Nat : m < n => <<m, n>> \in R
  BY DEF OpToRel
<1> HIDE DEF R
<1>3. PICK n \in T : \A m \in T : <<m, n>> \notin R
  BY <1>1, WFMin
<1>4. \A m \in T : ~(m < n)
  BY <1>2, <1>3
<1>5. QED
  BY <1>4

\* _expression_bootstrap_next_id finds a number that no row has: there are fewer rows
\* than numbers to choose from.
LEMMA FreeNumber ==
  ASSUME NEW Row, NEW table \in Seq(Row), \A r \in Row : r.nth \in Nat
  PROVE  NextNth(table) \in Nat /\ NextNth(table) \notin Taken(table)
<1> DEFINE n == Len(table)
           ids == {table[r].nth : r \in 1 .. n}
           free == {k \in 1 .. n + 1 : k \notin Taken(table)}
<1>1. n \in Nat /\ DOMAIN table = 1 .. n /\ \A r \in 1 .. n : table[r].nth \in Nat
  BY LenProperties, ElementOfSeq
<1>2. Taken(table) = ids \ {0}
  BY <1>1 DEF Taken
<1>3. IsFiniteSet(ids) /\ Cardinality(ids) <= n
  <2> DEFINE f == [r \in 1 .. n |-> table[r].nth]
  <2>1. IsFiniteSet(1 .. n) /\ Cardinality(1 .. n) = n
    <3> HIDE DEF n
    <3>1. QED
      BY <1>1, FS_Interval
  <2>2. f \in Surjection(1 .. n, ids)
    BY DEF Surjection
  <2> HIDE DEF f, ids
  <2>3. QED
    BY <2>1, <2>2, FS_Surjection
<1>4. free /= {}
  <2> SUFFICES ASSUME free = {} PROVE FALSE
    OBVIOUS
  <2>1. 1 .. n + 1 \subseteq ids
    BY <1>2
  <2>2. Cardinality(1 .. n + 1) = n + 1
    BY <1>1, FS_Interval
  <2> HIDE DEF ids
  <2>3. Cardinality(1 .. n + 1) <= Cardinality(ids) /\ Cardinality(ids) \in Nat
    BY <1>3, <2>1, FS_Subset, FS_CardinalityType
  <2>4. QED
    BY <1>1, <1>3, <2>2, <2>3
<1>5. PICK k \in free : \A m \in free : k <= m
  <2>1. free \subseteq Nat
    BY <1>1
  <2> HIDE DEF free
  <2>2. QED
    BY <1>4, <2>1, LeastOf
<1>6. k \in 1 .. n + 1 /\ k \notin Taken(table) /\ 1 .. k - 1 \subseteq Taken(table)
  <2>1. ASSUME NEW m \in 1 .. k - 1 PROVE m \in Taken(table)
    BY <1>1, <1>5
  <2>2. QED
    BY <2>1
<1>7. NextNth(table) \in 1 .. n + 1 /\ NextNth(table) \notin Taken(table)
  <2> HIDE DEF n
  <2>1. \E m \in 1 .. n + 1 : m \notin Taken(table) /\ 1 .. m - 1 \subseteq Taken(table)
    BY <1>6
  <2>2. QED
    BY <2>1 DEF NextNth, n
<1>8. QED
  BY <1>1, <1>7

\* The newest of the active versions is one of them.
LEMMA LatestIsActive ==
  ASSUME versions \in Seq(VersionRows), ActiveVersions /= {}
  PROVE  Latest \in ActiveVersions /\ Latest /= NoVersion
<1> DEFINE n == Len(versions)
           T == {n - v : v \in ActiveVersions}
<1>1. n \in Nat /\ ActiveVersions \subseteq 1 .. n
  BY LenProperties DEF ActiveVersions
<1> HIDE DEF n
<1>2. T \subseteq Nat /\ T /= {}
  <2>1. \A v \in ActiveVersions : n - v \in Nat
    BY <1>1
  <2>2. QED
    BY <2>1
<1>3. PICK m \in T : \A k \in T : m <= k
  <2> HIDE DEF T
  <2>1. QED
    BY <1>2, LeastOf
<1>4. PICK v \in ActiveVersions : m = n - v
  OBVIOUS
<1>5. ASSUME NEW w \in ActiveVersions PROVE w <= v
  <2>1. n - v <= n - w
    BY <1>3, <1>4
  <2>2. QED
    BY <1>1, <2>1
<1>6. NewestOf(ActiveVersions) \in ActiveVersions
  BY <1>5 DEF NewestOf
<1>7. QED
  BY <1>1, <1>6 DEF Latest, NoVersion

\* What the bootstrap adds are rows.
LEMMA BootstrapRows ==
  ASSUME RegistryRows
  PROVE  /\ NewVersion \in VersionRows
         /\ WithVersion \in Seq(VersionRows) /\ WithBinding \in Seq(BindingRows)
         /\ WithContract \in Seq(ContractRows)
<1> USE DEF RegistryRows
<1>1. NewVersion \in VersionRows
  <2>1. NextNth(versions) \in Nat
    <3>1. \A r \in VersionRows : r.nth \in Nat
      BY DEF VersionRows
    <3>2. QED
      BY <3>1, FreeNumber
  <2>2. QED
    BY <2>1 DEF NewVersion, VersionRows
<1>2. WithVersion \in Seq(VersionRows)
  <2> HIDE DEF NewVersion
  <2>1. QED
    BY <1>1, AppendProperties DEF WithVersion
<1>3. BindsTo \in Nat
  <2>1. Latest \in Nat
    <3>1. ActiveVersions \subseteq Nat
      BY LenProperties DEF ActiveVersions
    <3>2. QED
      BY <3>1, LatestIsActive DEF Latest, NoVersion
  <2>2. First(WithVersion) \subseteq Nat
    BY <1>2, LenProperties DEF First
  <2>3. QED
    BY <2>1, <2>2 DEF BindsTo, FirstOrLatest
<1>4. WithBinding \in Seq(BindingRows)
  <2>1. [scope |-> "global", version |-> BindsTo, priority |-> NormalPriority] \in BindingRows
    BY <1>3 DEF BindingRows
  <2>2. QED
    BY <2>1, AppendProperties DEF WithBinding
<1>5. WithContract \in Seq(ContractRows)
  <2>1. NextNth(contracts) \in Nat
    <3>1. \A r \in ContractRows : r.nth \in Nat
      BY DEF ContractRows
    <3>2. QED
      BY <3>1, FreeNumber
  <2>2. [active |-> TRUE, complete |-> TRUE, object |-> TRUE, nth |-> NextNth(contracts)]
          \in ContractRows
    BY <2>1 DEF ContractRows
  <2>3. QED
    BY <2>2, AppendProperties DEF WithContract
<1>6. QED
  BY <1>1, <1>2, <1>4, <1>5

\* Every change leaves rows.
LEMMA RowsStep == RegistryRows /\ [RegistryNext]_registryVars => RegistryRows'
<1> SUFFICES ASSUME RegistryRows, [RegistryNext]_registryVars PROVE RegistryRows'
  OBVIOUS
<1> USE DEF RegistryRows
<1>1. CASE Apply
  BY <1>1, BootstrapRows DEF Apply
<1>2. ASSUME NEW good \in BOOLEAN, ReleaseVersion(good) PROVE RegistryRows'
  <2> DEFINE new == [active |-> TRUE, sound |-> good, nth |-> 0]
             bound == [scope |-> "global", version |-> Len(versions) + 1,
                       priority |-> ReleasePriority]
  <2>1. new \in VersionRows /\ bound \in BindingRows
    BY LenProperties DEF VersionRows, BindingRows
  <2>2. versions' = Append(versions, new) /\ bindings' = Append(bindings, bound)
        /\ UNCHANGED contracts
    BY <1>2 DEF ReleaseVersion
  <2> HIDE DEF new, bound
  <2>3. QED
    BY <2>1, <2>2, AppendProperties
<1>3. ASSUME NEW full \in BOOLEAN, NEW object \in BOOLEAN, ReleaseContract(full, object)
      PROVE  RegistryRows'
  <2> DEFINE new == [active |-> TRUE, complete |-> full, object |-> object, nth |-> 0]
  <2>1. new \in ContractRows
    BY DEF ContractRows
  <2>2. contracts' = Append(contracts, new) /\ UNCHANGED <<versions, bindings>>
    BY <1>3 DEF ReleaseContract
  <2> HIDE DEF new
  <2>3. QED
    BY <2>1, <2>2, AppendProperties
<1>4. ASSUME NEW v \in DOMAIN versions, Retire(v) PROVE RegistryRows'
  <2> DEFINE row == [versions[v] EXCEPT !.active = FALSE]
  <2>1. v \in 1 .. Len(versions) /\ versions[v] \in VersionRows
    BY LenProperties, ElementOfSeq
  <2>2. row \in VersionRows
    BY <2>1 DEF VersionRows
  <2>3. versions' = [versions EXCEPT ![v] = row] /\ UNCHANGED <<bindings, contracts>>
    BY <1>4 DEF Retire
  <2> HIDE DEF row
  <2>4. QED
    BY <2>1, <2>2, <2>3, ExceptSeq
<1>5. ASSUME NEW c \in DOMAIN contracts, RetireContract(c) PROVE RegistryRows'
  <2> DEFINE row == [contracts[c] EXCEPT !.active = FALSE]
  <2>1. c \in 1 .. Len(contracts) /\ contracts[c] \in ContractRows
    BY LenProperties, ElementOfSeq
  <2>2. row \in ContractRows
    BY <2>1 DEF ContractRows
  <2>3. contracts' = [contracts EXCEPT ![c] = row] /\ UNCHANGED <<versions, bindings>>
    BY <1>5 DEF RetireContract
  <2> HIDE DEF row
  <2>4. QED
    BY <2>1, <2>2, <2>3, ExceptSeq
<1>6. ASSUME NEW v \in DOMAIN versions, BindCompany(v) PROVE RegistryRows'
  <2> DEFINE bound == [scope |-> "company", version |-> v, priority |-> NormalPriority]
  <2>1. bound \in BindingRows
    BY LenProperties DEF BindingRows
  <2>2. bindings' = Append(bindings, bound) /\ UNCHANGED <<versions, contracts>>
    BY <1>6 DEF BindCompany
  <2> HIDE DEF bound
  <2>3. QED
    BY <2>1, <2>2, AppendProperties
<1>7. CASE UNCHANGED <<versions, bindings, contracts>>
  BY <1>7
<1>8. QED
  BY <1>1, <1>2, <1>3, <1>4, <1>5, <1>6, <1>7 DEF RegistryNext, registryVars, Disable, Replay

\* A bootstrap adds what is missing of all but the binding; a change by hand is no
\* bootstrap.
LEMMA BootstrapStep ==
  RegistryRows /\ BootstrapLeft /\ [RegistryNext]_registryVars => BootstrapLeft'
<1> SUFFICES ASSUME RegistryRows, BootstrapLeft, [RegistryNext]_registryVars PROVE BootstrapLeft'
  OBVIOUS
<1>1. CASE Apply
  <2> USE DEF RegistryRows
  <2>1. audience' /= "none" /\ phrases' /\ template' /= "none"
    BY <1>1 DEF Apply
  <2>2. ActiveVersions' /= {}
    <3>1. CASE Latest = NoVersion
      <4>1. versions' = Append(versions, NewVersion) /\ NewVersion \in VersionRows
        BY <1>1, <3>1, BootstrapRows DEF Apply, WithVersion
      <4>2. NewVersion.active
        BY DEF NewVersion
      <4> HIDE DEF NewVersion
      <4>3. versions'[Len(versions) + 1] = NewVersion /\ Len(versions') = Len(versions) + 1
            /\ versions' \in Seq(VersionRows)
        BY <4>1, AppendProperties
      <4>4. Len(versions) + 1 \in DOMAIN versions'
        BY <4>3, LenProperties
      <4>5. QED
        BY <4>2, <4>3, <4>4 DEF ActiveVersions
    <3>2. CASE Latest /= NoVersion
      <4>1. versions' = versions
        BY <1>1, <3>2 DEF Apply, WithVersion
      <4>2. QED
        BY <3>2, <4>1 DEF Latest, ActiveVersions
    <3>3. QED
      BY <3>1, <3>2
  <2>3. ActiveContracts' /= {}
    <3>1. CASE ActiveContracts = {}
      <4> DEFINE new == [active |-> TRUE, complete |-> TRUE, object |-> TRUE,
                         nth |-> NextNth(contracts)]
      <4>1. contracts' = Append(contracts, new)
        BY <1>1, <3>1 DEF Apply, WithContract
      <4>2. new \in ContractRows /\ new.active
        BY FreeNumber DEF ContractRows
      <4> HIDE DEF new
      <4>3. contracts'[Len(contracts) + 1] = new /\ Len(contracts') = Len(contracts) + 1
            /\ contracts' \in Seq(ContractRows)
        BY <4>1, <4>2, AppendProperties
      <4>4. Len(contracts) + 1 \in DOMAIN contracts'
        BY <4>3, LenProperties
      <4>5. QED
        BY <4>2, <4>3, <4>4 DEF ActiveContracts
    <3>2. CASE ActiveContracts /= {}
      BY <1>1, <3>2 DEF Apply, WithContract, ActiveContracts
    <3>3. QED
      BY <3>1, <3>2
  <2>4. QED
    BY <2>1, <2>2, <2>3 DEF BootstrapLeft
<1>2. CASE ~applied'
  BY <1>2 DEF BootstrapLeft
<1>3. CASE UNCHANGED registryVars
  BY <1>3 DEF registryVars, BootstrapLeft, ActiveVersions, ActiveContracts
<1>4. QED
  BY <1>1, <1>2, <1>3 DEF RegistryNext, ReleaseVersion, ReleaseContract, Retire, RetireContract,
    BindCompany, Disable, Replay, Edit

\* What a bootstrap leaves, for any number of rows and changes.
THEOREM BootstrapInvariant == RegistrySpec => [](RegistryRows /\ BootstrapLeft)
<1>1. RegistryInit => RegistryRows /\ BootstrapLeft
  <2> SUFFICES ASSUME RegistryInit PROVE RegistryRows
    BY DEF RegistryInit, BootstrapLeft
  <2>1. CASE Empty
    BY <2>1, EmptySeq DEF Empty, RegistryRows
  <2>2. CASE Seeded
    <3> DEFINE first == [active |-> TRUE, sound |-> TRUE, nth |-> 1]
               bound == [scope |-> "global", version |-> 1, priority |-> NormalPriority]
               schema == [active |-> TRUE, complete |-> TRUE, object |-> TRUE, nth |-> 1]
    <3>1. versions = <<first>> /\ bindings = <<bound>> /\ contracts = <<schema>>
      BY <2>2 DEF Seeded
    <3>2. first \in VersionRows /\ bound \in BindingRows /\ schema \in ContractRows
      BY DEF VersionRows, BindingRows, ContractRows
    <3> HIDE DEF first, bound, schema
    <3>3. QED
      BY <3>1, <3>2 DEF RegistryRows
  <2>3. QED
    BY <2>1, <2>2 DEF RegistryInit
<1>2. RegistryRows /\ BootstrapLeft /\ [RegistryNext]_registryVars => (RegistryRows /\ BootstrapLeft)'
  BY RowsStep, BootstrapStep
<1>3. QED
  BY <1>1, <1>2, PTL DEF RegistrySpec

\* After a bootstrap a dry run plans nothing, as the bootstrap's test asserts, wherever no
\* version was retired by hand.
THEOREM BootstrapHealsAtOnce == RegistrySpec => []HealsUnlessRetired
<1>1. RegistryRows /\ BootstrapLeft /\ NewestIsBound => HealsUnlessRetired
  <2> SUFFICES ASSUME RegistryRows, BootstrapLeft, NewestIsBound, applied, ~retired
               PROVE  Planned = {}
    BY DEF HealsUnlessRetired
  <2>1. /\ ActiveVersions /= {} /\ ActiveContracts /= {}
        /\ audience /= "none" /\ phrases /\ template /= "none"
    BY DEF BootstrapLeft
  <2>2. Latest = Len(versions) /\ Latest /= NoVersion
    BY <2>1, LatestIsLast, LatestIsActive DEF RegistryRows, NewestIsBound
  <2>3. BoundTo(Latest) /= {}
    BY <2>2 DEF NewestIsBound, BoundTo, NoVersion
  <2>4. LooksBound
    BY <2>2, <2>3 DEF LooksBound
  <2>5. QED
    BY <2>1, <2>2, <2>4 DEF Planned, Issue
<1>2. QED
  BY <1>1, BootstrapInvariant, RegistryInvariant, PTL

\* Whatever was retired by hand, the second of two bootstraps leaves nothing to plan: the
\* first one has added the version that the second one binds.
THEOREM BootstrapHealsInTwo == RegistrySpec => HealsInTwo
<1>1. RegistryRows /\ BootstrapLeft /\ [RegistryNext]_registryVars
        => [applied /\ applied' => Planned' = {}]_registryVars
  <2> SUFFICES ASSUME RegistryRows, BootstrapLeft, RegistryNext, applied, applied'
               PROVE  Planned' = {}
    OBVIOUS
  <2>1. Apply
    BY DEF RegistryNext, ReleaseVersion, ReleaseContract, Retire, RetireContract,
      BindCompany, Disable, Replay, Edit
  <2>2. /\ ActiveVersions /= {} /\ ActiveContracts /= {}
        /\ audience /= "none" /\ phrases /\ template /= "none"
    BY DEF BootstrapLeft
  <2>3. Latest /= NoVersion
    BY <2>2, LatestIsActive DEF RegistryRows
  <2>4. versions' = versions /\ bindings' = WithBinding /\ contracts' = contracts
    BY <2>1, <2>2, <2>3 DEF Apply, WithVersion, WithContract
  <2>5. Latest' = Latest /\ ActiveContracts' = ActiveContracts
    BY <2>4 DEF Latest, ActiveVersions, ActiveContracts
  <2>6. BoundTo(Latest)' /= {}
    <3>1. BindsTo = Latest
      BY <2>3 DEF BindsTo
    <3>2. CASE BoundTo(Latest) /= {}
      <4>1. bindings' = bindings
        BY <2>4, <3>1, <3>2 DEF WithBinding
      <4>2. QED
        BY <2>5, <3>2, <4>1 DEF BoundTo, Bound
    <3>3. CASE BoundTo(Latest) = {}
      <4> DEFINE new == [scope |-> "global", version |-> Latest, priority |-> NormalPriority]
                 m == Len(bindings) + 1
      <4>1. bindings' = Append(bindings, new)
        BY <2>4, <3>1, <3>3 DEF WithBinding
      <4>2. new.scope = "global" /\ new.version = Latest
        OBVIOUS
      <4>3. new \in BindingRows
        <5>1. Latest \in Nat
          BY <2>2, LatestIsActive, LenProperties DEF RegistryRows, ActiveVersions
        <5>2. QED
          BY <5>1 DEF BindingRows
      <4> HIDE DEF new
      <4>4. bindings'[m] = new /\ Len(bindings') = m /\ bindings' \in Seq(BindingRows)
        BY <4>1, <4>3, AppendProperties DEF RegistryRows
      <4>5. m \in DOMAIN bindings'
        BY <4>4, LenProperties
      <4>6. QED
        BY <2>5, <4>2, <4>4, <4>5 DEF BoundTo, Bound
    <3>4. QED
      BY <3>2, <3>3
  <2>7. LooksBound'
    BY <2>3, <2>5, <2>6 DEF LooksBound
  <2>8. audience' /= "none" /\ phrases' /\ template' /= "none"
    BY <2>1 DEF Apply
  <2>9. QED
    BY <2>2, <2>3, <2>5, <2>7, <2>8 DEF Planned, Issue
<1>2. QED
  BY <1>1, BootstrapInvariant, PTL DEF RegistrySpec, HealsInTwo
=============================================================================
