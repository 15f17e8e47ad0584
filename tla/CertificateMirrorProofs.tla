----------------------- MODULE CertificateMirrorProofs -----------------------
(***************************************************************************)
(* Proofs about the rules and about CertificateMirror, which applies them. *)
(* First DocumentStatus and AdapterCodec on every input, down to what      *)
(* StatusRules states.  Then CertificateMirror, for any number of actors,  *)
(* officers, requests, failures and any bounds: the lifecycle (Inv, down to*)
(* Refinement), then reviews, outbox rows and file (RInv).                 *)
(***************************************************************************)
EXTENDS CertificateMirror, StatusRules, FiniteSetTheorems, SequenceTheorems, TLAPS

(***************************************************************************)
(* The pure rules.                                                         *)
(***************************************************************************)

\* composeStatus yields one of the nine statuses whatever it is given.
LEMMA ComposeType ==
  ASSUME NEW l, NEW d
  PROVE  ComposeStatus(l, d) \in DocStatuses
BY DEF ComposeStatus, DocStatuses, ReviewDecisions, NormalizeLifecycle

\* A status that stands for a terminal lifecycle is composed from it alone.
LEMMA ComposeTerminal ==
  ASSUME NEW l \in Lifecycles \cup {"Absent"}, NEW d,
         NEW k \in {"Issued", "Revoked", "Expired"},
         ComposeStatus(l, d) = ComposeStatus(k, "none")
  PROVE  l = k
BY DEF ComposeStatus, ReviewDecisions, NormalizeLifecycle, NormalizeDecision, Lifecycles

\* The overall score is the score of an entry, or null.
LEMMA ScoreType ==
  ASSUME NEW revs \in Seq(Entry)
  PROVE  OverallComplianceScore(revs) \in 0..100 \cup {NoScore}
<1>1. CASE LatestPositions(revs) = {}
  BY <1>1 DEF OverallComplianceScore
<1>2. CASE LatestPositions(revs) # {}
  <2> DEFINE i == CHOOSE i \in LatestPositions(revs) : TRUE
  <2>1. i \in LatestPositions(revs)
    BY <1>2
  <2>2. i \in 1..Len(revs)
    BY <2>1 DEF LatestPositions
  <2>3. revs[i] \in Entry
    BY <2>2
  <2>4. revs[i].score \in 0..100
    BY <2>3 DEF Entry
  <2> QED
    BY <1>2, <2>4 DEF OverallComplianceScore
<1> QED
  BY <1>1, <1>2

\* Induction over an interval, for a set.
LEMMA IntervalInduction ==
  ASSUME NEW L \in Nat, NEW A, 0 \in A,
         \A n \in 0..(L - 1) : n \in A => n + 1 \in A
  PROVE  0..L \subseteq A
<1> SUFFICES ASSUME ~(0..L \subseteq A) PROVE FALSE
  OBVIOUS
<1> DEFINE Prefixes == {0..n : n \in (0..L) \ A}
<1>1. Prefixes \subseteq FiniteSubsetsOf(0..L) /\ Prefixes # {}
  <2>1. Prefixes \subseteq SUBSET (0..L) /\ Prefixes # {}
    OBVIOUS
  <2>2. IsFiniteSet(0..L)
    BY FS_Interval
  <2> QED
    BY <2>1, <2>2, FS_FiniteSubsetsOfFinite
<1>2. IsWellFoundedOn(StrictSubsetOrdering(0..L), FiniteSubsetsOf(0..L))
  BY FS_StrictSubsetOrderingWellFounded
<1>3. PICK m \in Prefixes : \A p \in Prefixes : <<p, m>> \notin StrictSubsetOrdering(0..L)
  <2> HIDE DEF Prefixes
  <2> QED
    BY <1>1, <1>2, WFMin
<1>4. PICK n \in (0..L) \ A : m = 0..n
  BY <1>3
<1>5. n # 0 /\ n - 1 \in (0..L) \ A
  BY <1>4
<1>6. 0..(n - 1) \in Prefixes
  BY <1>5
<1>7. <<0..(n - 1), m>> \in StrictSubsetOrdering(0..L)
  <2>1. n \in 0..n /\ n \notin 0..(n - 1)
    BY <1>4, <1>5
  <2>2. 0..(n - 1) \subseteq 0..n /\ 0..n \subseteq 0..L
    BY <1>4
  <2>3. 0..(n - 1) # 0..n
    BY <2>1
  <2> QED
    BY <1>4, <2>2, <2>3 DEF StrictSubsetOrdering
<1> QED
  BY <1>3, <1>6, <1>7

\* A reduce over positions is well defined: whatever relation R says which position
\* gives way to which.
LEMMA ReduceExists ==
  ASSUME NEW L \in Nat, NEW R
  PROVE  \E kept \in [0..L -> 0..L] : kept = [n \in 0..L |->
            IF n = 0 THEN 0 ELSE IF kept[n - 1] = 0 \/ <<kept[n - 1], n>> \in R
                                 THEN n ELSE kept[n - 1]]
<1> DEFINE Next1(k, n) == IF k = 0 \/ <<k, n>> \in R THEN n ELSE k
           Right(f, m) == f[0] = 0 /\ \A n \in 1..m : f[n] = Next1(f[n - 1], n)
           A == {m \in 0..L : \E f \in [0..L -> 0..L] : Right(f, m)}
<1>1. 0 \in A
  <2> DEFINE f == [n \in 0..L |-> 0]
  <2>1. f \in [0..L -> 0..L] /\ f[0] = 0 /\ 1..0 = {}
    OBVIOUS
  <2>2. Right(f, 0)
    BY <2>1
  <2> HIDE DEF f, Right
  <2> QED
    BY <2>1, <2>2
<1>2. ASSUME NEW m \in 0..(L - 1), m \in A PROVE m + 1 \in A
  <2>1. PICK f \in [0..L -> 0..L] : Right(f, m)
    BY <1>2
  <2>2. PICK k \in 0..L : k = Next1(f[m], m + 1)
    OBVIOUS
  <2> DEFINE g == [f EXCEPT ![m + 1] = k]
  <2>3. g \in [0..L -> 0..L] /\ g[m + 1] = k /\ \A n \in 0..m : g[n] = f[n]
    OBVIOUS
  <2>4. g[0] = 0
    BY <2>1, <2>3
  <2> HIDE DEF g
  <2>5. ASSUME NEW n \in 1..(m + 1) PROVE g[n] = Next1(g[n - 1], n)
    <3>1. CASE n = m + 1
      <4>1. n - 1 = m /\ m \in 0..m
        BY <3>1
      <4> QED
        BY <3>1, <4>1, <2>2, <2>3
    <3>2. CASE n \in 1..m
      <4>1. n \in 0..m /\ n - 1 \in 0..m /\ f[n] = Next1(f[n - 1], n)
        BY <3>2, <2>1
      <4>2. g[n] = f[n] /\ g[n - 1] = f[n - 1]
        BY <4>1, <2>3
      <4> HIDE DEF Next1
      <4> QED
        BY <4>1, <4>2
    <3> QED BY <3>1, <3>2
  <2>6. Right(g, m + 1)
    BY <2>4, <2>5
  <2>7. \E h \in [0..L -> 0..L] : Right(h, m + 1)
    <3> HIDE DEF Right
    <3> QED
      BY <2>3, <2>6
  <2>8. m + 1 \in 0..L
    OBVIOUS
  <2> QED
    BY <2>7, <2>8
<1>3. L \in A
  <2> HIDE DEF A
  <2>1. 0..L \subseteq A
    BY <1>1, <1>2, IntervalInduction
  <2> QED BY <2>1
<1>4. PICK f \in [0..L -> 0..L] : Right(f, L)
  BY <1>3
<1>5. ASSUME NEW n \in 0..L PROVE f[n] = IF n = 0 THEN 0 ELSE Next1(f[n - 1], n)
  <2>1. CASE n = 0
    BY <2>1, <1>4
  <2>2. CASE n \in 1..L
    <3>1. f[n] = Next1(f[n - 1], n)
      BY <2>2, <1>4
    <3> HIDE DEF Next1
    <3> QED
      BY <2>2, <3>1
  <2> QED
    BY <2>1, <2>2
<1>6. f = [n \in 0..L |-> IF n = 0 THEN 0 ELSE Next1(f[n - 1], n)]
  <2> HIDE DEF Next1
  <2> QED
    BY <1>5
<1> QED
  BY <1>6

\* kept[n] is what a reduce keeps of the first n positions.
Keeps(kept, L, R) ==
  /\ kept \in [0..L -> 0..L]
  /\ kept[0] = 0
  /\ \A n \in 1..L :
       kept[n] = IF kept[n - 1] = 0 \/ <<kept[n - 1], n>> \in R THEN n ELSE kept[n - 1]

\* What a reduce keeps at the end, by way of what it keeps on the way.
LEMMA LastKeptSteps ==
  ASSUME NEW L \in Nat, NEW R
  PROVE  \E kept : Keeps(kept, L, R) /\ LastKept(L, R) = kept[L]
<1> DEFINE Def(f) == [n \in 0..L |-> IF n = 0 THEN 0
                        ELSE IF f[n - 1] = 0 \/ <<f[n - 1], n>> \in R THEN n ELSE f[n - 1]]
           kept == CHOOSE f : f = Def(f)
<1>1. PICK g \in [0..L -> 0..L] : g = Def(g)
  BY ReduceExists
<1>2. kept = Def(kept)
  <2> HIDE DEF Def
  <2> QED
    BY <1>1
<1>3. LastKept(L, R) = kept[L]
  BY DEF LastKept
<1> HIDE DEF kept
<1>4. \A n \in 0..L : kept[n] =
         IF n = 0 THEN 0
         ELSE IF kept[n - 1] = 0 \/ <<kept[n - 1], n>> \in R THEN n ELSE kept[n - 1]
  <2>1. \A n \in 0..L : Def(kept)[n] =
         IF n = 0 THEN 0
         ELSE IF kept[n - 1] = 0 \/ <<kept[n - 1], n>> \in R THEN n ELSE kept[n - 1]
    OBVIOUS
  <2> HIDE DEF Def
  <2> QED
    BY <1>2, <2>1
<1>5. kept[0] = 0
  <2>1. 0 \in 0..L
    OBVIOUS
  <2> QED
    BY <1>4, <2>1, Zenon
<1>6. \A n \in 1..L :
         kept[n] = IF kept[n - 1] = 0 \/ <<kept[n - 1], n>> \in R THEN n ELSE kept[n - 1]
  <2>1. \A n \in 1..L : n \in 0..L /\ n # 0
    OBVIOUS
  <2> QED
    BY <1>4, <2>1, Zenon
<1>7. \A n \in 0..L : kept[n] \in 0..L
  <2> DEFINE A == {n \in 0..L : kept[n] \in 0..L}
  <2>1. 0 \in A
    BY <1>5
  <2>2. ASSUME NEW n \in 0..(L - 1), n \in A PROVE n + 1 \in A
    <3>1. n + 1 \in 1..L /\ (n + 1) - 1 = n
      OBVIOUS
    <3>2. kept[n + 1] \in {n + 1, kept[n]}
      BY <1>6, <3>1
    <3>3. kept[n] \in 0..L
      BY <2>2
    <3>4. kept[n + 1] \in 0..L
      <4>1. n + 1 \in 0..L
        OBVIOUS
      <4> HIDE DEF A, Def
      <4> QED
        BY <4>1, <3>2, <3>3
    <3> QED
      BY <3>1, <3>4
  <2>3. 0..L \subseteq A
    <3> HIDE DEF A
    <3> QED BY <2>1, <2>2, IntervalInduction
  <2> QED
    BY <2>3
<1>8. kept = [n \in 0..L |-> kept[n]]
  <2>1. Def(kept) = [n \in 0..L |-> Def(kept)[n]]
    OBVIOUS
  <2> HIDE DEF Def
  <2> QED
    BY <1>2, <2>1
<1>9. kept \in [0..L -> 0..L]
  BY <1>7, <1>8
<1> QED
  BY <1>3, <1>5, <1>6, <1>9 DEF Keeps

\* Reviews by whoever is named, with any dates.
ReviewBy(Names) == [by : Names, decision : ReviewDecisions, score : 0..100, date : Nat]

\* The declarative latest review is the one that the reduce of latestReview keeps, for
\* every array: whatever its length and its dates, repeated or out of order.
THEOREM ReducedIsLatest ==
  ASSUME NEW Names, NEW revs \in Seq(ReviewBy(Names))
  PROVE  IF revs = <<>> THEN Reduced(revs) = 0 /\ LatestPositions(revs) = {}
         ELSE Reduced(revs) \in DOMAIN revs /\ LatestPositions(revs) = {Reduced(revs)}
<1> DEFINE L == Len(revs)
           R == {p \in (1..Len(revs)) \X (1..Len(revs)) :
                   revs[p[2]].date >= revs[p[1]].date}
           Date(i) == revs[i].date
           Beats(i, j) == Date(j) < Date(i) \/ (Date(j) = Date(i) /\ j <= i)
<1>1. L \in Nat /\ DOMAIN revs = 1..L
  OBVIOUS
<1>2. \A i \in 1..L : Date(i) \in Nat
  <2> SUFFICES ASSUME NEW i \in 1..L PROVE Date(i) \in Nat
    OBVIOUS
  <2>1. revs[i] \in ReviewBy(Names)
    OBVIOUS
  <2> QED
    BY <2>1 DEF ReviewBy
<1>3. PICK kept : Keeps(kept, L, R) /\ LastKept(L, R) = kept[L]
  <2> HIDE DEF R, L
  <2> QED
    BY <1>1, LastKeptSteps
<1>4. \A k, n \in 1..L : <<k, n>> \in R <=> Date(n) >= Date(k)
  OBVIOUS
<1>5. Reduced(revs) = kept[L]
  BY <1>3 DEF Reduced
<1> HIDE DEF L, R, Date
<1> DEFINE A == {n \in 0..L : n = 0 \/ (kept[n] \in 1..n /\ \A j \in 1..n : Beats(kept[n], j))}
<1>6. 0 \in A
  BY <1>1
<1>7. ASSUME NEW n \in 0..(L - 1), n \in A PROVE n + 1 \in A
  <2>1. n + 1 \in 1..L /\ (n + 1) - 1 = n /\ n + 1 \in 0..L
    BY <1>1
  <2>2. kept[n + 1] = IF kept[n] = 0 \/ <<kept[n], n + 1>> \in R THEN n + 1 ELSE kept[n]
    BY <1>3, <2>1 DEF Keeps
  <2>3. CASE n = 0
    <3>1. kept[n + 1] = 1
      BY <1>3, <2>2, <2>3 DEF Keeps
    <3>2. Date(1) \in Nat
      BY <2>1, <2>3, <1>2
    <3>3. Beats(1, 1)
      BY <3>2
    <3> HIDE DEF Beats
    <3>4. \A j \in 1..(n + 1) : j = 1
      BY <2>3
    <3> QED
      BY <2>1, <2>3, <3>1, <3>3, <3>4
  <2>4. CASE n # 0
    <3>1. kept[n] \in 1..n /\ \A j \in 1..n : Beats(kept[n], j)
      BY <1>7, <2>4
    <3>2. kept[n] \in 1..L /\ 1..n \subseteq 1..L
      BY <3>1, <1>1
    <3>3. CASE Date(n + 1) >= Date(kept[n])
      <4>1. kept[n + 1] = n + 1
        BY <2>1, <2>2, <3>2, <3>3, <1>4
      <4>2. \A j \in 1..(n + 1) : Beats(n + 1, j)
        BY <3>1, <3>2, <3>3, <2>1, <1>2
      <4> QED
        BY <2>1, <4>1, <4>2
    <3>4. CASE ~(Date(n + 1) >= Date(kept[n]))
      <4>1. kept[n + 1] = kept[n]
        BY <2>1, <2>2, <3>1, <3>2, <3>4, <1>4
      <4>2. \A j \in 1..(n + 1) : Beats(kept[n], j)
        BY <3>1, <3>2, <3>4, <2>1, <1>2
      <4>3. kept[n] \in 1..(n + 1)
        BY <3>1
      <4> QED
        BY <2>1, <4>1, <4>2, <4>3
    <3> QED
      BY <3>3, <3>4
  <2> QED
    BY <2>3, <2>4
<1>8. L \in A
  <2> HIDE DEF A
  <2>1. 0..L \subseteq A
    BY <1>1, <1>6, <1>7, IntervalInduction
  <2> QED
    BY <1>1, <2>1
<1>0. L = 0 <=> revs = <<>>
  BY DEF L
<1>9. CASE L = 0
  <2>1. LatestPositions(revs) = {}
    BY <1>1, <1>9 DEF LatestPositions
  <2> QED
    BY <1>0, <1>3, <1>5, <1>9, <2>1 DEF Keeps
<1>10. CASE L # 0
  <2>1. kept[L] \in 1..L /\ \A j \in 1..L : Beats(kept[L], j)
    BY <1>8, <1>10
  <2>2. kept[L] \in LatestPositions(revs)
    BY <2>1, <1>1 DEF LatestPositions, Date
  <2>3. ASSUME NEW k \in LatestPositions(revs) PROVE k = kept[L]
    <3>1. k \in 1..L /\ Beats(k, kept[L])
      BY <2>1, <1>1 DEF LatestPositions, Date
    <3> QED
      BY <2>1, <3>1, <1>2
  <2> QED
    BY <1>0, <1>1, <1>5, <1>10, <2>1, <2>2, <2>3
<1> QED
  BY <1>9, <1>10

\* The review status of a DocItem is the decision of an entry of the newest date.
THEOREM ShownIsNewest ==
  ASSUME NEW Names, NEW revs \in Seq(ReviewBy(Names)), revs # <<>>
  PROVE  \E i \in DOMAIN revs :
            /\ ShownDecision(revs) = revs[i].decision
            /\ \A j \in DOMAIN revs : revs[j].date <= revs[i].date
<1> DEFINE L == Len(revs)
           R == {p \in (1..Len(revs)) \X (1..Len(revs)) :
                   revs[p[2]].date > revs[p[1]].date}
           Date(i) == revs[i].date
<1>1. L \in Nat /\ DOMAIN revs = 1..L /\ L # 0
  OBVIOUS
<1>2. \A i \in 1..L : Date(i) \in Nat
  <2> SUFFICES ASSUME NEW i \in 1..L PROVE Date(i) \in Nat
    OBVIOUS
  <2>1. revs[i] \in ReviewBy(Names)
    OBVIOUS
  <2> QED
    BY <2>1 DEF ReviewBy
<1>3. PICK kept : Keeps(kept, L, R) /\ LastKept(L, R) = kept[L]
  <2> HIDE DEF R, L
  <2> QED
    BY <1>1, LastKeptSteps
<1>4. \A k, n \in 1..L : <<k, n>> \in R <=> Date(n) > Date(k)
  OBVIOUS
<1>5. ShownDecision(revs) = revs[kept[L]].decision
  BY <1>3 DEF ShownDecision
<1> HIDE DEF L, R, Date
<1> DEFINE A == {n \in 0..L :
                   n = 0 \/ (kept[n] \in 1..n /\ \A j \in 1..n : Date(j) <= Date(kept[n]))}
<1>6. 0 \in A
  BY <1>1
<1>7. ASSUME NEW n \in 0..(L - 1), n \in A PROVE n + 1 \in A
  <2>1. n + 1 \in 1..L /\ (n + 1) - 1 = n /\ n + 1 \in 0..L
    BY <1>1
  <2>2. kept[n + 1] = IF kept[n] = 0 \/ <<kept[n], n + 1>> \in R THEN n + 1 ELSE kept[n]
    BY <1>3, <2>1 DEF Keeps
  <2>3. CASE n = 0
    <3>1. kept[n + 1] = 1
      BY <1>3, <2>2, <2>3 DEF Keeps
    <3>2. Date(1) \in Nat
      BY <2>1, <2>3, <1>2
    <3>3. Date(1) <= Date(1)
      BY <3>2
    <3>4. \A j \in 1..(n + 1) : j = 1
      BY <2>3
    <3> QED
      BY <2>1, <2>3, <3>1, <3>3, <3>4
  <2>4. CASE n # 0
    <3>1. kept[n] \in 1..n /\ \A j \in 1..n : Date(j) <= Date(kept[n])
      BY <1>7, <2>4
    <3>2. kept[n] \in 1..L /\ 1..n \subseteq 1..L
      BY <3>1, <1>1
    <3>3. CASE Date(n + 1) > Date(kept[n])
      <4>1. kept[n + 1] = n + 1
        BY <2>1, <2>2, <3>2, <3>3, <1>4
      <4>2. \A j \in 1..(n + 1) : Date(j) <= Date(n + 1)
        BY <3>1, <3>2, <3>3, <2>1, <1>2
      <4> QED
        BY <2>1, <4>1, <4>2
    <3>4. CASE ~(Date(n + 1) > Date(kept[n]))
      <4>1. kept[n + 1] = kept[n]
        BY <2>1, <2>2, <3>1, <3>2, <3>4, <1>4
      <4>2. \A j \in 1..(n + 1) : Date(j) <= Date(kept[n])
        BY <3>1, <3>2, <3>4, <2>1, <1>2
      <4>3. kept[n] \in 1..(n + 1)
        BY <3>1
      <4> QED
        BY <2>1, <4>1, <4>2, <4>3
    <3> QED
      BY <3>3, <3>4
  <2> QED
    BY <2>3, <2>4
<1>8. L \in A
  <2> HIDE DEF A
  <2>1. 0..L \subseteq A
    BY <1>1, <1>6, <1>7, IntervalInduction
  <2> QED
    BY <1>1, <2>1
<1>9. kept[L] \in 1..L /\ \A j \in 1..L : Date(j) <= Date(kept[L])
  BY <1>1, <1>8
<1> QED
  BY <1>1, <1>5, <1>9 DEF Date

\* The composed status and the overall score come from one and the same entry, and
\* no entry is newer: what clients see beside each other belongs together.
THEOREM LatestIsNewest ==
  ASSUME NEW Names, NEW revs \in Seq(ReviewBy(Names)), revs # <<>>
  PROVE  \E i \in DOMAIN revs :
            /\ LatestDecision(revs) = revs[i].decision
            /\ OverallComplianceScore(revs) = revs[i].score
            /\ \A j \in DOMAIN revs : revs[j].date <= revs[i].date
<1>1. PICK i \in DOMAIN revs : LatestPositions(revs) = {i}
  BY ReducedIsLatest
<1>2. (CHOOSE k \in LatestPositions(revs) : TRUE) = i
  BY <1>1
<1>3. LatestDecision(revs) = revs[i].decision
  BY <1>1, <1>2 DEF LatestDecision
<1>4. OverallComplianceScore(revs) = revs[i].score
  BY <1>1, <1>2 DEF OverallComplianceScore
<1>5. \A j \in DOMAIN revs : revs[j] \in ReviewBy(Names)
  OBVIOUS
<1>6. \A j \in DOMAIN revs : revs[j].date \in Nat
  BY <1>5 DEF ReviewBy
<1>7. \A j \in DOMAIN revs : revs[j].date <= revs[i].date
  BY <1>1, <1>6 DEF LatestPositions
<1> QED
  BY <1>3, <1>4, <1>7

\* Spelling does not matter (statusMap.js): a decision translated to the contract's name
\* and back is the same, passes the same gate and composes to the same status.
THEOREM SpellingIsLossless ==
  ASSUME NEW d \in ReviewDecisions \cup {"none"}, NEW l \in Lifecycles
  PROVE  /\ NormalizeDecision(DecisionToContract(d)) = d
         /\ IsIssuable(DecisionToContract(d)) = IsIssuable(d)
         /\ ComposeStatus(l, DecisionToContract(d)) = ComposeStatus(l, d)
<1>1. NormalizeDecision(DecisionToContract(d)) = d
  BY DEF NormalizeDecision, DecisionToContract, ReviewDecisions
<1>2. NormalizeDecision(d) = d
  BY DEF NormalizeDecision, ReviewDecisions
<1>3. IsIssuable(DecisionToContract(d)) = IsIssuable(d)
  BY <1>1, <1>2 DEF IsIssuable
<1>4. ComposeStatus(l, DecisionToContract(d)) = ComposeStatus(l, d)
  BY <1>1, <1>2 DEF ComposeStatus
<1> QED
  BY <1>1, <1>3, <1>4

\* The status clients see and the gate of issueDocument, two functions, agree on every
\* input: a submitted document shows an approval exactly when it may be issued.
THEOREM ShownIsIssuable ==
  ASSUME NEW d
  PROVE  ComposeStatus("Submitted", d) \in {"approved", "approved_with_recommendations"}
           <=> IsIssuable(d)
BY DEF ComposeStatus, IsIssuable, NormalizeDecision, NormalizeLifecycle, ReviewDecisions

\* The decision that counts is one of the four, or null.
LEMMA CountsInRange ==
  ASSUME NEW Names, NEW revs \in Seq(ReviewBy(Names))
  PROVE  LatestDecision(revs) \in ReviewDecisions \cup {"none"}
<1>1. CASE revs = <<>>
  BY <1>1, ReducedIsLatest DEF LatestDecision
<1>2. CASE revs # <<>>
  <2>1. PICK i \in DOMAIN revs : LatestDecision(revs) = revs[i].decision
    BY <1>2, LatestIsNewest
  <2>2. revs[i] \in ReviewBy(Names)
    OBVIOUS
  <2> QED
    BY <2>1, <2>2 DEF ReviewBy
<1> QED
  BY <1>1, <1>2

-----------------------------------------------------------------------------
(***************************************************************************)
(* The properties of StatusRules, for any authors, dates and scores.  They *)
(* follow from the types of the reviews and the lifecycle alone.           *)
(***************************************************************************)
RulesTypeOK == reviews \in Seq(GivenEntry) /\ lifecycle \in Lifecycles

\* The array stays an array of entries, whatever is replaced in it or pushed.
LEMMA RulesTyped == RulesSpec => []RulesTypeOK
<1>1. RulesInit => RulesTypeOK
  BY DEF RulesInit, RulesTypeOK, Lifecycles
<1>2. RulesTypeOK /\ [RulesNext]_rulesVars => RulesTypeOK'
  <2> SUFFICES ASSUME RulesTypeOK, [RulesNext]_rulesVars PROVE RulesTypeOK'
    OBVIOUS
  <2>1. ASSUME NEW e \in GivenEntry, Put(e) PROVE RulesTypeOK'
    <3>1. CASE \E i \in DOMAIN reviews : reviews[i].by = e.by
      <4>1. reviews' = [i \in DOMAIN reviews |->
                          IF reviews[i].by = e.by THEN e ELSE reviews[i]]
        BY <2>1, <3>1 DEF Put
      <4>2. reviews' \in Seq(GivenEntry)
        BY <4>1 DEF RulesTypeOK
      <4> QED
        BY <2>1, <4>2 DEF Put, RulesTypeOK
    <3>2. CASE ~\E i \in DOMAIN reviews : reviews[i].by = e.by
      BY <2>1, <3>2 DEF Put, RulesTypeOK
    <3> QED
      BY <3>1, <3>2
  <2>2. CASE Move
    BY <2>2 DEF Move, RulesTypeOK
  <2>3. CASE UNCHANGED rulesVars
    BY <2>3 DEF rulesVars, RulesTypeOK
  <2> QED
    BY <2>1, <2>2, <2>3 DEF RulesNext
<1> QED
  BY <1>1, <1>2, PTL DEF RulesSpec

\* The reviews the rules are given are by the authors.
LEMMA GivenReviews ==
  ASSUME RulesTypeOK
  PROVE  reviews \in Seq(ReviewBy(Authors))
<1>1. GivenEntry \subseteq ReviewBy(Authors)
  BY InputsAssumption DEF GivenEntry, ReviewBy
<1> QED
  BY <1>1 DEF RulesTypeOK

\* The declarative latest review is the one the reduce keeps.
LEMMA ReduceAgrees ==
  ASSUME RulesTypeOK
  PROVE  LatestIsReduce
<1>1. reviews \in Seq(ReviewBy(Authors))
  BY GivenReviews
<1>2. CASE reviews = <<>>
  <2>1. Reduced(reviews) = 0 /\ LatestPositions(reviews) = {}
    BY <1>1, <1>2, ReducedIsLatest
  <2> QED
    BY <2>1 DEF LatestDecision, OverallComplianceScore, LatestIsReduce
<1>3. CASE reviews # <<>>
  <2>1. Reduced(reviews) \in DOMAIN reviews /\ LatestPositions(reviews) = {Reduced(reviews)}
    BY <1>1, <1>3, ReducedIsLatest
  <2>2. Reduced(reviews) # 0
    BY <1>1, <2>1
  <2>3. (CHOOSE k \in LatestPositions(reviews) : TRUE) = Reduced(reviews)
    BY <2>1
  <2>4. /\ LatestDecision(reviews) = reviews[Reduced(reviews)].decision
        /\ OverallComplianceScore(reviews) = reviews[Reduced(reviews)].score
    BY <2>1, <2>3 DEF LatestDecision, OverallComplianceScore
  <2> QED
    BY <2>2, <2>4 DEF LatestIsReduce
<1> QED
  BY <1>2, <1>3

\* The status shown, the gate and (one review being the newest) the review status shown
\* agree.
LEMMA GateAgrees ==
  ASSUME RulesTypeOK
  PROVE  GateMatchesStatus
<1> DEFINE approving == {"approved", "approved_with_recommendations"}
<1>1. reviews \in Seq(ReviewBy(Authors))
  BY GivenReviews
<1>2. ComposeStatus("Submitted", LatestDecision(reviews)) \in approving
        <=> IsIssuable(LatestDecision(reviews))
  BY ShownIsIssuable
<1>3. ASSUME \A i, j \in Newest : i = j
      PROVE  ShownDecision(reviews) \in approving <=> IsIssuable(LatestDecision(reviews))
  <2>1. CASE reviews = <<>>
    <3>1. ShownDecision(reviews) = "none"
      BY <2>1 DEF ShownDecision
    <3>2. LatestDecision(reviews) = "none"
      BY <2>1, <1>1, ReducedIsLatest DEF LatestDecision
    <3> QED
      BY <3>1, <3>2 DEF IsIssuable, NormalizeDecision, ReviewDecisions
  <2>2. CASE reviews # <<>>
    <3>1. PICK i \in DOMAIN reviews :
             /\ LatestDecision(reviews) = reviews[i].decision
             /\ \A j \in DOMAIN reviews : reviews[j].date <= reviews[i].date
      BY <1>1, <2>2, LatestIsNewest
    <3>2. PICK k \in DOMAIN reviews :
             /\ ShownDecision(reviews) = reviews[k].decision
             /\ \A j \in DOMAIN reviews : reviews[j].date <= reviews[k].date
      BY <1>1, <2>2, ShownIsNewest
    <3>3. i \in Newest /\ k \in Newest
      BY <3>1, <3>2 DEF Newest
    <3>4. ShownDecision(reviews) = LatestDecision(reviews)
      BY <1>3, <3>1, <3>2, <3>3
    <3>5. LatestDecision(reviews) \in ReviewDecisions
      <4>1. reviews[i] \in ReviewBy(Authors)
        BY <1>1, <3>1
      <4> QED
        BY <3>1, <4>1 DEF ReviewBy
    <3> QED
      BY <3>4, <3>5 DEF IsIssuable, NormalizeDecision
  <2> QED
    BY <2>1, <2>2
<1> QED
  BY <1>2, <1>3 DEF GateMatchesStatus

\* Either spelling gives the same decision, gate and status.
LEMMA SpellingAgrees ==
  ASSUME RulesTypeOK
  PROVE  SpellingDoesNotMatter
<1> DEFINE d == LatestDecision(reviews)
<1>1. d \in ReviewDecisions \cup {"none"}
  BY GivenReviews, CountsInRange
<1>2. lifecycle \in Lifecycles
  BY DEF RulesTypeOK
<1>3. NormalizeLifecycle(LowerCase[lifecycle]) = lifecycle
        /\ NormalizeLifecycle(lifecycle) = lifecycle
  BY <1>2 DEF LowerCase, Lifecycles, NormalizeLifecycle
<1>4. /\ NormalizeDecision(DecisionToContract(d)) = d
      /\ IsIssuable(DecisionToContract(d)) = IsIssuable(d)
      /\ ComposeStatus(lifecycle, DecisionToContract(d)) = ComposeStatus(lifecycle, d)
  BY <1>1, <1>2, SpellingIsLossless
<1>5. ComposeStatus(LowerCase[lifecycle], DecisionToContract(d))
         = ComposeStatus(lifecycle, DecisionToContract(d))
  BY <1>3 DEF ComposeStatus
<1> QED
  BY <1>4, <1>5 DEF SpellingDoesNotMatter

\* What fetchValue makes of a scalar.
LEMMA ScalarsRead ==
  ASSUME NEW x
  PROVE  /\ SafeValue(ScValToNative(StringScVal(x))) = String(x)
         /\ SafeValue(ScValToNative(AddressScVal(x))) = String(x)
         /\ SafeValue(ScValToNative(U64ScVal(x))) = String(x)
         /\ SafeValue(ScValToNative(U32ScVal(x))) = Number(x)
         /\ SafeValue(ScValToNative(Flag(x))) = Flag(x)
BY DEF SafeValue, SafeScalar, ScValToNative, ScalarToNative,
       NativeType, StringScVal, AddressScVal, U64ScVal,
       U32ScVal, String, Number, Flag

\* A decimal string becomes its number, and a number stays one.
LEMMA NumbersDecoded ==
  ASSUME NEW x
  PROVE  /\ ToNum(String(x)) = Number(x)
         /\ ToNum(Number(x)) = Number(x)
BY DEF ToNum, String, Number

\* A unit variant becomes its name, and a name stays one.
LEMMA EnumsRead ==
  ASSUME NEW variant
  PROVE  /\ DecodeContractEnum(SafeValue(ScValToNative(
              EnumScVal(variant, <<>>)))) = String(variant)
         /\ DecodeContractEnum(String(variant)) = String(variant)
<1>1. EnumScVal(variant, <<>>) = <<"vec", <<SymbolScVal(variant)>>>>
  BY DEF EnumScVal
<1>2. ScValToNative(EnumScVal(variant, <<>>)) = List(<<String(variant)>>)
  BY <1>1 DEF ScValToNative, ScalarToNative, NativeType, SymbolScVal,
              String, List
<1>3. SafeValue(List(<<String(variant)>>)) = List(<<String(variant)>>)
  BY DEF SafeValue, SafeScalar, String, List
<1>4. DecodeContractEnum(List(<<String(variant)>>)) = String(variant)
  BY DEF DecodeContractEnum, String, List
<1>5. DecodeContractEnum(String(variant)) = String(variant)
  BY DEF DecodeContractEnum, String
<1> QED
  BY <1>2, <1>3, <1>4, <1>5

\* Decoding a document, field by field.
LEMMA DecodedDocument ==
  ASSUME NEW a, NEW b, NEW c, NEW d, NEW r,
         r = [hash |-> a, timestamp |-> b, status |-> c, expiry |-> d]
  PROVE  DecodeDocument(r)
           = [hash |-> a, timestamp |-> ToNum(b),
              status |-> DecodeContractEnum(c), expiry |-> ToNum(d)]
<1> DEFINE r1 == [r EXCEPT !.timestamp = ToNum(b)]
           r2 == [r1 EXCEPT !.status = DecodeContractEnum(c)]
           r3 == [r2 EXCEPT !.expiry = ToNum(d)]
<1>1. r1 = [hash |-> a, timestamp |-> ToNum(b), status |-> c, expiry |-> d]
  OBVIOUS
<1> HIDE DEF r1
<1>2. r2 = [hash |-> a, timestamp |-> ToNum(b),
            status |-> DecodeContractEnum(c), expiry |-> d]
  BY <1>1
<1> HIDE DEF r2
<1>3. r3 = [hash |-> a, timestamp |-> ToNum(b),
            status |-> DecodeContractEnum(c), expiry |-> ToNum(d)]
  BY <1>2
<1> QED
  BY <1>3 DEF DecodeDocument, r1, r2

\* Decoding what verify_document answers, field by field.
LEMMA DecodedVerified ==
  ASSUME NEW a, NEW b, NEW c, NEW d, NEW e, NEW r,
         r = [hash |-> a, timestamp |-> b, verified_document |-> c,
              certificate_status |-> d, expiry |-> e]
  PROVE  DecodeVerifiedDocument(r)
           = [hash |-> a, timestamp |-> ToNum(b),
              verified_document |-> c,
              certificate_status |-> DecodeContractEnum(d), expiry |-> ToNum(e)]
<1> DEFINE r1 == [r EXCEPT !.timestamp = ToNum(b)]
           r2 == [r1 EXCEPT !.certificate_status = DecodeContractEnum(d)]
           r3 == [r2 EXCEPT !.expiry = ToNum(e)]
<1>1. r1 = [hash |-> a, timestamp |-> ToNum(b),
            verified_document |-> c, certificate_status |-> d, expiry |-> e]
  OBVIOUS
<1> HIDE DEF r1
<1>2. r2 = [hash |-> a, timestamp |-> ToNum(b),
            verified_document |-> c,
            certificate_status |-> DecodeContractEnum(d), expiry |-> e]
  BY <1>1
<1> HIDE DEF r2
<1>3. r3 = [hash |-> a, timestamp |-> ToNum(b),
            verified_document |-> c,
            certificate_status |-> DecodeContractEnum(d), expiry |-> ToNum(e)]
  BY <1>2
<1> QED
  BY <1>3 DEF DecodeVerifiedDocument, r1, r2

\* Decoding a review, field by field.
LEMMA DecodedReview ==
  ASSUME NEW a, NEW b, NEW c, NEW d, NEW r,
         r = [reviewer |-> a, status |-> b, score |-> c, timestamp |-> d]
  PROVE  DecodeReview(r)
           = [reviewer |-> a, status |-> DecodeContractEnum(b),
              score |-> ToNum(c), timestamp |-> ToNum(d)]
<1> DEFINE r1 == [r EXCEPT !.status = DecodeContractEnum(b)]
           r2 == [r1 EXCEPT !.score = ToNum(c)]
           r3 == [r2 EXCEPT !.timestamp = ToNum(d)]
<1>1. r1 = [reviewer |-> a, status |-> DecodeContractEnum(b),
            score |-> c, timestamp |-> d]
  OBVIOUS
<1> HIDE DEF r1
<1>2. r2 = [reviewer |-> a, status |-> DecodeContractEnum(b),
            score |-> ToNum(c), timestamp |-> d]
  BY <1>1
<1> HIDE DEF r2
<1>3. r3 = [reviewer |-> a, status |-> DecodeContractEnum(b),
            score |-> ToNum(c), timestamp |-> ToNum(d)]
  BY <1>2
<1> QED
  BY <1>3 DEF DecodeReview, r1, r2

\* Decoding a proposal, field by field.
LEMMA DecodedProposal ==
  ASSUME NEW a, NEW b, NEW c, NEW d, NEW r,
         r = [id |-> a, action |-> b, approvals |-> c, executed |-> d]
  PROVE  DecodeProposal(r)
           = [id |-> ToNum(a), action |-> DecodeProposalAction(b),
              approvals |-> c, executed |-> d]
<1> DEFINE r1 == [r EXCEPT !.id = ToNum(a)]
           r2 == [r1 EXCEPT !.action = DecodeProposalAction(b)]
<1>1. r1 = [id |-> ToNum(a), action |-> b, approvals |-> c, executed |-> d]
  OBVIOUS
<1> HIDE DEF r1
<1>2. r2 = [id |-> ToNum(a), action |-> DecodeProposalAction(b),
            approvals |-> c, executed |-> d]
  BY <1>1
<1> QED
  BY <1>2 DEF DecodeProposal, r1

\* The real adapter's document is the stub's.
LEMMA DocumentsAgree ==
  ASSUME NEW status, NEW expiry, NEW time
  PROVE  LET read == FetchValue(ContractDocument("document", status, expiry, time))
             stub == StubDocument("document", status, expiry, time)
         IN DecodeDocument(read) = stub /\ DecodeDocument(stub) = stub
<1> DEFINE read == FetchValue(ContractDocument("document", status, expiry, time))
           stub == StubDocument("document", status, expiry, time)
           Read(v) == SafeValue(ScValToNative(v))
<1>1. read = [hash |-> Read(StringScVal("document")),
              timestamp |-> Read(U64ScVal(time)),
              status |-> Read(EnumScVal(status, <<>>)),
              expiry |-> Read(U64ScVal(expiry))]
  BY DEF FetchValue, ContractDocument
<1>2. DecodeDocument(read) =
        [hash |-> Read(StringScVal("document")),
         timestamp |-> ToNum(Read(U64ScVal(time))),
         status |-> DecodeContractEnum(Read(EnumScVal(status, <<>>))),
         expiry |-> ToNum(Read(U64ScVal(expiry)))]
  BY <1>1, DecodedDocument
<1>3. DecodeDocument(read) = stub
  BY <1>2, ScalarsRead, NumbersDecoded, EnumsRead DEF StubDocument
<1>4. DecodeDocument(stub) = stub
  BY NumbersDecoded, EnumsRead, DecodedDocument DEF StubDocument
<1> QED
  BY <1>3, <1>4

\* The real adapter's answer to verify_document is the stub's.
LEMMA VerifiedAgree ==
  ASSUME NEW status, NEW expiry, NEW time
  PROVE  LET read == FetchValue(ContractVerified("document", status, expiry, time))
             stub == StubVerified("document", status, expiry, time)
         IN DecodeVerifiedDocument(read) = stub /\ DecodeVerifiedDocument(stub) = stub
<1> DEFINE read == FetchValue(ContractVerified("document", status, expiry, time))
           stub == StubVerified("document", status, expiry, time)
           Read(v) == SafeValue(ScValToNative(v))
<1>1. read = [hash |-> Read(StringScVal("document")),
              timestamp |-> Read(U64ScVal(time)),
              verified_document |-> Read(Flag(status = "Issued")),
              certificate_status |-> Read(EnumScVal(status, <<>>)),
              expiry |-> Read(U64ScVal(expiry))]
  BY DEF FetchValue, ContractVerified
<1>2. DecodeVerifiedDocument(read) = stub
  BY <1>1, DecodedVerified, ScalarsRead, NumbersDecoded, EnumsRead DEF StubVerified
<1>3. DecodeVerifiedDocument(stub) = stub
  BY DecodedVerified, NumbersDecoded, EnumsRead DEF StubVerified
<1> QED
  BY <1>2, <1>3

\* The real adapter's review is the stub's.
LEMMA ReviewsAgree ==
  ASSUME NEW by, NEW status, NEW score, NEW time
  PROVE  LET read == FetchValue(ContractReview(by, status, score, time))
             stub == StubReview(by, status, score, time)
         IN DecodeReview(read) = stub /\ DecodeReview(stub) = stub
<1> DEFINE read == FetchValue(ContractReview(by, status, score, time))
           stub == StubReview(by, status, score, time)
           Read(v) == SafeValue(ScValToNative(v))
<1>1. read = [reviewer |-> Read(AddressScVal(by)),
              status |-> Read(EnumScVal(status, <<>>)),
              score |-> Read(U32ScVal(score)), timestamp |-> Read(U64ScVal(time))]
  BY DEF FetchValue, ContractReview
<1>2. DecodeReview(read) = stub
  BY <1>1, DecodedReview, ScalarsRead, NumbersDecoded, EnumsRead DEF StubReview
<1>3. DecodeReview(stub) = stub
  BY DecodedReview, NumbersDecoded, EnumsRead DEF StubReview
<1> QED
  BY <1>2, <1>3

\* A variant and its argument, put together.
LEMMA PairConcat ==
  ASSUME NEW a, NEW b
  PROVE  <<a>> \o <<b>> = <<a, b>>
<1> DEFINE S == {a, b}
           f == <<a>> \o <<b>>
           g == <<a, b>>
<1>1. <<a>> \in Seq(S) /\ <<b>> \in Seq(S)
  OBVIOUS
<1>2. f \in Seq(S) /\ Len(f) = 2 /\ f[1] = a /\ f[2] = b
  BY <1>1
<1>3. g \in Seq(S) /\ Len(g) = 2 /\ g[1] = a /\ g[2] = b
  OBVIOUS
<1> HIDE DEF S, f, g
<1>4. \A i \in 1..Len(f) : f[i] = g[i]
  BY <1>2, <1>3
<1>5. f = g
  BY <1>2, <1>3, <1>4, SeqEqual
<1> QED
  BY <1>5 DEF f, g

\* What fetchValue makes of a variant with an argument.
LEMMA ActionsRead ==
  ASSUME NEW variant \in {"RevokeCertificate", "UpdateThreshold", "ContractUpgrade"},
         NEW argument
  PROVE  \A type \in {"string", "u32", "bytes"} :
            SafeValue(ScValToNative(EnumScVal(variant, << <<type, argument>> >>)))
              = List(<<String(variant),
                             IF type = "u32" THEN Number(argument)
                             ELSE String(argument)>>)
<1> TAKE type \in {"string", "u32", "bytes"}
<1> DEFINE value == IF type = "u32" THEN Number(argument) ELSE String(argument)
<1>1. EnumScVal(variant, << <<type, argument>> >>)
        = <<"vec", << <<"symbol", variant>>, <<type, argument>> >> >>
  BY PairConcat DEF EnumScVal, SymbolScVal
<1>2. ScalarToNative(<<"symbol", variant>>) = String(variant)
  BY DEF ScalarToNative, NativeType, String
<1>3. SafeScalar(String(variant)) = String(variant)
  BY DEF SafeScalar, String
<1>4. SafeScalar(ScalarToNative(<<type, argument>>)) = value
  BY DEF SafeScalar, ScalarToNative, NativeType, String, Number
<1>5. ScValToNative(<<"vec", << <<"symbol", variant>>, <<type, argument>> >> >>)
        = List(<<String(variant), ScalarToNative(<<type, argument>>)>>)
  BY <1>2 DEF ScValToNative
<1>6. SafeValue(List(<<String(variant),
                                   ScalarToNative(<<type, argument>>)>>))
        = List(<<String(variant), value>>)
  BY <1>3, <1>4 DEF SafeValue, List
<1> QED
  BY <1>1, <1>5, <1>6

\* An action comes back as it was proposed, decoded once or twice.
LEMMA ActionAgrees ==
  ASSUME NEW type \in {"revocation", "governance_rule", "contract_upgrade"}, NEW x
  PROVE  LET action == MapProposalAction(type, x)
         IN /\ DecodeProposalAction(SafeValue(ScValToNative(
                 ActionToScVal(action)))) = Object(action)
            /\ DecodeProposalAction(Object(action)) = Object(action)
<1> DEFINE action == MapProposalAction(type, x)
           read == SafeValue(ScValToNative(ActionToScVal(action)))
<1>1. DecodeProposalAction(Object(action)) = Object(action)
  BY DEF DecodeProposalAction, Object
<1>2. CASE type = "revocation"
  <2>1. action = [type |-> String("RevokeCertificate"), docHash |-> String(x)]
    BY <1>2 DEF MapProposalAction
  <2>2. ActionToScVal(action) = EnumScVal("RevokeCertificate", << <<"string", x>> >>)
    BY <2>1 DEF ActionToScVal, String, StringScVal
  <2>3. read = List(<<String("RevokeCertificate"), String(x)>>)
    BY <2>2, ActionsRead
  <2>4. DecodeProposalAction(List(<<String("RevokeCertificate"), String(x)>>))
          = Object([type |-> String("RevokeCertificate"), docHash |-> String(x)])
    BY DEF DecodeProposalAction, String, List, Null
  <2> QED
    BY <1>1, <2>1, <2>3, <2>4
<1>3. CASE type = "governance_rule"
  <2>1. action = [type |-> String("UpdateThreshold"), value |-> Number(x)]
    BY <1>3 DEF MapProposalAction
  <2>2. ActionToScVal(action) = EnumScVal("UpdateThreshold", << <<"u32", x>> >>)
    BY <2>1 DEF ActionToScVal, String, Number, U32ScVal
  <2>3. read = List(<<String("UpdateThreshold"), Number(x)>>)
    BY <2>2, ActionsRead
  <2>4. DecodeProposalAction(List(<<String("UpdateThreshold"), Number(x)>>))
          = Object([type |-> String("UpdateThreshold"), value |-> Number(x)])
    BY DEF DecodeProposalAction, String, Number, List, Null,
           ToNum
  <2> QED
    BY <1>1, <2>1, <2>3, <2>4
<1>4. CASE type = "contract_upgrade"
  <2>1. action = [type |-> String("ContractUpgrade"), wasmHash |-> String(x)]
    BY <1>4 DEF MapProposalAction
  <2>2. ActionToScVal(action) = EnumScVal("ContractUpgrade", << <<"bytes", x>> >>)
    BY <2>1 DEF ActionToScVal, String, BytesN32ScVal
  <2>3. read = List(<<String("ContractUpgrade"), String(x)>>)
    BY <2>2, ActionsRead
  <2>4. DecodeProposalAction(List(<<String("ContractUpgrade"), String(x)>>))
          = Object([type |-> String("ContractUpgrade"), wasmHash |-> String(x)])
    BY DEF DecodeProposalAction, String, List, Null
  <2> QED
    BY <1>1, <2>1, <2>3, <2>4
<1> QED
  BY <1>2, <1>3, <1>4

\* A vec of addresses becomes an array of strings.
LEMMA ApprovalsRead ==
  ASSUME NEW signers
  PROVE  SafeValue(ScValToNative(
           <<"vec", [i \in DOMAIN signers |-> AddressScVal(signers[i])]>>))
             = List([i \in DOMAIN signers |-> String(signers[i])])
<1> DEFINE sent == [i \in DOMAIN signers |-> AddressScVal(signers[i])]
           got == [i \in DOMAIN signers |-> String(signers[i])]
<1>1. \A x : ScalarToNative(AddressScVal(x)) = String(x)
  BY DEF ScalarToNative, NativeType, AddressScVal, String
<1>2. \A x : SafeScalar(String(x)) = String(x)
  BY DEF SafeScalar, String
<1>3. [i \in DOMAIN sent |-> ScalarToNative(sent[i])] = got
  BY <1>1
<1>4. [i \in DOMAIN got |-> SafeScalar(got[i])] = got
  BY <1>2
<1> HIDE DEF sent, got
<1>5. ScValToNative(<<"vec", sent>>) = List(got)
  BY <1>3 DEF ScValToNative
<1>6. SafeValue(List(got)) = List(got)
  BY <1>4 DEF SafeValue, List
<1> QED
  BY <1>5, <1>6 DEF sent, got

\* The real adapter's proposal is the stub's.
LEMMA ProposalsAgree ==
  ASSUME NEW type \in {"revocation", "governance_rule", "contract_upgrade"}, NEW x,
         NEW signers, NEW executed
  PROVE  LET action == MapProposalAction(type, x)
             read == FetchValue(ContractProposal(1, action, signers, executed))
             stub == StubProposal(1, action, signers, executed)
         IN DecodeProposal(read) = stub /\ DecodeProposal(stub) = stub
<1> DEFINE action == MapProposalAction(type, x)
           read == FetchValue(ContractProposal(1, action, signers, executed))
           stub == StubProposal(1, action, signers, executed)
           Read(v) == SafeValue(ScValToNative(v))
           approvals == List([i \in DOMAIN signers |-> String(signers[i])])
<1>1. read = [id |-> Read(U64ScVal(1)), action |-> Read(ActionToScVal(action)),
              approvals |-> Read(<<"vec",
                [i \in DOMAIN signers |-> AddressScVal(signers[i])]>>),
              executed |-> Read(Flag(executed))]
  BY DEF FetchValue, ContractProposal
<1>2. read = [id |-> String(1), action |-> Read(ActionToScVal(action)),
              approvals |-> approvals, executed |-> Flag(executed)]
  BY <1>1, ScalarsRead, ApprovalsRead
<1>3. stub = [id |-> Number(1), action |-> Object(action),
              approvals |-> approvals, executed |-> Flag(executed)]
  BY DEF StubProposal
<1>4. /\ DecodeProposalAction(Read(ActionToScVal(action))) = Object(action)
      /\ DecodeProposalAction(Object(action)) = Object(action)
  BY ActionAgrees
<1> HIDE DEF action, read, stub, approvals, Read
<1>5. DecodeProposal(read) = stub
  BY <1>2, <1>3, <1>4, DecodedProposal, NumbersDecoded
<1>6. DecodeProposal(stub) = stub
  BY <1>3, <1>4, DecodedProposal, NumbersDecoded
<1> QED
  BY <1>5, <1>6 DEF action, read, stub

\* The adapters agree on documents, reviews and proposals.
LEMMA CodecAgrees == AdaptersAgree
<1>1. ASSUME NEW status, NEW expiry, NEW time
      PROVE  /\ SameAnswer(DecodeDocument,
                  ContractDocument("document", status, expiry, time),
                  StubDocument("document", status, expiry, time))
             /\ SameAnswer(DecodeVerifiedDocument,
                  ContractVerified("document", status, expiry, time),
                  StubVerified("document", status, expiry, time))
  BY DocumentsAgree, VerifiedAgree DEF SameAnswer
<1>2. ASSUME NEW by, NEW status, NEW score, NEW time
      PROVE  SameAnswer(DecodeReview, ContractReview(by, status, score, time),
                              StubReview(by, status, score, time))
  BY ReviewsAgree DEF SameAnswer
<1>3. ASSUME NEW type \in {"revocation", "governance_rule", "contract_upgrade"}, NEW x,
             NEW signers, NEW executed
      PROVE  LET action == MapProposalAction(type, x)
             IN SameAnswer(DecodeProposal,
                  ContractProposal(1, action, signers, executed),
                  StubProposal(1, action, signers, executed))
  BY ProposalsAgree DEF SameAnswer
<1> QED
  BY <1>1, <1>2, <1>3 DEF AdaptersAgree

(***************************************************************************)
(* The latest review the models choose, and the score shown with it, are   *)
(* those of the review that the reduce of latestReview (composeStatus.js)  *)
(* keeps, however many reviews there are and in whatever order they came.  *)
(***************************************************************************)
THEOREM LatestIsReduceCorrect == RulesSpec => []LatestIsReduce
<1> QED
  BY RulesTyped, ReduceAgrees, PTL

(***************************************************************************)
(* The status clients see, the gate of issueDocument and the review status *)
(* of a DocItem (serializers.js), three functions, agree on every array of *)
(* reviews; the last only where one review is the newest.                  *)
(***************************************************************************)
THEOREM GateMatchesCorrect == RulesSpec => []GateMatchesStatus
<1> QED
  BY RulesTyped, GateAgrees, PTL

(***************************************************************************)
(* Which of the two spellings of statusMap.js a lifecycle and a decision   *)
(* have makes no difference to status and gate, and the translation to the *)
(* contract's name loses nothing.                                          *)
(***************************************************************************)
THEOREM SpellingCorrect == RulesSpec => []SpellingDoesNotMatter
<1> QED
  BY RulesTyped, SpellingAgrees, PTL

(***************************************************************************)
(* Both adapters (sorobanAdapter/stub.js and real.js) return the same for  *)
(* every document, review and proposal, whatever the times, the expiries,  *)
(* the scores and the signers.                                             *)
(***************************************************************************)
THEOREM AdaptersAgreeCorrect == RulesSpec => []AdaptersAgree
<1> QED
  BY CodecAgrees, PTL

-----------------------------------------------------------------------------
(***************************************************************************)
(* CertificateMirror.  A Certificate recomputed or saved.                  *)
(***************************************************************************)

\* No Certificate is typed like one.
LEMMA NoCertType ==
  /\ NoCert \in CertRecord
  /\ NoCert.lifecycle = "Absent"
  /\ NoCert.status = "submitted"
  /\ NoCert.expiry = 0
<1>1. <<>> \in Seq(Entry)
  OBVIOUS
<1>2. "submitted" \in DocStatuses
  BY DEF DocStatuses
<1> QED
  BY <1>1, <1>2 DEF NoCert, CertRecord

\* Recomputing keeps the lifecycle and the expiry and composes the status.
LEMMA RecomputeType ==
  ASSUME NEW d \in CertRecord
  PROVE  /\ Recompute(d) \in CertRecord
         /\ Recompute(d).lifecycle = d.lifecycle
         /\ Recompute(d).expiry = d.expiry
         /\ Recompute(d).status = ComposeStatus(d.lifecycle, LatestDecision(d.reviews))
<1>1. d.reviews \in Seq(Entry)
  BY DEF CertRecord
<1>2. OverallComplianceScore(d.reviews) \in 0..100 \cup {NoScore}
  BY <1>1, ScoreType
<1>3. ComposeStatus(d.lifecycle, LatestDecision(d.reviews)) \in DocStatuses
  BY ComposeType
<1> QED
  BY <1>2, <1>3 DEF Recompute, CertRecord

\* save() leaves in each path either what the database had or what was saved.
LEMMA MergeType ==
  ASSUME NEW db \in CertRecord, NEW loaded \in CertRecord, NEW saved \in CertRecord
  PROVE  /\ Merge(db, loaded, saved) \in CertRecord
         /\ Merge(db, loaded, saved).lifecycle \in {db.lifecycle, saved.lifecycle}
         /\ Merge(db, loaded, saved).status \in {db.status, saved.status}
         /\ Merge(db, loaded, saved).expiry \in {db.expiry, saved.expiry}
         /\ Merge(db, loaded, saved).reviews = db.reviews
<1> DEFINE Path(stored, old, new) == IF new = old THEN stored ELSE new
           stage == Path(db.lifecycle, loaded.lifecycle, saved.lifecycle)
           status    == Path(db.status, loaded.status, saved.status)
           score     == Path(db.score, loaded.score, saved.score)
           expiry    == Path(db.expiry, loaded.expiry, saved.expiry)
           file      == Path(db.file, loaded.file, saved.file)
           result    == [lifecycle |-> stage, status |-> status, score |-> score,
                         expiry |-> expiry, reviews |-> db.reviews, file |-> file]
<1>1. Merge(db, loaded, saved) = result
  BY DEF Merge
<1>2. /\ stage \in Lifecycles \cup {"Absent"}
      /\ status \in DocStatuses
      /\ score \in 0..100 \cup {NoScore}
      /\ expiry \in Nat
      /\ db.reviews \in Seq(Entry)
      /\ file \in BOOLEAN
  BY DEF CertRecord
<1>3. /\ stage \in {db.lifecycle, saved.lifecycle}
      /\ status \in {db.status, saved.status}
      /\ expiry \in {db.expiry, saved.expiry}
  OBVIOUS
<1> HIDE DEF stage, status, score, expiry, file
<1>4. result \in CertRecord
  BY <1>2 DEF CertRecord
<1> QED
  BY <1>1, <1>3, <1>4

(***************************************************************************)
(* What is not ahead stays so: of a Certificate recomputed from a backed   *)
(* lifecycle, of a save of one over another, and as the chain moves on.    *)
(***************************************************************************)
LEMMA RecomputeNotAhead ==
  ASSUME NEW d \in CertRecord, NEW held, NEW expiry,
         d.lifecycle \in {"Absent"} \cup held,
         d.expiry \in {0, expiry}
  PROVE  NotAhead(Recompute(d), held, expiry)
<1>1. /\ Recompute(d).lifecycle = d.lifecycle
      /\ Recompute(d).expiry = d.expiry
      /\ Recompute(d).status = ComposeStatus(d.lifecycle, LatestDecision(d.reviews))
  BY RecomputeType
<1>2. d.lifecycle \in Lifecycles \cup {"Absent"}
  BY DEF CertRecord
<1>3. ASSUME NEW k \in {"Issued", "Revoked", "Expired"},
             Recompute(d).status = ComposeStatus(k, "none")
      PROVE  k \in held
  <2>1. d.lifecycle = k
    BY <1>1, <1>2, <1>3, ComposeTerminal
  <2> QED
    BY <2>1
<1> QED
  BY <1>1, <1>3 DEF NotAhead

LEMMA MergeNotAhead ==
  ASSUME NEW db \in CertRecord, NEW loaded \in CertRecord, NEW saved \in CertRecord,
         NEW held, NEW expiry,
         NotAhead(db, held, expiry), NotAhead(saved, held, expiry)
  PROVE  /\ Merge(db, loaded, saved) \in CertRecord
         /\ NotAhead(Merge(db, loaded, saved), held, expiry)
BY MergeType DEF NotAhead

LEMMA NotAheadGrows ==
  ASSUME NEW c, NEW held, NEW expiry, NEW held2, NEW expiry2,
         NotAhead(c, held, expiry),
         held \subseteq held2, expiry = 0 \/ expiry2 = expiry
  PROVE  NotAhead(c, held2, expiry2)
BY DEF NotAhead

LEMMA BackedGrows ==
  ASSUME NEW j, NEW v, NEW held, NEW expiry, NEW held2, NEW expiry2,
         held \subseteq held2, expiry = 0 \/ expiry2 = expiry
  PROVE  /\ JobBacked(j, held, expiry) => JobBacked(j, held2, expiry2)
         /\ ViewBacked(v, held, expiry) => ViewBacked(v, held2, expiry2)
BY DEF JobBacked, ViewBacked

LEMMA TaskGrows ==
  ASSUME NEW t, NEW held, NEW expiry, NEW rows \in Nat,
         NEW held2, NEW expiry2, NEW rows2 \in Nat,
         TaskInv(t, held, expiry, rows),
         held \subseteq held2, expiry = 0 \/ expiry2 = expiry, rows <= rows2
  PROVE  TaskInv(t, held2, expiry2, rows2)
<1>1. NotAhead(t.doc, held2, expiry2)
  BY NotAheadGrows DEF TaskInv
<1>2. ViewBacked(t.view, held2, expiry2)
  BY BackedGrows DEF TaskInv
<1>3. t.pc # "commit" => JobBacked(t.job, held2, expiry2)
  BY BackedGrows DEF TaskInv
<1>4. t.row \in 0..rows2 /\ \A r \in t.batch : r.id \in 1..rows2
  BY DEF TaskInv
<1> QED
  BY <1>1, <1>2, <1>3, <1>4 DEF TaskInv

-----------------------------------------------------------------------------
(***************************************************************************)
(* The chain and the clock.  What the document has been it has been: Held  *)
(* only grows, an expiry is set once, a revoked document keeps the one it  *)
(* has.                                                                    *)
(***************************************************************************)
ChainType ==
  /\ chain \in [status : StoredStatuses, expiry : Nat,
                reviews : [Officers -> Opinion \cup {NoOpinion}],
                anchored : [Officers -> SUBSET Opinion]]
  /\ now \in Nat

Grown ==
  /\ Held(chain, now) \subseteq Held(chain, now)'
  /\ chain.expiry = 0 \/ chain'.expiry = chain.expiry
  /\ "Revoked" \in Held(chain, now) => chain'.expiry = chain.expiry

Inv == TypeOK /\ IInv

LEMMA SameChain ==
  ASSUME UNCHANGED <<chain, now>>, ChainType, ChainInv
  PROVE  ChainType' /\ ChainInv' /\ Grown
BY DEF ChainType, ChainInv, Grown, Held

LEMMA ChainStep ==
  ASSUME Inv, [Next]_vars
  PROVE  ChainType' /\ ChainInv' /\ Grown
<1>0. /\ ChainType
      /\ ChainInv
      /\ task \in [Actors -> Task]
  BY DEF Inv, TypeOK, ChainType, IInv
<1>1. CASE UNCHANGED <<chain, now>>
  BY <1>0, <1>1, SameChain
<1>2. CASE Tick
  BY <1>0, <1>2 DEF Tick, ChainType, ChainInv, Grown, Held, StoredStatuses
<1>3. ASSUME NEW a \in Actors, ApproveRevocation(a)
      PROVE  ChainType' /\ ChainInv' /\ Grown
  BY <1>0, <1>3 DEF ApproveRevocation, CanRevoke, Revoke, ChainType, ChainInv, Grown, Held,
                    StoredStatuses
<1>4. ASSUME NEW a \in Actors, CommitStore(a)
      PROVE  ChainType' /\ ChainInv' /\ Grown
  BY <1>0, <1>4 DEF CommitStore, CanStore, Store, ChainType, ChainInv, Grown, Held,
                    StoredStatuses
<1>5. ASSUME NEW a \in Actors, CommitIssue(a)
      PROVE  ChainType' /\ ChainInv' /\ Grown
  <2>1. task[a].job.expiry \in Nat
    BY <1>0 DEF Task, Job
  <2>2. task[a].job.expiry > 0
    BY <1>5 DEF CommitIssue, Committing, Inv, IInv, TasksInv, TaskInv
  <2>3. /\ chain.status = "Submitted"
        /\ chain' = [chain EXCEPT !.status = "Issued", !.expiry = task[a].job.expiry]
        /\ now' = now
    BY <1>5 DEF CommitIssue, CanIssue, Issue
  <2>4. ChainType'
    BY <1>0, <2>1, <2>3 DEF ChainType, StoredStatuses
  <2>5. /\ chain.expiry = 0
        /\ chain'.status = "Issued"
        /\ chain'.expiry = task[a].job.expiry
    BY <1>0, <2>3 DEF ChainType, ChainInv
  <2> QED
    BY <1>0, <2>1, <2>2, <2>3, <2>4, <2>5 DEF ChainInv, Grown, Held
<1>6. ASSUME NEW a \in Actors, CommitReview(a)
      PROVE  ChainType' /\ ChainInv' /\ Grown
  <2> DEFINE by == task[a].job.by
             x  == OpinionOf(task[a].job)
  <2>1. x \in Opinion
    BY <1>0, <1>6 DEF CommitReview, Committing, Task, Job, Opinion, OpinionOf
  <2>2. /\ chain' = [chain EXCEPT !.reviews[by] = x, !.anchored[by] = @ \cup {x}]
        /\ now' = now
    BY <1>6 DEF CommitReview, SubmitReview
  <2> HIDE DEF by, x, Opinion
  <2>3. ChainType'
    <3>1. /\ [chain.reviews EXCEPT ![by] = x] \in [Officers -> Opinion \cup {NoOpinion}]
          /\ [chain.anchored EXCEPT ![by] = @ \cup {x}] \in [Officers -> SUBSET Opinion]
      BY <1>0, <2>1 DEF ChainType
    <3>2. chain' = [chain EXCEPT !.reviews = [chain.reviews EXCEPT ![by] = x],
                                 !.anchored = [chain.anchored EXCEPT ![by] = @ \cup {x}]]
      BY <1>0, <2>2 DEF ChainType
    <3> QED
      BY <1>0, <2>2, <3>1, <3>2 DEF ChainType
  <2>4. chain'.status = chain.status /\ chain'.expiry = chain.expiry
    BY <1>0, <2>2 DEF ChainType
  <2> QED
    BY <1>0, <2>2, <2>3, <2>4 DEF ChainInv, Grown, Held
<1> QED
  BY <1>1, <1>2, <1>3, <1>4, <1>5, <1>6
     DEF Next, vars, NewRequest, Submit, Review, AdminReview, IssueRequest, Continue, Refused,
         Capture, LoadCertificate, MirrorNotFound, SaveStored, InsertStored, SaveIssued,
         SaveRevoked, FindForReview, SetReview, PushReview, ReadForDerive, SaveDerived, MarkDone,
         AttachFile, TakeRow, ReadChain, ReadDb, FixDrift, SaveExpired, FetchDue, StartReconcile,
         FindExpired, CaptureFails, ReplayFails, Abort

-----------------------------------------------------------------------------
(***************************************************************************)
(* The outbox.  Rows are appended with a job the chain has confirmed; what *)
(* later happens to a row leaves its job alone.                            *)
(***************************************************************************)
RowStatuses == {"pending", "done", "failed"}

\* rows2 holds the rows of rows with the same jobs.
SameJobs(rows, rows2) ==
  /\ rows2 \in Seq(OutboxRow)
  /\ Len(rows2) = Len(rows)
  /\ \A i \in DOMAIN rows : rows2[i].job = rows[i].job

LEMMA RowReplaced ==
  ASSUME NEW rows \in Seq(OutboxRow), NEW i \in DOMAIN rows,
         NEW row \in OutboxRow, row.job = rows[i].job
  PROVE  SameJobs(rows, [rows EXCEPT ![i] = row])
<1>1. /\ [rows EXCEPT ![i] = row] \in Seq(OutboxRow)
      /\ Len([rows EXCEPT ![i] = row]) = Len(rows)
  OBVIOUS
<1>2. \A j \in DOMAIN rows : [rows EXCEPT ![i] = row][j].job = rows[j].job
  OBVIOUS
<1> QED
  BY <1>1, <1>2 DEF SameJobs

LEMMA AttemptFailedRows ==
  ASSUME TypeOK, TasksInv, NEW a \in Actors,
         task[a].origin = "outbox", task[a].pc # "next", AttemptFailed(a)
  PROVE  SameJobs(outbox, outbox')
<1> DEFINE attempts == task[a].attempts + 1
           status   == CASE attempts >= MaxAttempts -> "failed"
                         [] task[a].pc = "mark"     -> "done"
                         [] OTHER                   -> outbox[task[a].row].status
<1>1. task[a].row \in DOMAIN outbox
  BY DEF TasksInv, TaskInv, TypeOK
<1>2. attempts \in Nat
  BY DEF TypeOK, Task
<1>3. outbox[task[a].row] \in OutboxRow
  BY <1>1 DEF TypeOK
<1>4. status \in RowStatuses
  BY <1>3 DEF RowStatuses, OutboxRow
<1> DEFINE row == [job |-> outbox[task[a].row].job, status |-> status, attempts |-> attempts]
<1>5. outbox' = [outbox EXCEPT ![task[a].row] = row]
  BY DEF AttemptFailed
<1> HIDE DEF attempts, status
<1>6. row \in OutboxRow
  BY <1>2, <1>3, <1>4 DEF OutboxRow, RowStatuses
<1> HIDE DEF row
<1>7. row.job = outbox[task[a].row].job
  BY DEF row
<1> QED
  BY <1>1, <1>5, <1>6, <1>7, RowReplaced DEF TypeOK

LEMMA MarkDoneRows ==
  ASSUME TypeOK, TasksInv, NEW a \in Actors, MarkDone(a)
  PROVE  SameJobs(outbox, outbox')
<1> DEFINE i   == task[a].row
           row == [outbox[i] EXCEPT !.status = "done"]
<1>1. i \in DOMAIN outbox
  BY DEF TasksInv, TaskInv, TypeOK, MarkDone
<1>2. outbox[i] \in OutboxRow
  BY <1>1 DEF TypeOK
<1>3. row \in OutboxRow /\ row.job = outbox[i].job
  BY <1>2 DEF OutboxRow
<1>4. outbox' = [outbox EXCEPT ![i] = row]
  BY <1>1, <1>2 DEF MarkDone
<1> HIDE DEF i, row
<1> QED
  BY <1>1, <1>3, <1>4, RowReplaced DEF TypeOK

LEMMA ThrowRows ==
  ASSUME TypeOK, TasksInv, NEW a \in Actors, task[a].pc # "next", Throw(a)
  PROVE  SameJobs(outbox, outbox')
<1>1. CASE task[a].origin = "outbox"
  BY <1>1, AttemptFailedRows DEF Throw
<1>2. CASE task[a].origin # "outbox"
  BY <1>2 DEF Throw, SameJobs, TypeOK
<1> QED
  BY <1>1, <1>2

OutboxStepOK ==
  /\ outbox' \in Seq(OutboxRow)
  /\ Len(outbox) <= Len(outbox')
  /\ \A i \in DOMAIN outbox : outbox'[i].job = outbox[i].job
  /\ RowsInv'

LEMMA OutboxSame ==
  ASSUME Inv, Grown, SameJobs(outbox, outbox')
  PROVE  OutboxStepOK
<1>1. \A i \in DOMAIN outbox' :
         /\ i \in DOMAIN outbox
         /\ outbox'[i].job = outbox[i].job
  BY DEF SameJobs, Inv, TypeOK
<1>2. \A i \in DOMAIN outbox' :
         JobBacked(outbox'[i].job, Held(chain, now)', chain'.expiry)
  BY <1>1, BackedGrows DEF Inv, IInv, RowsInv, Grown
<1> QED
  BY <1>2 DEF OutboxStepOK, RowsInv, SameJobs, Inv, TypeOK

LEMMA OutboxStep ==
  ASSUME Inv, [Next]_vars, Grown
  PROVE  OutboxStepOK
<1>0. TypeOK /\ TasksInv
  BY DEF Inv, IInv
<1>1. CASE UNCHANGED outbox
  <2>1. SameJobs(outbox, outbox')
    BY <1>0, <1>1 DEF SameJobs, TypeOK
  <2> QED
    BY <2>1, OutboxSame
<1>2. ASSUME NEW a \in Actors, Capture(a)
      PROVE  OutboxStepOK
  <2> DEFINE row == [job |-> task[a].job, status |-> "pending", attempts |-> 0]
  <2>1. row \in OutboxRow
    BY <1>0 DEF TypeOK, Task, OutboxRow
  <2>2. outbox' = Append(outbox, row)
    BY <1>2 DEF Capture
  <2>3. JobBacked(task[a].job, Held(chain, now), chain.expiry)
    BY <1>0, <1>2 DEF TasksInv, TaskInv, Capture
  <2>4. row.job = task[a].job
    OBVIOUS
  <2> HIDE DEF row
  <2>5. /\ outbox' \in Seq(OutboxRow)
        /\ Len(outbox') = Len(outbox) + 1
        /\ \A i \in DOMAIN outbox' : outbox'[i] = IF i \in DOMAIN outbox THEN outbox[i] ELSE row
    BY <1>0, <2>1, <2>2 DEF TypeOK
  <2>6. \A i \in DOMAIN outbox' : JobBacked(outbox'[i].job, Held(chain, now), chain.expiry)
    BY <2>3, <2>4, <2>5 DEF Inv, IInv, RowsInv
  <2>7. \A i \in DOMAIN outbox' :
           JobBacked(outbox'[i].job, Held(chain, now)', chain'.expiry)
    BY <2>6, BackedGrows DEF Grown
  <2>8. Len(outbox) \in Nat
    BY <1>0 DEF TypeOK
  <2> QED
    BY <2>5, <2>7, <2>8 DEF OutboxStepOK, RowsInv
<1>3. ASSUME NEW a \in Actors, MarkDone(a)
      PROVE  OutboxStepOK
  BY <1>0, <1>3, MarkDoneRows, OutboxSame
<1>4. ASSUME NEW a \in Actors, MirrorNotFound(a)
      PROVE  OutboxStepOK
  BY <1>0, <1>4, ThrowRows, OutboxSame DEF MirrorNotFound
<1>5. ASSUME NEW a \in Actors, InsertStored(a)
      PROVE  OutboxStepOK
  BY <1>0, <1>1, <1>5, ThrowRows, OutboxSame DEF InsertStored, Mirroring
<1>6. ASSUME NEW a \in Actors, ReplayFails(a)
      PROVE  OutboxStepOK
  BY <1>0, <1>6, AttemptFailedRows, OutboxSame DEF ReplayFails, MirrorSteps
<1> QED
  BY <1>1, <1>2, <1>3, <1>4, <1>5, <1>6
     DEF Next, vars, NewRequest, Submit, Review, AdminReview, IssueRequest, ApproveRevocation,
         Continue, CommitStore, CommitReview, CommitIssue, Refused, LoadCertificate, SaveStored,
         SaveIssued, SaveRevoked, FindForReview, SetReview, PushReview, ReadForDerive,
         SaveDerived, AttachFile, TakeRow, ReadChain, ReadDb, FixDrift, SaveExpired, FetchDue,
         StartReconcile, FindExpired, CaptureFails, Abort, Tick

-----------------------------------------------------------------------------
(***************************************************************************)
(* The Certificate.  Every writer leaves it a record that is not ahead of  *)
(* the chain; none makes it disappear; none moves the chain or the clock.  *)
(***************************************************************************)
CertStepOK ==
  /\ cert' \in CertRecord
  /\ NotAhead(cert', Held(chain, now), chain.expiry)
  /\ cert'.lifecycle = "Absent" => cert.lifecycle = "Absent"
  /\ cert' # cert => UNCHANGED <<chain, now>>

LEMMA CertSame ==
  ASSUME Inv, UNCHANGED cert
  PROVE  CertStepOK
BY DEF CertStepOK, Inv, TypeOK, IInv, NeverAhead

\* A save of what was recomputed from a loaded document.
LEMMA CertSaved ==
  ASSUME Inv, NEW loaded \in CertRecord, NEW saved \in CertRecord,
         NotAhead(saved, Held(chain, now), chain.expiry),
         saved.lifecycle # "Absent",
         cert' = Merge(cert, loaded, saved),
         UNCHANGED <<chain, now>>
  PROVE  CertStepOK
<1>1. cert \in CertRecord /\ NotAhead(cert, Held(chain, now), chain.expiry)
  BY DEF Inv, TypeOK, IInv, NeverAhead
<1>2. cert' \in CertRecord /\ NotAhead(cert', Held(chain, now), chain.expiry)
  BY <1>1, MergeNotAhead
<1>3. cert'.lifecycle \in {cert.lifecycle, saved.lifecycle}
  BY <1>1, MergeType
<1> QED
  BY <1>2, <1>3 DEF CertStepOK

LEMMA EntryType ==
  ASSUME Inv, NEW a \in Actors, task[a].job.op = "review"
  PROVE  EntryOf(a) \in Entry
<1>1. task[a].job \in Job /\ task[a].date \in Nat
  BY DEF Inv, TypeOK, Task
<1> QED
  BY <1>1 DEF EntryOf, Entry, Job

\* An update of the reviews array alone.
LEMMA CertReviewed ==
  ASSUME Inv, NEW revs \in Seq(Entry), cert' = [cert EXCEPT !.reviews = revs],
         UNCHANGED <<chain, now>>
  PROVE  CertStepOK
<1>1. cert \in CertRecord /\ NotAhead(cert, Held(chain, now), chain.expiry)
  BY DEF Inv, TypeOK, IInv, NeverAhead
<1>2. /\ cert' \in CertRecord
      /\ cert'.lifecycle = cert.lifecycle
      /\ cert'.status = cert.status
      /\ cert'.expiry = cert.expiry
  BY <1>1 DEF CertRecord
<1>3. NotAhead(cert', Held(chain, now), chain.expiry)
  BY <1>1, <1>2 DEF NotAhead
<1> QED
  BY <1>2, <1>3 DEF CertStepOK

LEMMA CertStep ==
  ASSUME Inv, [Next]_vars
  PROVE  CertStepOK
<1> DEFINE h == Held(chain, now)
           e == chain.expiry
<1>0. /\ cert \in CertRecord
      /\ NotAhead(cert, h, e)
      /\ task \in [Actors -> Task]
      /\ \A a \in Actors : /\ task[a].doc \in CertRecord
                           /\ task[a].doc.lifecycle \in {"Absent"} \cup h
                           /\ task[a].doc.expiry \in {0, e}
                           /\ task[a].pc # "commit" => JobBacked(task[a].job, h, e)
                           /\ task[a].job.expiry \in Nat
                           /\ task[a].view \in View
                           /\ ViewBacked(task[a].view, h, e)
                           /\ task[a].pc = "expire" => "Expired" \in h
                           /\ task[a].pc \in {"set", "push"} => task[a].job.op = "review"
  BY DEF Inv, TypeOK, IInv, NeverAhead, TasksInv, TaskInv, NotAhead, Task, Job
<1> HIDE DEF h, e
<1>1. CASE UNCHANGED cert
  BY <1>1, CertSame
<1>2. ASSUME NEW a \in Actors, SaveStored(a)
      PROVE  CertStepOK
  <2> DEFINE d == [task[a].doc EXCEPT !.lifecycle = "Submitted"]
  <2>1. "Submitted" \in h
    BY <1>0, <1>2 DEF SaveStored, Mirroring, JobBacked
  <2>2. d \in CertRecord /\ d.lifecycle = "Submitted" /\ d.expiry \in {0, e}
    BY <1>0 DEF CertRecord, Lifecycles
  <2>3. cert' = Merge(cert, task[a].doc, Recompute(d)) /\ UNCHANGED <<chain, now>>
    BY <1>2 DEF SaveStored
  <2> HIDE DEF d
  <2>4. NotAhead(Recompute(d), h, e)
    BY <2>1, <2>2, RecomputeNotAhead
  <2>5. Recompute(d) \in CertRecord /\ Recompute(d).lifecycle # "Absent"
    BY <2>2, RecomputeType
  <2> QED
    BY <1>0, <2>3, <2>4, <2>5, CertSaved DEF h, e
<1>3. ASSUME NEW a \in Actors, InsertStored(a)
      PROVE  CertStepOK
  <2>1. CASE cert.lifecycle = "Absent"
    <3> DEFINE d == [NoCert EXCEPT !.lifecycle = "Submitted"]
    <3>1. "Submitted" \in h
      BY <1>0, <1>3 DEF InsertStored, Mirroring, JobBacked
    <3>2. d \in CertRecord /\ d.lifecycle = "Submitted" /\ d.expiry = 0
      <4>1. NoCert \in CertRecord /\ NoCert.expiry = 0
        BY NoCertType
      <4> QED
        BY <4>1 DEF CertRecord, Lifecycles
    <3>3. cert' = Recompute(d) /\ UNCHANGED <<chain, now>>
      BY <1>3, <2>1 DEF InsertStored
    <3> HIDE DEF d
    <3>4. NotAhead(Recompute(d), h, e)
      BY <3>1, <3>2, RecomputeNotAhead
    <3>5. Recompute(d) \in CertRecord /\ Recompute(d).lifecycle = "Submitted"
      BY <3>2, RecomputeType
    <3> QED
      BY <3>3, <3>4, <3>5 DEF CertStepOK, h, e
  <2>2. CASE cert.lifecycle # "Absent"
    BY <1>1, <1>3, <2>2 DEF InsertStored
  <2> QED
    BY <2>1, <2>2
<1>4. ASSUME NEW a \in Actors, SaveIssued(a)
      PROVE  CertStepOK
  <2> DEFINE d == [task[a].doc EXCEPT !.lifecycle = "Issued", !.expiry = task[a].job.expiry]
  <2>1. e # 0 /\ task[a].job.expiry = e
    BY <1>0, <1>4 DEF SaveIssued, Mirroring, JobBacked
  <2>2. "Issued" \in h
    BY <2>1 DEF Held, h, e
  <2>3. d \in CertRecord /\ d.lifecycle = "Issued" /\ d.expiry = e
    BY <1>0, <2>1 DEF CertRecord, Lifecycles
  <2>4. cert' = Merge(cert, task[a].doc, Recompute(d)) /\ UNCHANGED <<chain, now>>
    BY <1>4 DEF SaveIssued
  <2> HIDE DEF d
  <2>5. NotAhead(Recompute(d), h, e)
    BY <2>2, <2>3, RecomputeNotAhead
  <2>6. Recompute(d) \in CertRecord /\ Recompute(d).lifecycle # "Absent"
    BY <2>3, RecomputeType
  <2> QED
    BY <1>0, <2>4, <2>5, <2>6, CertSaved DEF h, e
<1>5. ASSUME NEW a \in Actors, SaveRevoked(a)
      PROVE  CertStepOK
  <2> DEFINE d == [task[a].doc EXCEPT !.lifecycle = "Revoked"]
  <2>1. "Revoked" \in h
    BY <1>0, <1>5 DEF SaveRevoked, Mirroring, JobBacked
  <2>2. d \in CertRecord /\ d.lifecycle = "Revoked" /\ d.expiry \in {0, e}
    BY <1>0 DEF CertRecord, Lifecycles
  <2>3. cert' = Merge(cert, task[a].doc, Recompute(d)) /\ UNCHANGED <<chain, now>>
    BY <1>5 DEF SaveRevoked
  <2> HIDE DEF d
  <2>4. NotAhead(Recompute(d), h, e)
    BY <2>1, <2>2, RecomputeNotAhead
  <2>5. Recompute(d) \in CertRecord /\ Recompute(d).lifecycle # "Absent"
    BY <2>2, RecomputeType
  <2> QED
    BY <1>0, <2>3, <2>4, <2>5, CertSaved DEF h, e
<1>6. ASSUME NEW a \in Actors, SetReview(a)
      PROVE  CertStepOK
  <2> DEFINE i == CHOOSE i \in PositionsOf(cert.reviews, task[a].job.by) : TRUE
  <2>1. CASE PositionsOf(cert.reviews, task[a].job.by) = {}
    BY <1>1, <1>6, <2>1 DEF SetReview
  <2>2. CASE PositionsOf(cert.reviews, task[a].job.by) # {}
    <3>1. i \in DOMAIN cert.reviews
      BY <2>2 DEF PositionsOf
    <3>2. /\ cert' = [cert EXCEPT !.reviews[i] = EntryOf(a)]
          /\ UNCHANGED <<chain, now>>
      BY <1>6, <2>2 DEF SetReview
    <3> HIDE DEF i
    <3>3. EntryOf(a) \in Entry
      BY <1>0, <1>6, EntryType DEF SetReview
    <3>4. [cert.reviews EXCEPT ![i] = EntryOf(a)] \in Seq(Entry)
      BY <1>0, <3>1, <3>3 DEF CertRecord
    <3>5. cert' = [cert EXCEPT !.reviews = [cert.reviews EXCEPT ![i] = EntryOf(a)]]
      BY <1>0, <3>2 DEF CertRecord
    <3> QED
      BY <3>2, <3>4, <3>5, CertReviewed
  <2> QED
    BY <2>1, <2>2
<1>7. ASSUME NEW a \in Actors, PushReview(a)
      PROVE  CertStepOK
  <2>1. CASE PositionsOf(cert.reviews, task[a].job.by) = {}
    <3>1. /\ cert' = [cert EXCEPT !.reviews = Append(cert.reviews, EntryOf(a))]
          /\ UNCHANGED <<chain, now>>
      BY <1>0, <1>7, <2>1 DEF PushReview
    <3>2. EntryOf(a) \in Entry
      BY <1>0, <1>7, EntryType DEF PushReview
    <3>3. Append(cert.reviews, EntryOf(a)) \in Seq(Entry)
      BY <1>0, <3>2 DEF CertRecord
    <3> QED
      BY <3>1, <3>3, CertReviewed
  <2>2. CASE PositionsOf(cert.reviews, task[a].job.by) # {}
    BY <1>1, <1>7, <2>2 DEF PushReview
  <2> QED
    BY <2>1, <2>2
<1>8. ASSUME NEW a \in Actors, SaveDerived(a)
      PROVE  CertStepOK
  <2> DEFINE d == Recompute(task[a].doc)
  <2>1. d \in CertRecord /\ NotAhead(d, h, e)
    BY <1>0, RecomputeType, RecomputeNotAhead
  <2>2. /\ cert' = [cert EXCEPT !.status = d.status, !.score = d.score]
        /\ UNCHANGED <<chain, now>>
    BY <1>8 DEF SaveDerived
  <2> HIDE DEF d
  <2>3. d.status \in DocStatuses /\ d.score \in 0..100 \cup {NoScore}
    BY <2>1 DEF CertRecord
  <2>4. /\ cert' \in CertRecord
        /\ cert'.lifecycle = cert.lifecycle
        /\ cert'.status = d.status
        /\ cert'.expiry = cert.expiry
    BY <1>0, <2>2, <2>3 DEF CertRecord
  <2>5. NotAhead(cert', h, e)
    BY <1>0, <2>1, <2>4 DEF NotAhead
  <2> QED
    BY <2>2, <2>4, <2>5 DEF CertStepOK, h, e
<1>9. ASSUME NEW a \in Actors, FixDrift(a)
      PROVE  CertStepOK
  <2> DEFINE loaded == task[a].doc
             view   == task[a].view
             life   == view.lifecycle
             status == ComposeStatus(life, LatestDecision(loaded.reviews))
             expiry == IF view.expiry = 0 THEN loaded.expiry ELSE view.expiry
             saved  == [loaded EXCEPT !.lifecycle = life, !.status = status,
                                      !.expiry = expiry]
  <2>1. CASE life = "Absent"
    BY <1>1, <1>9, <2>1 DEF FixDrift
  <2>2. CASE life # "Absent"
    <3>1. cert' = Merge(cert, loaded, saved) /\ UNCHANGED <<chain, now>>
      BY <1>0, <1>9, <2>2 DEF FixDrift
    <3>2. /\ loaded \in CertRecord
          /\ life \in Lifecycles \cup {"Absent"}
          /\ life \in {"Absent"} \cup h
          /\ expiry \in {0, e}
          /\ expiry \in Nat
      BY <1>0 DEF View, ViewBacked, CertRecord
    <3>3. status \in DocStatuses
      BY ComposeType
    <3>4. \A k \in {"Issued", "Revoked", "Expired"} :
             status = ComposeStatus(k, "none") => k \in h
      BY <2>2, <3>2, ComposeTerminal
    <3> HIDE DEF loaded, life, status, expiry
    <3>5. /\ saved \in CertRecord
          /\ saved.lifecycle = life
          /\ saved.status = status
          /\ saved.expiry = expiry
      BY <3>2, <3>3 DEF CertRecord
    <3> HIDE DEF saved
    <3>6. NotAhead(saved, h, e)
      BY <3>2, <3>4, <3>5 DEF NotAhead
    <3> QED
      BY <2>2, <3>1, <3>2, <3>5, <3>6, CertSaved DEF h, e
  <2> QED
    BY <2>1, <2>2
<1>10. ASSUME NEW a \in Actors, SaveExpired(a)
       PROVE  CertStepOK
  <2> DEFINE saved == [task[a].doc EXCEPT !.status = "expired", !.lifecycle = "Expired"]
  <2>1. "Expired" \in h
    BY <1>0, <1>10 DEF SaveExpired
  <2>2. /\ saved \in CertRecord
        /\ saved.lifecycle = "Expired"
        /\ saved.status = "expired"
        /\ saved.expiry \in {0, e}
    BY <1>0 DEF CertRecord, Lifecycles, DocStatuses
  <2>3. cert' = Merge(cert, task[a].doc, saved) /\ UNCHANGED <<chain, now>>
    BY <1>10 DEF SaveExpired
  <2> HIDE DEF saved
  <2>4. \A k \in {"Issued", "Revoked", "Expired"} :
           "expired" = ComposeStatus(k, "none") => k = "Expired"
    BY DEF ComposeStatus, NormalizeLifecycle
  <2>5. NotAhead(saved, h, e)
    BY <2>1, <2>2, <2>4 DEF NotAhead
  <2> QED
    BY <1>0, <2>2, <2>3, <2>5, CertSaved DEF h, e
<1>11. ASSUME NEW a \in Actors, AttachFile(a)
       PROVE  CertStepOK
  <2>1. /\ cert' = [cert EXCEPT !.file = TRUE]
        /\ UNCHANGED <<chain, now>>
    BY <1>11 DEF AttachFile
  <2>2. /\ cert' \in CertRecord
        /\ cert'.lifecycle = cert.lifecycle
        /\ cert'.status = cert.status
        /\ cert'.expiry = cert.expiry
    BY <1>0, <2>1 DEF CertRecord
  <2>3. NotAhead(cert', h, e)
    BY <1>0, <2>2 DEF NotAhead
  <2> QED
    BY <2>1, <2>2, <2>3 DEF CertStepOK, h, e
<1> QED
  BY <1>1, <1>2, <1>3, <1>4, <1>5, <1>6, <1>7, <1>8, <1>9, <1>10, <1>11
     DEF Next, vars, NewRequest, Submit, Review, AdminReview, IssueRequest, ApproveRevocation,
         Continue, CommitStore, CommitReview, CommitIssue, Refused, Capture, LoadCertificate,
         MirrorNotFound, FindForReview, ReadForDerive, MarkDone, TakeRow, ReadChain, ReadDb,
         FetchDue, StartReconcile, FindExpired, CaptureFails, ReplayFails, Abort, Tick

-----------------------------------------------------------------------------
(***************************************************************************)
(* The actors.  A step changes the task of one actor; the others' tasks    *)
(* hold what has become true of the chain and stays so.                    *)
(***************************************************************************)
TaskStepOK ==
  /\ task' \in [Actors -> Task]
  /\ TasksInv'

\* The values of fields that are not in use.
LEMMA BlanksOK ==
  ASSUME NEW held, NEW expiry
  PROVE  /\ NoJob \in Job /\ JobBacked(NoJob, held, expiry)
         /\ NoCert \in CertRecord /\ NotAhead(NoCert, held, expiry)
         /\ NoView \in View /\ ViewBacked(NoView, held, expiry)
<1>1. NoJob \in Job /\ JobBacked(NoJob, held, expiry)
  BY DEF NoJob, Job, JobBacked
<1>2. \A k \in {"Issued", "Revoked", "Expired"} : "submitted" # ComposeStatus(k, "none")
  BY DEF ComposeStatus, NormalizeLifecycle
<1>3. NoCert \in CertRecord /\ NotAhead(NoCert, held, expiry)
  BY <1>2, NoCertType DEF NotAhead
<1>4. NoView \in View /\ ViewBacked(NoView, held, expiry)
  BY DEF NoView, View, ViewBacked
<1> QED
  BY <1>1, <1>3, <1>4

LEMMA IdleTaskType ==
  /\ IdleTask \in Task
  /\ IdleTask.job = NoJob
  /\ IdleTask.row = 0
  /\ IdleTask.batch = {}
  /\ IdleTask.doc = NoCert
  /\ IdleTask.view = NoView
BY BlanksOK DEF IdleTask, Task, Places, MirrorSteps, Origins, BatchItem

LEMMA IdleTaskOK ==
  ASSUME NEW held, NEW expiry, NEW rows \in Nat
  PROVE  TaskInv(IdleTask, held, expiry, rows)
BY BlanksOK DEF IdleTask, TaskInv

\* The step lemma: what a new task must satisfy, of the state before or after.
LEMMA TaskChanged ==
  ASSUME Inv, Grown, OutboxStepOK, NEW a \in Actors, NEW t \in Task, Become(a, t),
         \/ TaskInv(t, Held(chain, now), chain.expiry, Len(outbox))
         \/ TaskInv(t, Held(chain, now)', chain'.expiry, Len(outbox'))
  PROVE  TaskStepOK
<1>1. /\ task \in [Actors -> Task]
      /\ task' = [task EXCEPT ![a] = t]
      /\ Len(outbox) \in Nat
      /\ Len(outbox') \in Nat
      /\ Len(outbox) <= Len(outbox')
      /\ Held(chain, now) \subseteq Held(chain, now)'
      /\ chain.expiry = 0 \/ chain'.expiry = chain.expiry
  BY DEF Inv, TypeOK, Become, OutboxStepOK, Grown
<1>2. \A u : TaskInv(u, Held(chain, now), chain.expiry, Len(outbox))
             => TaskInv(u, Held(chain, now)', chain'.expiry, Len(outbox'))
  BY <1>1, TaskGrows
<1>3. \A b \in Actors : TaskInv(task[b], Held(chain, now), chain.expiry, Len(outbox))
  BY DEF Inv, IInv, TasksInv
<1>4. \A b \in Actors : TaskInv(task'[b], Held(chain, now)', chain'.expiry, Len(outbox'))
  BY <1>1, <1>2, <1>3
<1> QED
  BY <1>1, <1>4 DEF TaskStepOK, TasksInv

LEMMA TaskSame ==
  ASSUME Inv, Grown, OutboxStepOK, UNCHANGED task
  PROVE  TaskStepOK
<1>1. CASE Actors = {}
  BY <1>1 DEF TaskStepOK, TasksInv, Inv, TypeOK
<1>2. ASSUME NEW a \in Actors PROVE TaskStepOK
  <2>1. task[a] \in Task /\ Become(a, task[a])
    BY DEF Inv, TypeOK, Become
  <2>2. TaskInv(task[a], Held(chain, now), chain.expiry, Len(outbox))
    BY DEF Inv, IInv, TasksInv
  <2> QED
    BY <2>1, <2>2, TaskChanged
<1> QED
  BY <1>1, <1>2

LEMMA TaskFinished ==
  ASSUME Inv, Grown, OutboxStepOK, NEW a \in Actors, Finish(a)
  PROVE  TaskStepOK
<1>1. Len(outbox) \in Nat
  BY DEF Inv, TypeOK
<1> QED
  BY <1>1, IdleTaskType, IdleTaskOK, TaskChanged DEF Finish

\* A request, a run of a job: an idle actor's task with a few fields set.
LEMMA TaskBegun ==
  ASSUME Inv, Grown, OutboxStepOK, NEW a \in Actors, NEW t \in Task, Become(a, t),
         t.pc \notin {"set", "push", "derive", "mark"},
         t.origin = "outbox" => t.pc = "next",
         t.pc = "commit" /\ t.job.op = "issue" => t.job.expiry > 0,
         t.pc # "commit" => JobBacked(t.job, Held(chain, now)', chain'.expiry),
         t.pc = "expire" => "Expired" \in Held(chain, now),
         t.row = 0,
         NotAhead(t.doc, Held(chain, now), chain.expiry),
         ViewBacked(t.view, Held(chain, now), chain.expiry),
         \A r \in t.batch : r.id \in DOMAIN outbox
  PROVE  TaskStepOK
<1>1. /\ Len(outbox) \in Nat
      /\ Len(outbox') \in Nat
      /\ Len(outbox) <= Len(outbox')
      /\ DOMAIN outbox = 1..Len(outbox)
  BY DEF Inv, TypeOK, OutboxStepOK
<1>2. /\ NotAhead(t.doc, Held(chain, now)', chain'.expiry)
      /\ ViewBacked(t.view, Held(chain, now)', chain'.expiry)
      /\ t.pc = "expire" => "Expired" \in Held(chain, now)'
  BY NotAheadGrows, BackedGrows DEF Grown
<1>3. TaskInv(t, Held(chain, now)', chain'.expiry, Len(outbox'))
  BY <1>1, <1>2 DEF TaskInv
<1> QED
  BY <1>3, TaskChanged

\* The actor goes on, nothing but its place changes.
LEMMA TaskMoved ==
  ASSUME Inv, Grown, OutboxStepOK, NEW a \in Actors, NEW pc \in Places, GoTo(a, pc),
         pc \notin {"commit", "mark", "expire"},
         task[a].pc # "next",
         pc \in {"set", "push", "derive"} => task[a].job.op = "review",
         JobBacked(task[a].job, Held(chain, now)', chain'.expiry)
  PROVE  TaskStepOK
<1> DEFINE t == [task[a] EXCEPT !.pc = pc]
<1>1. task[a] \in Task
  BY DEF Inv, TypeOK
<1>2. t \in Task
  BY <1>1 DEF Task
<1>3. /\ Len(outbox) \in Nat
      /\ Len(outbox') \in Nat
  BY DEF Inv, TypeOK, OutboxStepOK
<1>4. TaskInv(task[a], Held(chain, now), chain.expiry, Len(outbox))
  BY DEF Inv, IInv, TasksInv
<1>5. TaskInv(task[a], Held(chain, now)', chain'.expiry, Len(outbox'))
  BY <1>3, <1>4, TaskGrows DEF OutboxStepOK, Grown
<1>6. TaskInv(t, Held(chain, now)', chain'.expiry, Len(outbox'))
  BY <1>1, <1>5 DEF TaskInv, Task
<1>7. Become(a, t)
  BY DEF GoTo
<1> HIDE DEF t
<1> QED
  BY <1>2, <1>6, <1>7, TaskChanged

\* A loop head of processOutbox, or the end of its run.
LEMMA TaskNextRow ==
  ASSUME Inv, Grown, OutboxStepOK, NEW a \in Actors, NextRow(a)
  PROVE  TaskStepOK
<1>1. /\ task[a].batch \in SUBSET BatchItem
      /\ \A r \in task[a].batch : r.id \in DOMAIN outbox
  BY DEF Inv, TypeOK, Task, IInv, TasksInv, TaskInv
<1>2. CASE task[a].batch = {}
  BY <1>2, TaskFinished DEF NextRow
<1>3. CASE task[a].batch # {}
  <2> DEFINE t == [IdleTask EXCEPT !.pc = "next", !.origin = "outbox", !.batch = task[a].batch]
  <2>1. /\ t \in Task
        /\ t.pc = "next" /\ t.job = NoJob /\ t.row = 0 /\ t.doc = NoCert /\ t.view = NoView
        /\ t.batch = task[a].batch
    BY <1>1, IdleTaskType DEF Task, Places, Origins
  <2>2. Become(a, t)
    BY <1>3 DEF NextRow
  <2>3. /\ JobBacked(NoJob, Held(chain, now)', chain'.expiry)
        /\ NotAhead(NoCert, Held(chain, now), chain.expiry)
        /\ ViewBacked(NoView, Held(chain, now), chain.expiry)
    BY BlanksOK
  <2> HIDE DEF t
  <2> QED
    BY <1>1, <2>1, <2>2, <2>3, TaskBegun
<1> QED
  BY <1>2, <1>3

LEMMA TaskThrown ==
  ASSUME Inv, Grown, OutboxStepOK, NEW a \in Actors, Throw(a)
  PROVE  TaskStepOK
BY TaskNextRow, TaskFinished DEF Throw

LEMMA TaskReplied ==
  ASSUME Inv, Grown, OutboxStepOK, NEW a \in Actors,
         task[a].pc # "commit", task[a].origin # "outbox", Reply(a)
  PROVE  TaskStepOK
<1>1. CASE task[a].job.op # "store"
  BY <1>1, TaskFinished DEF Reply
<1>2. CASE task[a].job.op = "store"
  <2> DEFINE t == [task[a] EXCEPT !.pc = "attach", !.row = 0, !.doc = NoCert]
  <2>1. task[a] \in Task
    BY DEF Inv, TypeOK
  <2>2. NoCert \in CertRecord /\ NotAhead(NoCert, Held(chain, now), chain.expiry)
    BY BlanksOK
  <2>3. t \in Task
    BY <2>1, <2>2 DEF Task, Places
  <2>4. TaskInv(task[a], Held(chain, now), chain.expiry, Len(outbox)) /\ Len(outbox) \in Nat
    BY DEF Inv, IInv, TasksInv, TypeOK
  <2>5. TaskInv(t, Held(chain, now), chain.expiry, Len(outbox))
    BY <2>1, <2>2, <2>4 DEF TaskInv, Task
  <2>6. Become(a, t)
    BY <1>2 DEF Reply
  <2> HIDE DEF t
  <2> QED
    BY <2>3, <2>5, <2>6, TaskChanged
<1> QED
  BY <1>1, <1>2

LEMMA TaskMirrored ==
  ASSUME Inv, Grown, OutboxStepOK, NEW a \in Actors,
         task[a].pc \notin {"commit", "next"}, AfterMirror(a)
  PROVE  TaskStepOK
<1>1. CASE task[a].row = 0
  <2>1. task[a].origin # "outbox"
    BY <1>1 DEF Inv, IInv, TasksInv, TaskInv
  <2> QED
    BY <1>1, <2>1, TaskReplied DEF AfterMirror
<1>2. CASE task[a].row # 0
  <2> DEFINE t == [task[a] EXCEPT !.pc = "mark", !.doc = NoCert, !.date = 0]
  <2>1. task[a] \in Task
    BY DEF Inv, TypeOK
  <2>2. NoCert \in CertRecord /\ NotAhead(NoCert, Held(chain, now), chain.expiry)
    BY BlanksOK
  <2>3. t \in Task
    BY <2>1, <2>2 DEF Task, Places
  <2>4. TaskInv(task[a], Held(chain, now), chain.expiry, Len(outbox))
    BY DEF Inv, IInv, TasksInv
  <2>5. TaskInv(t, Held(chain, now), chain.expiry, Len(outbox))
    BY <1>2, <2>1, <2>2, <2>4 DEF TaskInv, Task
  <2>6. Become(a, t)
    BY <1>2 DEF AfterMirror
  <2> HIDE DEF t
  <2> QED
    BY <2>3, <2>5, <2>6, TaskChanged
<1> QED
  BY <1>1, <1>2

\* A request enters its handler with a job that is to be committed, or is backed.
LEMMA TaskRequested ==
  ASSUME Inv, Grown, OutboxStepOK, NEW a \in Actors, NEW pc \in {"commit", "mirror"},
         NEW job \in Job, Request(a, pc, job),
         pc = "commit" /\ job.op = "issue" => job.expiry > 0,
         pc # "commit" => JobBacked(job, Held(chain, now)', chain'.expiry)
  PROVE  TaskStepOK
<1> DEFINE t == [IdleTask EXCEPT !.pc = pc, !.origin = "request", !.job = job]
<1>1. /\ t \in Task
      /\ t.pc = pc /\ t.origin = "request" /\ t.job = job
      /\ t.row = 0 /\ t.batch = {} /\ t.doc = NoCert /\ t.view = NoView
  BY IdleTaskType DEF Task, Places, MirrorSteps, Origins
<1>2. Become(a, t)
  BY DEF Request
<1>3. /\ NotAhead(NoCert, Held(chain, now), chain.expiry)
      /\ ViewBacked(NoView, Held(chain, now), chain.expiry)
  BY BlanksOK
<1> HIDE DEF t
<1> QED
  BY <1>1, <1>2, <1>3, TaskBegun

LEMMA NewRequestTask ==
  ASSUME Inv, Grown, OutboxStepOK, NEW a \in Actors, NewRequest(a)
  PROVE  TaskStepOK
<1>1. MainAdmin \in Reviewers /\ Officers \subseteq Reviewers
  BY DEF Reviewers
<1>2. \A r \in Reviewers, x \in Opinions :
         /\ ReviewJob(r, x) \in Job
         /\ ReviewJob(r, x).op = "review"
  BY OpinionsAssumption DEF ReviewJob, NoJob, Job, Opinion
<1>3. CASE Submit(a)
  <2>1. StoreJob \in Job /\ StoreJob.op = "store"
    BY DEF StoreJob, NoJob, Job
  <2> QED
    BY <1>3, <2>1, TaskRequested DEF Submit
<1>4. CASE Review(a)
  <2>1. PICK o \in Officers, x \in Opinions : Request(a, "commit", ReviewJob(o, x))
    BY <1>4 DEF Review
  <2> QED
    BY <1>1, <1>2, <2>1, TaskRequested
<1>5. CASE AdminReview(a)
  <2>1. PICK x \in Opinions : Request(a, "mirror", ReviewJob(MainAdmin, x))
    BY <1>5 DEF AdminReview
  <2>2. JobBacked(ReviewJob(MainAdmin, x), Held(chain, now)', chain'.expiry)
    BY <1>1, <1>2 DEF JobBacked
  <2> QED
    BY <1>1, <1>2, <2>1, <2>2, TaskRequested
<1>6. CASE IssueRequest(a)
  <2>1. PICK e \in now..MaxExpiry : Request(a, "commit", IssueJob(e))
    BY <1>6 DEF IssueRequest
  <2>2. e \in Nat /\ e > 0
    BY BoundsAssumption DEF Inv, TypeOK, IInv, ChainInv
  <2>3. IssueJob(e) \in Job /\ IssueJob(e).op = "issue" /\ IssueJob(e).expiry = e
    BY <2>2 DEF IssueJob, NoJob, Job
  <2> QED
    BY <2>1, <2>2, <2>3, TaskRequested
<1>7. CASE ApproveRevocation(a)
  <2>1. RevokeJob \in Job /\ RevokeJob.op = "revoke"
    BY DEF RevokeJob, NoJob, Job
  <2>2. "Revoked" \in Held(chain, now)'
    BY <1>7 DEF ApproveRevocation, Revoke, Held, Inv, TypeOK
  <2>3. JobBacked(RevokeJob, Held(chain, now)', chain'.expiry)
    BY <2>1, <2>2 DEF JobBacked
  <2> QED
    BY <1>7, <2>1, <2>3, TaskRequested DEF ApproveRevocation
<1> QED
  BY <1>3, <1>4, <1>5, <1>6, <1>7 DEF NewRequest

\* What verifyDocument returns has been true of the document.
LEMMA VerifyBacked ==
  ASSUME Inv
  PROVE  /\ Verify(chain, now) \in View
         /\ ViewBacked(Verify(chain, now), Held(chain, now), chain.expiry)
<1>1. /\ chain.status \in StoredStatuses
      /\ chain.expiry \in Nat
      /\ now \in Nat
      /\ chain.status = "Issued" => chain.expiry # 0
  BY DEF Inv, TypeOK, IInv, ChainInv
<1>2. /\ EffectiveStatus(chain, now) \in Lifecycles \cup {"Absent"}
      /\ EffectiveStatus(chain, now) \in {"Absent"} \cup Held(chain, now)
  BY <1>1 DEF EffectiveStatus, StoredStatuses, Lifecycles, Held
<1> QED
  BY <1>1, <1>2 DEF Verify, View, ViewBacked

LEMMA ContinueTask ==
  ASSUME Inv, Grown, OutboxStepOK, NEW a \in Actors, Continue(a)
  PROVE  TaskStepOK
<1> DEFINE h == Held(chain, now)
           e == chain.expiry
           n == Len(outbox)
<1>1. /\ task[a] \in Task
      /\ TaskInv(task[a], h, e, n)
      /\ cert \in CertRecord
      /\ NotAhead(cert, h, e)
      /\ n \in Nat
      /\ \A i \in 1..n : outbox[i] \in OutboxRow /\ JobBacked(outbox[i].job, h, e)
      /\ now \in Nat
  BY DEF Inv, IInv, TypeOK, TasksInv, NeverAhead, RowsInv
<1>2. /\ "capture" \in Places /\ "mirror" \in Places /\ "set" \in Places /\ "push" \in Places
      /\ "derive" \in Places /\ "save" \in Places /\ "fix" \in Places
  BY DEF Places, MirrorSteps
<1>3. task[a].pc # "commit" => JobBacked(task[a].job, Held(chain, now)', chain'.expiry)
  BY <1>1, BackedGrows DEF TaskInv, Grown
<1>4. CASE CommitStore(a)
  <2>1. "Submitted" \in Held(chain, now)'
    BY <1>4 DEF CommitStore, Store, Held, Inv, TypeOK
  <2>2. JobBacked(task[a].job, Held(chain, now)', chain'.expiry)
    BY <1>4, <2>1 DEF CommitStore, Committing, JobBacked
  <2> QED
    BY <1>2, <1>4, <2>2, TaskMoved DEF CommitStore, Committing
<1>5. CASE CommitReview(a)
  <2>1. JobBacked(task[a].job, Held(chain, now)', chain'.expiry)
    BY <1>5 DEF CommitReview, Committing, JobBacked
  <2> QED
    BY <1>2, <1>5, <2>1, TaskMoved DEF CommitReview, Committing
<1>6. CASE CommitIssue(a)
  <2>1. chain'.expiry = task[a].job.expiry
    BY <1>6 DEF CommitIssue, Issue, Inv, TypeOK
  <2>2. task[a].job.expiry > 0
    BY <1>1, <1>6 DEF CommitIssue, Committing, TaskInv
  <2>3. JobBacked(task[a].job, Held(chain, now)', chain'.expiry)
    BY <1>6, <2>1, <2>2 DEF CommitIssue, Committing, JobBacked
  <2> QED
    BY <1>2, <1>6, <2>3, TaskMoved DEF CommitIssue, Committing
<1>7. CASE Refused(a)
  BY <1>7, TaskFinished DEF Refused
<1>8. CASE Capture(a)
  <2> DEFINE row == Len(outbox) + 1
             t   == [task[a] EXCEPT !.pc = "mirror", !.row = row]
  <2>0. row \in Nat /\ row # 0 /\ row = n + 1
    BY <1>1
  <2> HIDE DEF row
  <2>1. t \in Task
    BY <1>1, <1>2, <2>0 DEF Task
  <2>2. Len(outbox') = n + 1
    BY <1>8 DEF Capture, Inv, TypeOK
  <2>3. UNCHANGED <<chain, now>> /\ Become(a, t)
    BY <1>8 DEF Capture, row
  <2>4. TaskInv(t, h, e, n + 1)
    BY <1>1, <1>8, <2>0 DEF Capture, Task, TaskInv
  <2> HIDE DEF t
  <2>5. TaskInv(t, Held(chain, now)', chain'.expiry, Len(outbox'))
    BY <2>2, <2>3, <2>4 DEF Held
  <2> QED
    BY <2>1, <2>3, <2>5, TaskChanged
<1>9. CASE LoadCertificate(a)
  <2> DEFINE t == [task[a] EXCEPT !.pc = "save", !.doc = cert]
  <2>1. t \in Task
    BY <1>1, <1>2 DEF Task
  <2>2. TaskInv(t, h, e, n)
    BY <1>1, <1>9 DEF LoadCertificate, Mirroring, Task, TaskInv
  <2>3. Become(a, t)
    BY <1>9 DEF LoadCertificate
  <2> HIDE DEF t
  <2> QED
    BY <2>1, <2>2, <2>3, TaskChanged
<1>10. CASE MirrorNotFound(a)
  BY <1>10, TaskThrown DEF MirrorNotFound
<1>11. CASE SaveStored(a) \/ SaveIssued(a) \/ SaveRevoked(a) \/ SaveDerived(a)
  BY <1>11, TaskMirrored DEF SaveStored, SaveIssued, SaveRevoked, SaveDerived, Mirroring
<1>12. CASE InsertStored(a)
  BY <1>12, TaskMirrored, TaskThrown DEF InsertStored, Mirroring
<1>13. CASE FindForReview(a)
  <2> DEFINE t == [task[a] EXCEPT !.pc = "set", !.date = now]
  <2>1. t \in Task
    BY <1>1, <1>2 DEF Task
  <2>2. TaskInv(t, h, e, n)
    BY <1>1, <1>13 DEF FindForReview, Mirroring, Task, TaskInv
  <2>3. Become(a, t)
    BY <1>13 DEF FindForReview
  <2> HIDE DEF t
  <2> QED
    BY <2>1, <2>2, <2>3, TaskChanged
<1>14. CASE SetReview(a)
  <2>1. task[a].job.op = "review" /\ task[a].pc = "set"
    BY <1>1, <1>14 DEF SetReview, TaskInv
  <2> QED
    BY <1>2, <1>3, <1>14, <2>1, TaskMoved DEF SetReview
<1>15. CASE PushReview(a)
  <2>1. task[a].job.op = "review" /\ task[a].pc = "push"
    BY <1>1, <1>15 DEF PushReview, TaskInv
  <2> QED
    BY <1>2, <1>3, <1>15, <2>1, TaskMoved DEF PushReview
<1>16. CASE ReadForDerive(a)
  <2> DEFINE t == [task[a] EXCEPT !.pc = "save", !.doc = cert]
  <2>1. t \in Task
    BY <1>1, <1>2 DEF Task
  <2>2. TaskInv(t, h, e, n)
    BY <1>1, <1>16 DEF ReadForDerive, Task, TaskInv
  <2>3. Become(a, t)
    BY <1>16 DEF ReadForDerive
  <2> HIDE DEF t
  <2> QED
    BY <2>1, <2>2, <2>3, TaskChanged
<1>17. CASE MarkDone(a)
  BY <1>17, TaskNextRow, TaskReplied DEF MarkDone
<1>18. CASE TakeRow(a)
  <2>1. PICK r \in task[a].batch :
           Become(a, [pc |-> "mirror", origin |-> "outbox", job |-> outbox[r.id].job,
                      row |-> r.id, attempts |-> r.attempts, batch |-> task[a].batch \ {r},
                      doc |-> NoCert, view |-> NoView, date |-> 0])
    BY <1>18 DEF TakeRow
  <2>2. r.id \in 1..n /\ r.attempts \in Nat
    BY <1>1 DEF Task, BatchItem, TaskInv
  <2>3. outbox[r.id].job \in Job /\ JobBacked(outbox[r.id].job, h, e)
    BY <1>1, <2>2 DEF OutboxRow
  <2> DEFINE job == outbox[r.id].job
             t == [pc |-> "mirror", origin |-> "outbox", job |-> job,
                   row |-> r.id, attempts |-> r.attempts, batch |-> task[a].batch \ {r},
                   doc |-> NoCert, view |-> NoView, date |-> 0]
  <2>4. Become(a, t)
    BY <2>1
  <2>5. job \in Job /\ JobBacked(job, h, e)
    BY <2>3
  <2> HIDE DEF job
  <2>6. /\ NoCert \in CertRecord /\ NotAhead(NoCert, h, e)
        /\ NoView \in View /\ ViewBacked(NoView, h, e)
    BY BlanksOK
  <2>7. t \in Task
    BY <1>1, <1>2, <2>2, <2>5, <2>6 DEF Task, Origins
  <2>8. TaskInv(t, h, e, n)
    BY <1>1, <2>2, <2>5, <2>6 DEF TaskInv
  <2> HIDE DEF t
  <2> QED
    BY <2>4, <2>7, <2>8, TaskChanged
<1>19. CASE ReadChain(a)
  <2> DEFINE t == [task[a] EXCEPT !.pc = "fix", !.view = Verify(chain, now)]
  <2>1. t \in Task
    BY <1>1, <1>2, VerifyBacked DEF Task
  <2>2. TaskInv(t, h, e, n)
    BY <1>1, <1>19, VerifyBacked DEF ReadChain, Task, TaskInv
  <2>3. Become(a, t)
    BY <1>19 DEF ReadChain
  <2> HIDE DEF t
  <2> QED
    BY <2>1, <2>2, <2>3, TaskChanged
<1>20. CASE ReadDb(a)
  <2> DEFINE t == [task[a] EXCEPT !.pc = "fix", !.doc = cert]
  <2>1. t \in Task
    BY <1>1, <1>2 DEF Task
  <2>2. TaskInv(t, h, e, n)
    BY <1>1, <1>20 DEF ReadDb, Task, TaskInv
  <2>3. Become(a, t)
    BY <1>20 DEF ReadDb
  <2> HIDE DEF t
  <2> QED
    BY <2>1, <2>2, <2>3, TaskChanged
<1>21. CASE FixDrift(a) \/ SaveExpired(a) \/ AttachFile(a)
  BY <1>21, TaskFinished DEF FixDrift, SaveExpired, AttachFile
<1> QED
  BY <1>4, <1>5, <1>6, <1>7, <1>8, <1>9, <1>10, <1>11, <1>12, <1>13, <1>14, <1>15, <1>16, <1>17,
     <1>18, <1>19, <1>20, <1>21
     DEF Continue

LEMMA TaskStep ==
  ASSUME Inv, [Next]_vars, Grown, OutboxStepOK
  PROVE  TaskStepOK
<1> DEFINE h == Held(chain, now)
           e == chain.expiry
<1>1. ASSUME NEW a \in Actors, FetchDue(a)
      PROVE  TaskStepOK
  <2>1. PICK due \in SUBSET Pending :
           Become(a, [IdleTask EXCEPT !.pc = "next", !.origin = "outbox",
                        !.batch = {[id |-> i, attempts |-> outbox[i].attempts] : i \in due}])
    BY <1>1 DEF FetchDue
  <2> DEFINE batch == {[id |-> i, attempts |-> outbox[i].attempts] : i \in due}
             t     == [IdleTask EXCEPT !.pc = "next", !.origin = "outbox", !.batch = batch]
  <2>2. \A i \in due : i \in DOMAIN outbox /\ i \in Nat /\ outbox[i].attempts \in Nat
    <3>1. due \subseteq DOMAIN outbox /\ outbox \in Seq(OutboxRow)
      BY <2>1 DEF Pending, Inv, TypeOK
    <3>2. \A i \in DOMAIN outbox : i \in Nat /\ outbox[i] \in OutboxRow
      BY <3>1
    <3> QED
      BY <3>1, <3>2 DEF OutboxRow
  <2>3. batch \in SUBSET BatchItem /\ \A r \in batch : r.id \in DOMAIN outbox
    BY <2>2 DEF BatchItem
  <2>4. Become(a, t)
    BY <2>1
  <2> HIDE DEF batch
  <2>5. /\ t \in Task
        /\ t.pc = "next" /\ t.job = NoJob /\ t.row = 0 /\ t.batch = batch
        /\ t.doc = NoCert /\ t.view = NoView
    BY <2>3, IdleTaskType DEF Task, Places, Origins
  <2>6. /\ JobBacked(NoJob, Held(chain, now)', chain'.expiry)
        /\ NotAhead(NoCert, h, e)
        /\ ViewBacked(NoView, h, e)
    BY BlanksOK
  <2> HIDE DEF t
  <2> QED
    BY <2>3, <2>4, <2>5, <2>6, TaskBegun
<1>2. ASSUME NEW a \in Actors, StartReconcile(a)
      PROVE  TaskStepOK
  <2> DEFINE chainRead == [IdleTask EXCEPT !.pc = "dbLeft", !.origin = "reconcile",
                                           !.view = Verify(chain, now)]
             dbRead    == [IdleTask EXCEPT !.pc = "chainLeft", !.origin = "reconcile",
                                           !.doc = cert]
  <2>1. cert \in CertRecord /\ NotAhead(cert, h, e)
    BY DEF Inv, IInv, TypeOK, NeverAhead
  <2>2. /\ JobBacked(NoJob, Held(chain, now)', chain'.expiry)
        /\ NotAhead(NoCert, h, e)
        /\ ViewBacked(NoView, h, e)
    BY BlanksOK
  <2>3. CASE Become(a, chainRead)
    <3>1. /\ chainRead \in Task
          /\ chainRead.pc = "dbLeft" /\ chainRead.origin = "reconcile"
          /\ chainRead.job = NoJob /\ chainRead.row = 0 /\ chainRead.batch = {}
          /\ chainRead.doc = NoCert /\ chainRead.view = Verify(chain, now)
      BY VerifyBacked, IdleTaskType DEF Task, Places, Origins
    <3> HIDE DEF chainRead
    <3> QED
      BY <2>2, <2>3, <3>1, VerifyBacked, TaskBegun
  <2>4. CASE Become(a, dbRead)
    <3>1. /\ dbRead \in Task
          /\ dbRead.pc = "chainLeft" /\ dbRead.origin = "reconcile"
          /\ dbRead.job = NoJob /\ dbRead.row = 0 /\ dbRead.batch = {}
          /\ dbRead.doc = cert /\ dbRead.view = NoView
      BY <2>1, IdleTaskType DEF Task, Places, Origins
    <3> HIDE DEF dbRead
    <3> QED
      BY <2>1, <2>2, <2>4, <3>1, TaskBegun
  <2> QED
    BY <1>2, <2>3, <2>4 DEF StartReconcile
<1>3. ASSUME NEW a \in Actors, FindExpired(a)
      PROVE  TaskStepOK
  <2> DEFINE t == [IdleTask EXCEPT !.pc = "expire", !.origin = "expiry", !.doc = cert]
  <2>1. cert \in CertRecord /\ NotAhead(cert, h, e)
    BY DEF Inv, IInv, TypeOK, NeverAhead
  <2>2. "Expired" \in h
    BY <1>3, <2>1 DEF FindExpired, NotAhead, Held
  <2>3. /\ t \in Task
        /\ t.pc = "expire" /\ t.origin = "expiry" /\ t.job = NoJob /\ t.row = 0
        /\ t.batch = {} /\ t.doc = cert /\ t.view = NoView
    BY <2>1, IdleTaskType DEF Task, Places, Origins
  <2>4. /\ JobBacked(NoJob, Held(chain, now)', chain'.expiry)
        /\ ViewBacked(NoView, h, e)
    BY BlanksOK
  <2>5. Become(a, t)
    BY <1>3 DEF FindExpired
  <2> HIDE DEF t
  <2> QED
    BY <2>1, <2>2, <2>3, <2>4, <2>5, TaskBegun
<1>4. ASSUME NEW a \in Actors, CaptureFails(a)
      PROVE  TaskStepOK
  <2>1. JobBacked(task[a].job, Held(chain, now)', chain'.expiry)
    BY <1>4, BackedGrows DEF CaptureFails, Inv, IInv, TasksInv, TaskInv, Grown
  <2>2. "mirror" \in Places
    BY DEF Places, MirrorSteps
  <2> QED
    BY <1>4, <2>1, <2>2, TaskMoved DEF CaptureFails
<1>5. ASSUME NEW a \in Actors, ReplayFails(a)
      PROVE  TaskStepOK
  BY <1>5, TaskNextRow DEF ReplayFails
<1>6. ASSUME NEW a \in Actors, Abort(a)
      PROVE  TaskStepOK
  BY <1>6, TaskFinished DEF Abort
<1>7. CASE UNCHANGED task
  BY <1>7, TaskSame
<1> QED
  BY <1>1, <1>2, <1>3, <1>4, <1>5, <1>6, <1>7, NewRequestTask, ContinueTask DEF Next, Tick, vars

\* The bounds' counters stay natural numbers.
LEMMA LeftStep ==
  ASSUME Inv, [Next]_vars
  PROVE  left' \in [reviews : Nat, revocations : Nat, faults : Nat]
<1>1. left \in [reviews : Nat, revocations : Nat, faults : Nat]
  BY DEF Inv, TypeOK
<1>2. CASE UNCHANGED left
  BY <1>1, <1>2
<1>3. ASSUME NEW a \in Actors, Review(a) \/ AdminReview(a)
      PROVE  left' \in [reviews : Nat, revocations : Nat, faults : Nat]
  BY <1>1, <1>3 DEF Review, AdminReview, Reviewable
<1>4. ASSUME NEW a \in Actors, ApproveRevocation(a)
      PROVE  left' \in [reviews : Nat, revocations : Nat, faults : Nat]
  BY <1>1, <1>4 DEF ApproveRevocation
<1>5. CASE Fault
  BY <1>1, <1>5 DEF Fault
<1> QED
  BY <1>2, <1>3, <1>4, <1>5
     DEF Next, vars, NewRequest, Submit, IssueRequest, Continue, CommitStore, CommitReview,
         CommitIssue, Refused, Capture, LoadCertificate, MirrorNotFound, SaveStored,
         InsertStored, SaveIssued, SaveRevoked, FindForReview, SetReview, PushReview,
         ReadForDerive, SaveDerived, MarkDone, AttachFile, TakeRow, ReadChain, ReadDb, FixDrift,
         SaveExpired, FetchDue, StartReconcile, FindExpired, CaptureFails, ReplayFails, Abort,
         Tick

-----------------------------------------------------------------------------
(***************************************************************************)
(* The theorems.                                                           *)
(***************************************************************************)
LEMMA InitInv == Init => Inv
<1> SUFFICES ASSUME Init PROVE Inv
  OBVIOUS
<1>1. /\ chain.status = "Absent" /\ chain.expiry = 0 /\ now = 1
      /\ ChainType
  BY DEF Init, ChainType, StoredStatuses
<1>2. Held(chain, now) = {}
  BY <1>1 DEF Held
<1>3. /\ cert = NoCert
      /\ cert \in CertRecord
      /\ NotAhead(cert, Held(chain, now), chain.expiry)
  BY BlanksOK DEF Init
<1>4. outbox = <<>> /\ outbox \in Seq(OutboxRow) /\ Len(outbox) = 0 /\ DOMAIN outbox = {}
  BY DEF Init
<1>5. task \in [Actors -> Task] /\ TasksInv
  BY <1>4, IdleTaskType, IdleTaskOK DEF Init, TasksInv
<1>6. left \in [reviews : Nat, revocations : Nat, faults : Nat]
  BY BoundsAssumption DEF Init
<1> QED
  BY <1>1, <1>3, <1>4, <1>5, <1>6
     DEF Inv, TypeOK, IInv, ChainType, ChainInv, NeverAhead, RowsInv

LEMMA NextInv == Inv /\ [Next]_vars => Inv'
<1> SUFFICES ASSUME Inv, [Next]_vars PROVE Inv'
  OBVIOUS
<1>1. ChainType' /\ ChainInv' /\ Grown
  BY ChainStep
<1>2. OutboxStepOK
  BY <1>1, OutboxStep
<1>3. TaskStepOK
  BY <1>1, <1>2, TaskStep
<1>4. CertStepOK
  BY CertStep
<1>5. NotAhead(cert', Held(chain, now)', chain'.expiry)
  BY <1>1, <1>4, NotAheadGrows DEF Grown, CertStepOK
<1>6. left' \in [reviews : Nat, revocations : Nat, faults : Nat]
  BY LeftStep
<1> QED
  BY <1>1, <1>2, <1>3, <1>4, <1>5, <1>6
     DEF Inv, TypeOK, IInv, ChainType, OutboxStepOK, TaskStepOK, CertStepOK, NeverAhead

(***************************************************************************)
(* The inductive invariant holds in every reachable state, for any number  *)
(* of actors, officers, requests, faults.                                  *)
(***************************************************************************)
THEOREM InvCorrect == Spec => []Inv
<1>1. Inv /\ UNCHANGED vars => Inv'
  BY NextInv
<1> QED
  BY <1>1, InitInv, NextInv, PTL DEF Spec

(***************************************************************************)
(* Every variable keeps its type: what a Certificate may hold, what a row  *)
(* of the outbox and a suspended execution carry.                          *)
(***************************************************************************)
THEOREM TypeCorrect == Spec => []TypeOK
<1>1. Inv => TypeOK
  BY DEF Inv
<1> QED
  BY <1>1, InvCorrect, PTL

(***************************************************************************)
(* The Certificate is never ahead of the contract: however the handlers,   *)
(* the replays, reconcile and the expiry job interleave and fail, it shows *)
(* no lifecycle and no status the document has not had on chain.           *)
(***************************************************************************)
THEOREM NeverAheadCorrect == Spec => []NeverAhead
<1>1. Inv => NeverAhead
  BY DEF Inv, IInv
<1> QED
  BY <1>1, InvCorrect, PTL

(***************************************************************************)
(* The module implements CertificateHistory: the chain only extends the    *)
(* document's history, in the contract's order, and the Certificate shows  *)
(* one of the lifecycles of that history.                                  *)
(***************************************************************************)
LEMMA HistoryStep ==
  ASSUME Inv, Inv', [Next]_vars
  PROVE  [History!Next]_(History!vars)
<1>1. /\ ChainType /\ ChainInv /\ ChainType' /\ ChainInv' /\ Grown
  BY ChainStep DEF Inv, TypeOK, IInv, ChainType
<1>2. /\ cert'.lifecycle = "Absent" => cert.lifecycle = "Absent"
      /\ cert' # cert => UNCHANGED <<chain, now>>
  BY CertStep DEF CertStepOK
<1>3. CASE cert' = cert
  <2>1. History!Extends(Held(chain, now), Held(chain, now)')
    BY <1>1 DEF History!Extends, ChainType, ChainInv, Grown, Held, StoredStatuses
  <2> QED
    BY <1>3, <2>1 DEF History!Next, History!Grow
<1>4. CASE cert' # cert
  <2>1. Held(chain, now)' = Held(chain, now)
    BY <1>2, <1>4 DEF Held
  <2>2. cert'.lifecycle \in {"Absent"} \cup Held(chain, now)'
    BY DEF Inv, IInv, NeverAhead, NotAhead
  <2>3. CASE cert'.lifecycle = "Absent"
    BY <1>2, <2>1, <2>3 DEF History!vars
  <2>4. CASE cert'.lifecycle # "Absent"
    BY <2>1, <2>2, <2>4 DEF History!Next, History!Show
  <2> QED
    BY <2>3, <2>4
<1> QED
  BY <1>3, <1>4

THEOREM Refinement == Spec => ImplementsHistory
<1>1. Init => History!Init
  BY DEF Init, History!Init, Held, NoCert
<1>2. Inv /\ Inv' /\ [Next]_vars => [History!Next]_(History!vars)
  BY HistoryStep
<1> QED
  BY <1>1, <1>2, InvCorrect, PTL DEF Spec, ImplementsHistory, History!Spec

-----------------------------------------------------------------------------
(***************************************************************************)
(* The reviews, the outbox rows and the file, on top of Inv.               *)
(***************************************************************************)

FullInv == Inv /\ RInv

(***************************************************************************)
(* What no step takes back.                                                *)
(***************************************************************************)
CertKept ==
  /\ \A r \in Reviewers :
       PositionsOf(cert.reviews, r) # {} => PositionsOf(cert'.reviews, r) # {}
  /\ cert.lifecycle # "Absent" => cert'.lifecycle # "Absent"
  /\ cert.expiry # 0 => cert'.expiry # 0
  /\ cert.file => cert'.file

ChainKept == \A o \in Officers : chain.anchored[o] \subseteq chain'.anchored[o]

\* The entries after a step are reviews anchored before it.
EntriesBacked ==
  \A i \in DOMAIN cert'.reviews :
    cert'.reviews[i].by \in Officers
      => OpinionOf(cert'.reviews[i]) \in chain.anchored[cert'.reviews[i].by]

LEMMA ChainKeeps ==
  ASSUME Inv, [Next]_vars
  PROVE  ChainKept
<1>0. /\ chain.anchored \in [Officers -> SUBSET Opinion]
      /\ chain \in [status : StoredStatuses, expiry : Nat,
                    reviews : [Officers -> Opinion \cup {NoOpinion}],
                    anchored : [Officers -> SUBSET Opinion]]
  BY DEF Inv, TypeOK
<1>1. CASE UNCHANGED chain
  BY <1>1 DEF ChainKept
<1>2. ASSUME NEW a \in Actors, ApproveRevocation(a) \/ CommitStore(a) \/ CommitIssue(a)
      PROVE  ChainKept
  <2>1. chain'.anchored = chain.anchored
    BY <1>0, <1>2 DEF ApproveRevocation, CommitStore, CommitIssue, Revoke, Store, Issue
  <2> QED
    BY <2>1 DEF ChainKept
<1>3. ASSUME NEW a \in Actors, CommitReview(a)
      PROVE  ChainKept
  <2> DEFINE by == task[a].job.by
             x  == OpinionOf(task[a].job)
  <2>1. chain' = [chain EXCEPT !.reviews[by] = x, !.anchored[by] = @ \cup {x}]
    BY <1>3 DEF CommitReview, SubmitReview
  <2> HIDE DEF by, x
  <2>2. chain'.anchored = [chain.anchored EXCEPT ![by] = @ \cup {x}]
    BY <2>1 DEF Inv, TypeOK
  <2> QED
    BY <1>0, <2>2 DEF ChainKept
<1> QED
  BY <1>1, <1>2, <1>3
     DEF Next, vars, NewRequest, Submit, Review, AdminReview, IssueRequest, Continue, Refused,
         Capture, LoadCertificate, MirrorNotFound, SaveStored, InsertStored, SaveIssued,
         SaveRevoked, FindForReview, SetReview, PushReview, ReadForDerive, SaveDerived, MarkDone,
         AttachFile, TakeRow, ReadChain, ReadDb, FixDrift, SaveExpired, FetchDue, StartReconcile,
         FindExpired, CaptureFails, ReplayFails, Abort, Tick

-----------------------------------------------------------------------------
(***************************************************************************)
(* The Certificate.                                                        *)
(***************************************************************************)
CertMoves == CertKept /\ AbsentIsBlank' /\ OneEntryPerReviewer' /\ EntriesBacked

LEMMA CertStays ==
  ASSUME FullInv, UNCHANGED cert
  PROVE  CertMoves
BY DEF FullInv, RInv, CertMoves, CertKept, AbsentIsBlank, OneEntryPerReviewer,
       EntriesBacked, EntriesAreAnchored

\* A step that leaves the reviews alone, of a Certificate that exists.
LEMMA CertFieldsMove ==
  ASSUME FullInv, cert'.reviews = cert.reviews,
         cert'.lifecycle # "Absent",
         cert.expiry # 0 => cert'.expiry # 0,
         cert.file => cert'.file
  PROVE  CertMoves
BY DEF FullInv, RInv, CertMoves, CertKept, AbsentIsBlank, OneEntryPerReviewer,
       EntriesBacked, EntriesAreAnchored

\* save() of a document that was loaded and kept its file.
LEMMA CertMerged ==
  ASSUME FullInv, NEW loaded \in CertRecord, NEW saved \in CertRecord,
         cert.lifecycle # "Absent", saved.lifecycle # "Absent",
         saved.file = loaded.file,
         saved.expiry = loaded.expiry \/ saved.expiry # 0,
         cert' = Merge(cert, loaded, saved)
  PROVE  CertMoves
<1>1. cert \in CertRecord
  BY DEF FullInv, Inv, TypeOK
<1>2. /\ cert'.reviews = cert.reviews
      /\ cert'.lifecycle # "Absent"
      /\ cert.expiry # 0 => cert'.expiry # 0
      /\ cert'.file = cert.file
  BY <1>1 DEF Merge
<1> QED
  BY <1>2, CertFieldsMove

LEMMA RecomputeKeeps ==
  ASSUME NEW d \in CertRecord
  PROVE  /\ Recompute(d) \in CertRecord
         /\ Recompute(d).lifecycle = d.lifecycle
         /\ Recompute(d).expiry = d.expiry
         /\ Recompute(d).file = d.file
         /\ Recompute(d).reviews = d.reviews
BY RecomputeType DEF Recompute, CertRecord

\* The reviewer of an entry that replaces one, or is added, is its job's.
LEMMA EntrySays ==
  ASSUME FullInv, NEW a \in Actors, task[a].job.op = "review", task[a].pc # "commit"
  PROVE  /\ EntryOf(a).by = task[a].job.by
         /\ EntryOf(a).by \in Officers
              => OpinionOf(EntryOf(a)) \in chain.anchored[EntryOf(a).by]
<1>1. EntryOf(a).by = task[a].job.by /\ OpinionOf(EntryOf(a)) = OpinionOf(task[a].job)
  BY DEF EntryOf, OpinionOf
<1> QED
  BY <1>1 DEF FullInv, RInv, TasksRest, TaskRests, JobAnchored

LEMMA CertMovesStep ==
  ASSUME FullInv, [Next]_vars
  PROVE  CertMoves
<1>0. /\ cert \in CertRecord
      /\ task \in [Actors -> Task]
      /\ \A a \in Actors : /\ task[a].doc \in CertRecord
                           /\ task[a].job.expiry \in Nat
                           /\ task[a].view \in View
                           /\ TaskRests(task[a], cert, chain, outbox)
                           /\ TaskInv(task[a], Held(chain, now), chain.expiry, Len(outbox))
  BY DEF FullInv, Inv, TypeOK, IInv, TasksInv, RInv, TasksRest, Task, Job
<1>1. CASE UNCHANGED cert
  BY <1>1, CertStays
<1>2. ASSUME NEW a \in Actors, SaveStored(a)
      PROVE  CertMoves
  <2> DEFINE d == [task[a].doc EXCEPT !.lifecycle = "Submitted"]
  <2>1. d \in CertRecord /\ d.lifecycle = "Submitted" /\ d.expiry = task[a].doc.expiry
        /\ d.file = task[a].doc.file
    BY <1>0 DEF CertRecord, Lifecycles
  <2>2. cert' = Merge(cert, task[a].doc, Recompute(d))
    BY <1>2 DEF SaveStored
  <2>3. cert.lifecycle # "Absent"
    BY <1>0, <1>2 DEF SaveStored, Mirroring, TaskRests, FoundCert
  <2> HIDE DEF d
  <2> QED
    BY <1>0, <2>1, <2>2, <2>3, RecomputeKeeps, CertMerged
<1>3. ASSUME NEW a \in Actors, InsertStored(a)
      PROVE  CertMoves
  <2>1. CASE cert.lifecycle = "Absent"
    <3> DEFINE d == [NoCert EXCEPT !.lifecycle = "Submitted"]
    <3>1. d \in CertRecord /\ d.reviews = <<>> /\ d.lifecycle = "Submitted"
      <4>1. NoCert \in CertRecord /\ NoCert.reviews = <<>>
        BY NoCertType DEF NoCert
      <4> QED
        BY <4>1 DEF CertRecord, Lifecycles
    <3>2. cert' = Recompute(d)
      BY <1>3, <2>1 DEF InsertStored
    <3> HIDE DEF d
    <3>3. cert'.reviews = <<>> /\ cert'.lifecycle = "Submitted"
      BY <3>1, <3>2, RecomputeKeeps
    <3>4. cert.reviews = <<>> /\ cert.expiry = 0 /\ ~cert.file
      BY <2>1 DEF FullInv, RInv, AbsentIsBlank
    <3> QED
      BY <3>3, <3>4, CertFieldsMove
  <2>2. CASE cert.lifecycle # "Absent"
    BY <1>1, <1>3, <2>2 DEF InsertStored
  <2> QED
    BY <2>1, <2>2
<1>4. ASSUME NEW a \in Actors, SaveIssued(a)
      PROVE  CertMoves
  <2> DEFINE d == [task[a].doc EXCEPT !.lifecycle = "Issued", !.expiry = task[a].job.expiry]
  <2>1. task[a].job.expiry # 0 /\ cert.lifecycle # "Absent"
    BY <1>0, <1>4 DEF SaveIssued, Mirroring, TaskInv, JobBacked, TaskRests, FoundCert
  <2>2. d \in CertRecord /\ d.lifecycle = "Issued" /\ d.expiry # 0 /\ d.file = task[a].doc.file
    BY <1>0, <2>1 DEF CertRecord, Lifecycles
  <2>3. cert' = Merge(cert, task[a].doc, Recompute(d))
    BY <1>4 DEF SaveIssued
  <2> HIDE DEF d
  <2> QED
    BY <1>0, <2>1, <2>2, <2>3, RecomputeKeeps, CertMerged
<1>5. ASSUME NEW a \in Actors, SaveRevoked(a)
      PROVE  CertMoves
  <2> DEFINE d == [task[a].doc EXCEPT !.lifecycle = "Revoked"]
  <2>1. cert.lifecycle # "Absent"
    BY <1>0, <1>5 DEF SaveRevoked, Mirroring, TaskRests, FoundCert
  <2>2. d \in CertRecord /\ d.lifecycle = "Revoked" /\ d.expiry = task[a].doc.expiry
        /\ d.file = task[a].doc.file
    BY <1>0 DEF CertRecord, Lifecycles
  <2>3. cert' = Merge(cert, task[a].doc, Recompute(d))
    BY <1>5 DEF SaveRevoked
  <2> HIDE DEF d
  <2> QED
    BY <1>0, <2>1, <2>2, <2>3, RecomputeKeeps, CertMerged
<1>6. ASSUME NEW a \in Actors, SetReview(a)
      PROVE  CertMoves
  <2> DEFINE r == task[a].job.by
             i == CHOOSE i \in PositionsOf(cert.reviews, r) : TRUE
  <2>1. CASE PositionsOf(cert.reviews, r) = {}
    BY <1>1, <1>6, <2>1 DEF SetReview
  <2>2. CASE PositionsOf(cert.reviews, r) # {}
    <3>1. i \in DOMAIN cert.reviews /\ cert.reviews[i].by = r
      BY <2>2 DEF PositionsOf
    <3>2. cert' = [cert EXCEPT !.reviews[i] = EntryOf(a)]
      BY <1>6, <2>2 DEF SetReview
    <3>3. /\ cert.lifecycle # "Absent"
          /\ task[a].job.op = "review"
          /\ task[a].pc # "commit"
      BY <1>0, <1>6 DEF SetReview, TaskRests, FoundCert, TaskInv
    <3>4. /\ EntryOf(a).by = r
          /\ r \in Officers => OpinionOf(EntryOf(a)) \in chain.anchored[r]
      BY <3>3, EntrySays
    <3> HIDE DEF i, r
    <3>5. /\ cert'.reviews = [cert.reviews EXCEPT ![i] = EntryOf(a)]
          /\ cert'.lifecycle = cert.lifecycle
          /\ cert'.expiry = cert.expiry
          /\ cert'.file = cert.file
      BY <1>0, <3>2 DEF CertRecord
    <3>6. \A j \in DOMAIN cert.reviews : cert'.reviews[j].by = cert.reviews[j].by
      BY <1>0, <3>1, <3>4, <3>5 DEF CertRecord
    <3>7. DOMAIN cert'.reviews = DOMAIN cert.reviews
      BY <1>0, <3>5 DEF CertRecord
    <3>8. CertKept
      BY <3>3, <3>5, <3>6, <3>7 DEF CertKept, PositionsOf
    <3>9. AbsentIsBlank'
      BY <3>3, <3>5 DEF AbsentIsBlank
    <3>10. OneEntryPerReviewer'
      BY <3>6, <3>7 DEF FullInv, RInv, OneEntryPerReviewer
    <3>11. EntriesBacked
      <4> SUFFICES ASSUME NEW j \in DOMAIN cert'.reviews, cert'.reviews[j].by \in Officers
                   PROVE  OpinionOf(cert'.reviews[j]) \in chain.anchored[cert'.reviews[j].by]
        BY DEF EntriesBacked
      <4>1. CASE j = i
        BY <1>0, <3>1, <3>4, <3>5, <4>1 DEF CertRecord
      <4>2. CASE j # i
        BY <1>0, <3>5, <3>7, <4>2 DEF CertRecord, FullInv, RInv, EntriesAreAnchored
      <4> QED
        BY <4>1, <4>2
    <3> QED
      BY <3>8, <3>9, <3>10, <3>11 DEF CertMoves
  <2> QED
    BY <2>1, <2>2
<1>7. ASSUME NEW a \in Actors, PushReview(a)
      PROVE  CertMoves
  <2> DEFINE r == task[a].job.by
  <2>1. CASE PositionsOf(cert.reviews, r) # {}
    BY <1>1, <1>7, <2>1 DEF PushReview
  <2>2. CASE PositionsOf(cert.reviews, r) = {}
    <3>1. cert' = [cert EXCEPT !.reviews = Append(cert.reviews, EntryOf(a))]
      BY <1>0, <1>7, <2>2 DEF PushReview
    <3>2. /\ cert.lifecycle # "Absent"
          /\ task[a].job.op = "review"
          /\ task[a].pc # "commit"
      BY <1>0, <1>7 DEF PushReview, TaskRests, FoundCert, TaskInv
    <3>3. /\ EntryOf(a).by = r
          /\ r \in Officers => OpinionOf(EntryOf(a)) \in chain.anchored[r]
      BY <3>2, EntrySays
    <3>4. \A j \in DOMAIN cert.reviews : cert.reviews[j].by # r
      BY <2>2 DEF PositionsOf
    <3>5. EntryOf(a) \in Entry
      BY <3>2, EntryType DEF FullInv
    <3> DEFINE n == Len(cert.reviews) + 1
    <3> HIDE DEF r
    <3>6. /\ cert'.reviews = Append(cert.reviews, EntryOf(a))
          /\ cert'.lifecycle = cert.lifecycle
          /\ cert'.expiry = cert.expiry
          /\ cert'.file = cert.file
      BY <1>0, <3>1 DEF CertRecord
    <3>7. /\ DOMAIN cert'.reviews = DOMAIN cert.reviews \cup {n}
          /\ n \notin DOMAIN cert.reviews
          /\ \A j \in DOMAIN cert.reviews : cert'.reviews[j] = cert.reviews[j]
          /\ cert'.reviews[n] = EntryOf(a)
      BY <1>0, <3>5, <3>6 DEF CertRecord
    <3> HIDE DEF n
    <3>8. CertKept
      BY <3>2, <3>6, <3>7 DEF CertKept, PositionsOf
    <3>9. AbsentIsBlank'
      BY <3>2, <3>6 DEF AbsentIsBlank
    <3>10. OneEntryPerReviewer'
      BY <3>3, <3>4, <3>7 DEF FullInv, RInv, OneEntryPerReviewer
    <3>11. EntriesBacked
      BY <3>3, <3>7 DEF FullInv, RInv, EntriesAreAnchored, EntriesBacked
    <3> QED
      BY <3>8, <3>9, <3>10, <3>11 DEF CertMoves
  <2> QED
    BY <2>1, <2>2
<1>8. ASSUME NEW a \in Actors, SaveDerived(a)
      PROVE  CertMoves
  <2>1. cert.lifecycle # "Absent"
    BY <1>0, <1>8 DEF SaveDerived, Mirroring, TaskRests, FoundCert
  <2>2. cert' = [cert EXCEPT !.status = Recompute(task[a].doc).status,
                             !.score = Recompute(task[a].doc).score]
    BY <1>8 DEF SaveDerived
  <2>3. /\ cert'.lifecycle = cert.lifecycle
        /\ cert'.expiry = cert.expiry
        /\ cert'.file = cert.file
        /\ cert'.reviews = cert.reviews
    BY <1>0, <2>2 DEF CertRecord
  <2> QED
    BY <2>1, <2>3, CertFieldsMove
<1>9. ASSUME NEW a \in Actors, FixDrift(a)
      PROVE  CertMoves
  <2> DEFINE loaded == task[a].doc
             life   == task[a].view.lifecycle
             status == ComposeStatus(life, LatestDecision(loaded.reviews))
             expiry == IF task[a].view.expiry = 0 THEN loaded.expiry ELSE task[a].view.expiry
             saved  == [loaded EXCEPT !.lifecycle = life, !.status = status,
                                      !.expiry = expiry]
  <2>1. CASE life = "Absent"
    BY <1>1, <1>9, <2>1 DEF FixDrift
  <2>2. CASE life # "Absent"
    <3>1. cert' = Merge(cert, loaded, saved)
      BY <1>0, <1>9, <2>2 DEF FixDrift
    <3>2. cert.lifecycle # "Absent"
      BY <1>0, <1>9 DEF FixDrift, TaskRests, FoundCert
    <3>3. /\ loaded \in CertRecord
          /\ life \in Lifecycles \cup {"Absent"}
          /\ expiry \in Nat
          /\ expiry = loaded.expiry \/ expiry # 0
      BY <1>0 DEF View, CertRecord
    <3>4. status \in DocStatuses
      BY ComposeType
    <3> HIDE DEF loaded, life, status, expiry
    <3>5. /\ saved \in CertRecord
          /\ saved.lifecycle = life
          /\ saved.file = loaded.file
          /\ saved.expiry = expiry
      BY <3>3, <3>4 DEF CertRecord
    <3> HIDE DEF saved
    <3> QED
      BY <2>2, <3>1, <3>2, <3>3, <3>5, CertMerged
  <2> QED
    BY <2>1, <2>2
<1>10. ASSUME NEW a \in Actors, SaveExpired(a)
       PROVE  CertMoves
  <2> DEFINE saved == [task[a].doc EXCEPT !.status = "expired", !.lifecycle = "Expired"]
  <2>1. /\ saved \in CertRecord
        /\ saved.lifecycle = "Expired"
        /\ saved.expiry = task[a].doc.expiry
        /\ saved.file = task[a].doc.file
    BY <1>0 DEF CertRecord, Lifecycles, DocStatuses
  <2>2. cert' = Merge(cert, task[a].doc, saved)
    BY <1>10 DEF SaveExpired
  <2>3. cert.lifecycle # "Absent"
    BY <1>0, <1>10 DEF SaveExpired, TaskRests, FoundCert
  <2> HIDE DEF saved
  <2> QED
    BY <1>0, <2>1, <2>2, <2>3, CertMerged
<1>11. ASSUME NEW a \in Actors, AttachFile(a)
       PROVE  CertMoves
  <2>1. cert.lifecycle # "Absent"
    BY <1>0, <1>11 DEF AttachFile, TaskRests, FoundCert
  <2>2. /\ cert'.lifecycle = cert.lifecycle
        /\ cert'.expiry = cert.expiry
        /\ cert'.file = TRUE
        /\ cert'.reviews = cert.reviews
    BY <1>0, <1>11 DEF AttachFile, CertRecord
  <2> QED
    BY <2>1, <2>2, CertFieldsMove
<1> QED
  BY <1>1, <1>2, <1>3, <1>4, <1>5, <1>6, <1>7, <1>8, <1>9, <1>10, <1>11
     DEF Next, vars, NewRequest, Submit, Review, AdminReview, IssueRequest, ApproveRevocation,
         Continue, CommitStore, CommitReview, CommitIssue, Refused, Capture, LoadCertificate,
         MirrorNotFound, FindForReview, ReadForDerive, MarkDone, TakeRow, ReadChain, ReadDb,
         FetchDue, StartReconcile, FindExpired, CaptureFails, ReplayFails, Abort, Tick

-----------------------------------------------------------------------------
(***************************************************************************)
(* What rests on what stays rests on it.                                   *)
(***************************************************************************)
\* One step, for what an execution or a row relies on.
Kept ==
  /\ ChainKept
  /\ CertKept
  /\ chain.expiry = 0 \/ chain'.expiry = chain.expiry
  /\ cert.expiry \in {0, chain.expiry} /\ cert'.expiry \in {0, chain'.expiry}

\* j is mirrored for good once it is.
LEMMA MirroredStays ==
  ASSUME Kept, NEW j \in Job, NEW held, JobBacked(j, held, chain.expiry),
         Mirrored(j, cert, chain)
  PROVE  Mirrored(j, cert', chain')
<1>1. j.op = "issue" => chain.expiry # 0
  BY DEF JobBacked
<1>2. j.by \in Reviewers
  BY DEF Job, Reviewers
<1> QED
  BY <1>1, <1>2 DEF Mirrored, Kept, CertKept

LEMMA AnchoredStays ==
  ASSUME Kept, NEW j, JobAnchored(j, chain)
  PROVE  JobAnchored(j, chain')
BY DEF JobAnchored, Kept, ChainKept

LEMMA ApprovedStays ==
  ASSUME Kept, Approved(chain, cert.reviews)
  PROVE  Approved(chain', cert'.reviews)
<1>1. MainAdmin \in Reviewers
  BY DEF Reviewers
<1> QED
  BY <1>1 DEF Approved, Kept, ChainKept, CertKept

LEMMA RestsStays ==
  ASSUME Kept, NEW t \in Task, NEW held,
         TaskInv(t, held, chain.expiry, Len(outbox)),
         TaskRests(t, cert, chain, outbox),
         outbox \in Seq(OutboxRow),
         \A i \in DOMAIN outbox : outbox'[i].job = outbox[i].job
  PROVE  TaskRests(t, cert', chain', outbox')
<1>1. t.job \in Job /\ t.job.by \in Reviewers
  BY DEF Task, Job, Reviewers
<1>2. t.pc = "commit" /\ t.job.op = "issue" => Approved(chain', cert'.reviews)
  BY ApprovedStays DEF TaskRests
<1>3. t.pc # "commit" => JobAnchored(t.job, chain')
  BY AnchoredStays DEF TaskRests
<1>4. t.pc = "mark" => Mirrored(t.job, cert', chain')
  BY <1>1, MirroredStays DEF TaskRests, TaskInv
<1>5. t.row # 0 => outbox'[t.row].job = t.job
  BY DEF TaskRests, TaskInv
<1> QED
  BY <1>1, <1>2, <1>3, <1>4, <1>5 DEF TaskRests, Kept, CertKept

LEMMA KeptStep ==
  ASSUME FullInv, Inv', [Next]_vars
  PROVE  Kept /\ CertMoves /\ OutboxStepOK
<1>1. Grown /\ OutboxStepOK
  BY ChainStep, OutboxStep DEF FullInv
<1>2. /\ cert.expiry \in {0, chain.expiry}
      /\ cert'.expiry \in {0, chain'.expiry}
  BY DEF FullInv, Inv, IInv, NeverAhead, NotAhead
<1>3. CertMoves /\ ChainKept
  BY CertMovesStep, ChainKeeps DEF FullInv
<1> QED
  BY <1>1, <1>2, <1>3 DEF Kept, CertMoves, Grown

-----------------------------------------------------------------------------
(***************************************************************************)
(* The actors.                                                             *)
(***************************************************************************)
Moving == FullInv /\ Inv' /\ Kept /\ CertMoves /\ OutboxStepOK

\* What a task rested on before the step it rests on after it.
LEMMA OldRests ==
  ASSUME Moving, NEW b \in Actors
  PROVE  TaskRests(task[b], cert', chain', outbox')
<1>1. /\ task[b] \in Task
      /\ TaskInv(task[b], Held(chain, now), chain.expiry, Len(outbox))
      /\ TaskRests(task[b], cert, chain, outbox)
      /\ outbox \in Seq(OutboxRow)
  BY DEF Moving, FullInv, Inv, TypeOK, IInv, TasksInv, RInv, TasksRest
<1> QED
  BY <1>1, RestsStays DEF Moving, OutboxStepOK

LEMMA RestsChanged ==
  ASSUME Moving, NEW a \in Actors, NEW t, Become(a, t),
         TaskRests(t, cert', chain', outbox')
  PROVE  TasksRest'
<1>1. task \in [Actors -> Task]
  BY DEF Moving, FullInv, Inv, TypeOK
<1>2. task' = [task EXCEPT ![a] = t]
  BY DEF Become
<1>3. \A b \in Actors : TaskRests(task'[b], cert', chain', outbox')
  BY <1>1, <1>2, OldRests
<1> QED
  BY <1>3 DEF TasksRest

LEMMA RestsSame ==
  ASSUME Moving, UNCHANGED task
  PROVE  TasksRest'
BY OldRests DEF TasksRest

\* An execution that ends, or goes back to the head of processOutbox's loop,
\* rests on nothing.
LEMMA FreeRests ==
  ASSUME NEW t, NEW c, NEW doc, NEW rows, t.pc \in {"idle", "next"},
         t.job = NoJob, t.doc = NoCert, t.row = 0
  PROVE  TaskRests(t, c, doc, rows)
BY DEF TaskRests, FoundCert, JobAnchored, NoJob, NoCert

LEMMA FinishRests ==
  ASSUME Moving, NEW a \in Actors, Finish(a)
  PROVE  TasksRest'
<1>1. TaskRests(IdleTask, cert', chain', outbox')
  BY FreeRests, IdleTaskType DEF IdleTask
<1> QED
  BY <1>1, RestsChanged DEF Finish

LEMMA NextRowRests ==
  ASSUME Moving, NEW a \in Actors, NextRow(a)
  PROVE  TasksRest'
<1>1. CASE task[a].batch = {}
  BY <1>1, FinishRests DEF NextRow
<1>2. CASE task[a].batch # {}
  <2> DEFINE t == [IdleTask EXCEPT !.pc = "next", !.origin = "outbox", !.batch = task[a].batch]
  <2>1. t.pc = "next" /\ t.job = NoJob /\ t.doc = NoCert /\ t.row = 0
    BY DEF IdleTask
  <2>2. Become(a, t)
    BY <1>2 DEF NextRow
  <2> HIDE DEF t
  <2>3. TaskRests(t, cert', chain', outbox')
    BY <2>1, FreeRests
  <2> QED
    BY <2>2, <2>3, RestsChanged
<1> QED
  BY <1>1, <1>2

LEMMA ThrowRests ==
  ASSUME Moving, NEW a \in Actors, Throw(a)
  PROVE  TasksRest'
BY NextRowRests, FinishRests DEF Throw

\* The actor moves to a place that asks for no more than it already has.
LEMMA MovedRests ==
  ASSUME Moving, NEW a \in Actors, NEW pc \in Places \ {"commit", "mark"}, GoTo(a, pc),
         pc \in {"set", "push", "derive", "attach", "chainLeft", "dbLeft", "fix", "expire"}
           => cert'.lifecycle # "Absent",
         pc = "derive" => PositionsOf(cert'.reviews, task[a].job.by) # {},
         pc # "save",
         JobAnchored(task[a].job, chain')
  PROVE  TasksRest'
<1> DEFINE t == [task[a] EXCEPT !.pc = pc]
<1>1. task[a] \in Task
  BY DEF Moving, FullInv, Inv, TypeOK
<1>2. TaskRests(task[a], cert', chain', outbox')
  BY OldRests
<1>3. /\ t.pc = pc
      /\ t.job = task[a].job
      /\ t.doc = task[a].doc
      /\ t.row = task[a].row
  BY <1>1 DEF Task
<1>4. Become(a, t)
  BY DEF GoTo
<1> HIDE DEF t
<1>5. TaskRests(t, cert', chain', outbox')
  BY <1>2, <1>3 DEF TaskRests, FoundCert
<1> QED
  BY <1>4, <1>5, RestsChanged

LEMMA ReplyRests ==
  ASSUME Moving, NEW a \in Actors, Reply(a), task[a].pc # "commit",
         task[a].job.op = "store" => cert'.lifecycle # "Absent"
  PROVE  TasksRest'
<1>1. CASE task[a].job.op # "store"
  BY <1>1, FinishRests DEF Reply
<1>2. CASE task[a].job.op = "store"
  <2> DEFINE t == [task[a] EXCEPT !.pc = "attach", !.row = 0, !.doc = NoCert]
  <2>1. task[a] \in Task
    BY DEF Moving, FullInv, Inv, TypeOK
  <2>2. t.pc = "attach" /\ t.job = task[a].job /\ t.doc = NoCert /\ t.row = 0
    BY <2>1 DEF Task
  <2>3. Become(a, t)
    BY <1>2 DEF Reply
  <2> HIDE DEF t
  <2>4. TaskRests(t, cert', chain', outbox')
    BY <1>2, <2>2 DEF TaskRests, FoundCert, JobAnchored, NoCert
  <2> QED
    BY <2>3, <2>4, RestsChanged
<1> QED
  BY <1>1, <1>2

\* A mirror has run: its row, if there is one, may be marked.
LEMMA MirroredRests ==
  ASSUME Moving, NEW a \in Actors, AfterMirror(a), task[a].pc # "commit",
         Mirrored(task[a].job, cert', chain')
  PROVE  TasksRest'
<1>1. CASE task[a].row = 0
  BY <1>1, ReplyRests DEF AfterMirror, Mirrored
<1>2. CASE task[a].row # 0
  <2> DEFINE t == [task[a] EXCEPT !.pc = "mark", !.doc = NoCert, !.date = 0]
  <2>1. task[a] \in Task
    BY DEF Moving, FullInv, Inv, TypeOK
  <2>2. TaskRests(task[a], cert', chain', outbox')
    BY OldRests
  <2>3. t.pc = "mark" /\ t.job = task[a].job /\ t.doc = NoCert /\ t.row = task[a].row
    BY <2>1 DEF Task
  <2>4. Become(a, t)
    BY <1>2 DEF AfterMirror
  <2> HIDE DEF t
  <2>5. TaskRests(t, cert', chain', outbox')
    BY <2>2, <2>3 DEF TaskRests, FoundCert, NoCert
  <2> QED
    BY <2>4, <2>5, RestsChanged
<1> QED
  BY <1>1, <1>2

\* The actor goes on with the Certificate it has just read, which exists unless
\* it is mirrorStoredDocument that looked for it.
LEMMA LoadedRests ==
  ASSUME Moving, NEW a \in Actors, NEW pc \in {"save", "fix"}, UNCHANGED cert,
         Become(a, [task[a] EXCEPT !.pc = pc, !.doc = cert]),
         task[a].pc # "commit",
         cert.lifecycle = "Absent" => pc = "save" /\ task[a].job.op = "store",
         pc = "save" /\ task[a].job.op = "review"
           => PositionsOf(cert.reviews, task[a].job.by) # {}
  PROVE  TasksRest'
<1> DEFINE t == [task[a] EXCEPT !.pc = pc, !.doc = cert]
<1>1. task[a] \in Task
  BY DEF Moving, FullInv, Inv, TypeOK
<1>2. TaskRests(task[a], cert', chain', outbox')
  BY OldRests
<1>3. t.pc = pc /\ t.job = task[a].job /\ t.doc = cert /\ t.row = task[a].row
  BY <1>1 DEF Task
<1>4. Become(a, t)
  OBVIOUS
<1> HIDE DEF t
<1>5. TaskRests(t, cert', chain', outbox')
  BY <1>2, <1>3 DEF TaskRests, FoundCert
<1> QED
  BY <1>4, <1>5, RestsChanged

\* A run of a job begins.
LEMMA BegunRests ==
  ASSUME Moving, NEW a \in Actors, NEW t, Become(a, t), UNCHANGED cert,
         t.pc \in {"dbLeft", "chainLeft", "expire"},
         t.job = NoJob, t.row = 0, t.doc \in {NoCert, cert},
         cert.lifecycle # "Absent"
  PROVE  TasksRest'
<1>1. TaskRests(t, cert', chain', outbox')
  BY DEF TaskRests, FoundCert, JobAnchored, NoJob, NoCert
<1> QED
  BY <1>1, RestsChanged

\* A request begins.
LEMMA RequestRests ==
  ASSUME Moving, NEW a \in Actors, NEW pc \in {"commit", "mirror"}, NEW job,
         Request(a, pc, job),
         pc = "commit" /\ job.op = "issue" => Approved(chain', cert'.reviews),
         pc = "mirror" => JobAnchored(job, chain')
  PROVE  TasksRest'
<1> DEFINE t == [IdleTask EXCEPT !.pc = pc, !.origin = "request", !.job = job]
<1>1. t.pc = pc /\ t.job = job /\ t.doc = NoCert /\ t.row = 0
  BY DEF IdleTask
<1>2. Become(a, t)
  BY DEF Request
<1> HIDE DEF t
<1>3. TaskRests(t, cert', chain', outbox')
  BY <1>1 DEF TaskRests, FoundCert, NoCert
<1> QED
  BY <1>2, <1>3, RestsChanged

\* Who passes the issuing gate has an approval behind the decision it read.
LEMMA GateApproved ==
  ASSUME FullInv, IsIssuable(LatestDecision(cert.reviews))
  PROVE  Approved(chain, cert.reviews)
<1> DEFINE i == CHOOSE i \in LatestPositions(cert.reviews) : TRUE
<1>1. LatestPositions(cert.reviews) # {}
  BY DEF LatestDecision, IsIssuable, NormalizeDecision, ReviewDecisions
<1>2. i \in DOMAIN cert.reviews
  BY <1>1 DEF LatestPositions
<1>3. IsIssuable(cert.reviews[i].decision)
  BY <1>1 DEF LatestDecision
<1> HIDE DEF i
<1>4. cert.reviews[i] \in Entry
  BY <1>2 DEF FullInv, Inv, TypeOK, CertRecord
<1>5. CASE cert.reviews[i].by \in Officers
  <2>1. OpinionOf(cert.reviews[i]) \in chain.anchored[cert.reviews[i].by]
    BY <1>2, <1>5 DEF FullInv, RInv, EntriesAreAnchored
  <2>2. OpinionOf(cert.reviews[i]).decision = cert.reviews[i].decision
    BY DEF OpinionOf
  <2> QED
    BY <1>3, <1>5, <2>1, <2>2 DEF Approved
<1>6. CASE cert.reviews[i].by = MainAdmin
  BY <1>2, <1>6 DEF Approved, PositionsOf
<1> QED
  BY <1>4, <1>5, <1>6 DEF Entry, Reviewers

LEMMA NewRequestRests ==
  ASSUME Moving, NEW a \in Actors, NewRequest(a)
  PROVE  TasksRest'
<1>1. CASE Submit(a)
  BY <1>1, RequestRests DEF Submit, StoreJob, NoJob
<1>2. CASE Review(a)
  <2>1. PICK o \in Officers, x \in Opinions : Request(a, "commit", ReviewJob(o, x))
    BY <1>2 DEF Review
  <2>2. ReviewJob(o, x).op = "review"
    BY DEF ReviewJob, NoJob
  <2> QED
    BY <2>1, <2>2, RequestRests
<1>3. CASE AdminReview(a)
  <2>1. PICK x \in Opinions : Request(a, "mirror", ReviewJob(MainAdmin, x))
    BY <1>3 DEF AdminReview
  <2>2. JobAnchored(ReviewJob(MainAdmin, x), chain')
    BY MainAdminAssumption DEF JobAnchored, ReviewJob, NoJob
  <2> QED
    BY <2>1, <2>2, RequestRests
<1>4. CASE IssueRequest(a)
  <2>1. Approved(chain', cert'.reviews)
    BY <1>4, GateApproved DEF IssueRequest, Moving
  <2>2. PICK e \in now..MaxExpiry : Request(a, "commit", IssueJob(e))
    BY <1>4 DEF IssueRequest
  <2> QED
    BY <2>1, <2>2, RequestRests
<1>5. CASE ApproveRevocation(a)
  <2>1. JobAnchored(RevokeJob, chain')
    BY DEF JobAnchored, RevokeJob, NoJob
  <2> QED
    BY <1>5, <2>1, RequestRests DEF ApproveRevocation
<1> QED
  BY <1>1, <1>2, <1>3, <1>4, <1>5 DEF NewRequest

LEMMA ContinueRests ==
  ASSUME Moving, NEW a \in Actors, Continue(a)
  PROVE  TasksRest'
<1> DEFINE job == task[a].job
<1>0. /\ task[a] \in Task
      /\ TaskInv(task[a], Held(chain, now), chain.expiry, Len(outbox))
      /\ TaskRests(task[a], cert, chain, outbox)
      /\ TaskRests(task[a], cert', chain', outbox')
      /\ outbox \in Seq(OutboxRow)
  BY OldRests DEF Moving, FullInv, Inv, TypeOK, IInv, TasksInv, RInv, TasksRest
<1>1. CertKept /\ job.by \in Reviewers
  BY <1>0 DEF Moving, Kept, Task, Job, Reviewers
<1>2. {"capture", "mirror", "set", "push", "derive", "attach", "save", "fix"} \subseteq Places
  BY DEF Places, MirrorSteps
<1>3. CASE CommitStore(a) \/ CommitIssue(a)
  <2>1. JobAnchored(job, chain')
    BY <1>3 DEF CommitStore, CommitIssue, Committing, JobAnchored
  <2> QED
    BY <1>2, <1>3, <2>1, MovedRests DEF CommitStore, CommitIssue
<1>4. CASE CommitReview(a)
  <2>1. chain' = [chain EXCEPT !.reviews[job.by] = OpinionOf(job),
                               !.anchored[job.by] = @ \cup {OpinionOf(job)}]
    BY <1>4 DEF CommitReview, SubmitReview
  <2>2. /\ chain \in [status : StoredStatuses, expiry : Nat,
                      reviews : [Officers -> Opinion \cup {NoOpinion}],
                      anchored : [Officers -> SUBSET Opinion]]
    BY DEF Moving, FullInv, Inv, TypeOK
  <2>3. chain'.anchored = [chain.anchored EXCEPT ![job.by] = @ \cup {OpinionOf(job)}]
    BY <2>1, <2>2
  <2>4. JobAnchored(job, chain')
    BY <2>2, <2>3 DEF JobAnchored
  <2> QED
    BY <1>2, <1>4, <2>4, MovedRests DEF CommitReview
<1>5. CASE Refused(a) \/ FixDrift(a) \/ SaveExpired(a) \/ AttachFile(a)
  BY <1>5, FinishRests DEF Refused, FixDrift, SaveExpired, AttachFile
<1>6. CASE Capture(a)
  <2> DEFINE row == Len(outbox) + 1
             t   == [task[a] EXCEPT !.pc = "mirror", !.row = row]
  <2>1. t.pc = "mirror" /\ t.job = job /\ t.doc = task[a].doc /\ t.row = row
    BY <1>0 DEF Task
  <2>2. outbox'[row].job = job
    BY <1>0, <1>6 DEF Capture
  <2>3. Become(a, t)
    BY <1>6 DEF Capture
  <2> HIDE DEF t, row
  <2>4. TaskRests(t, cert', chain', outbox')
    BY <1>0, <1>6, <2>1, <2>2 DEF Capture, TaskRests, FoundCert
  <2> QED
    BY <2>3, <2>4, RestsChanged
<1>7. CASE LoadCertificate(a)
  BY <1>7, LoadedRests DEF LoadCertificate, Mirroring
<1>8. CASE MirrorNotFound(a)
  BY <1>8, ThrowRests DEF MirrorNotFound
<1>9. CASE SaveStored(a)
  <2>1. Mirrored(job, cert', chain')
    BY <1>0, <1>1, <1>9 DEF SaveStored, Mirroring, Mirrored, TaskRests, FoundCert, CertKept
  <2> QED
    BY <1>9, <2>1, MirroredRests DEF SaveStored, Mirroring
<1>10. CASE InsertStored(a)
  <2>1. CASE cert.lifecycle = "Absent"
    <3> DEFINE d == [NoCert EXCEPT !.lifecycle = "Submitted"]
    <3>1. d \in CertRecord /\ d.lifecycle = "Submitted"
      <4>1. NoCert \in CertRecord
        BY NoCertType
      <4> QED
        BY <4>1 DEF CertRecord, Lifecycles
    <3>2. cert' = Recompute(d)
      BY <1>10, <2>1 DEF InsertStored
    <3> HIDE DEF d
    <3>3. cert'.lifecycle # "Absent"
      BY <3>1, <3>2, RecomputeKeeps
    <3>4. Mirrored(job, cert', chain')
      BY <1>10, <3>3 DEF InsertStored, Mirroring, Mirrored
    <3> QED
      BY <1>10, <2>1, <3>4, MirroredRests DEF InsertStored, Mirroring
  <2>2. CASE cert.lifecycle # "Absent"
    BY <1>10, <2>2, ThrowRests DEF InsertStored
  <2> QED
    BY <2>1, <2>2
<1>11. CASE SaveIssued(a)
  <2> DEFINE d == [task[a].doc EXCEPT !.lifecycle = "Issued", !.expiry = job.expiry]
  <2>1. job.expiry # 0 /\ job.expiry \in Nat /\ task[a].doc \in CertRecord
    BY <1>0, <1>11 DEF SaveIssued, Mirroring, TaskInv, JobBacked, Task, Job
  <2>2. d \in CertRecord /\ d.expiry = job.expiry
    BY <2>1 DEF CertRecord, Lifecycles
  <2>3. cert' = Merge(cert, task[a].doc, Recompute(d))
    BY <1>11 DEF SaveIssued
  <2>4. Recompute(d).expiry = job.expiry
    BY <2>2, RecomputeKeeps
  <2> HIDE DEF d
  <2>5. cert'.expiry # 0
    BY <1>0, <2>1, <2>3, <2>4 DEF Merge, TaskRests
  <2>6. cert'.expiry = chain'.expiry
    BY <2>5 DEF Moving, Kept
  <2>7. Mirrored(job, cert', chain')
    BY <1>11, <2>6 DEF SaveIssued, Mirroring, Mirrored
  <2> QED
    BY <1>11, <2>7, MirroredRests DEF SaveIssued, Mirroring
<1>12. CASE SaveRevoked(a)
  <2>1. Mirrored(job, cert', chain')
    BY <1>12 DEF SaveRevoked, Mirroring, Mirrored
  <2> QED
    BY <1>12, <2>1, MirroredRests DEF SaveRevoked, Mirroring
<1>13. CASE SaveDerived(a)
  <2>1. Mirrored(job, cert', chain')
    BY <1>0, <1>1, <1>13 DEF SaveDerived, Mirroring, Mirrored, TaskRests, CertKept
  <2> QED
    BY <1>13, <2>1, MirroredRests DEF SaveDerived, Mirroring
<1>14. CASE FindForReview(a)
  <2> DEFINE t == [task[a] EXCEPT !.pc = "set", !.date = now]
  <2>1. t.pc = "set" /\ t.job = job /\ t.doc = task[a].doc /\ t.row = task[a].row
    BY <1>0 DEF Task
  <2>2. Become(a, t)
    BY <1>14 DEF FindForReview
  <2> HIDE DEF t
  <2>3. TaskRests(t, cert', chain', outbox')
    BY <1>0, <1>14, <2>1 DEF FindForReview, Mirroring, TaskRests, FoundCert
  <2> QED
    BY <2>2, <2>3, RestsChanged
<1>15. CASE SetReview(a)
  <2>1. /\ cert'.lifecycle # "Absent"
        /\ JobAnchored(job, chain')
    BY <1>0, <1>1, <1>15 DEF SetReview, TaskRests, FoundCert, CertKept
  <2>2. CASE PositionsOf(cert.reviews, job.by) = {}
    BY <1>2, <1>15, <2>1, <2>2, MovedRests DEF SetReview
  <2>3. CASE PositionsOf(cert.reviews, job.by) # {}
    <3>1. PositionsOf(cert'.reviews, job.by) # {}
      BY <1>1, <2>3 DEF CertKept
    <3> QED
      BY <1>2, <1>15, <2>1, <2>3, <3>1, MovedRests DEF SetReview
  <2> QED
    BY <2>2, <2>3
<1>16. CASE PushReview(a)
  <2>1. /\ cert'.lifecycle # "Absent"
        /\ JobAnchored(job, chain')
        /\ job.op = "review"
    BY <1>0, <1>1, <1>16 DEF PushReview, TaskRests, FoundCert, CertKept, TaskInv
  <2>2. PositionsOf(cert'.reviews, job.by) # {}
    <3>1. CASE PositionsOf(cert.reviews, job.by) # {}
      BY <1>1, <3>1 DEF CertKept
    <3>2. CASE PositionsOf(cert.reviews, job.by) = {}
      <4>1. EntryOf(a) \in Entry /\ EntryOf(a).by = job.by
        BY <2>1, EntryType DEF Moving, FullInv, EntryOf
      <4>2. cert \in CertRecord
        BY DEF Moving, FullInv, Inv, TypeOK
      <4>3. cert' = [cert EXCEPT !.reviews = Append(cert.reviews, EntryOf(a))]
        BY <1>16, <3>2, <4>2 DEF PushReview
      <4>4. /\ cert'.reviews = Append(cert.reviews, EntryOf(a))
            /\ cert.reviews \in Seq(Entry)
        BY <4>2, <4>3 DEF CertRecord
      <4>5. /\ Len(cert.reviews) + 1 \in DOMAIN cert'.reviews
            /\ cert'.reviews[Len(cert.reviews) + 1] = EntryOf(a)
        BY <4>1, <4>4
      <4> QED
        BY <4>1, <4>5 DEF PositionsOf
    <3> QED
      BY <3>1, <3>2
  <2> QED
    BY <1>2, <1>16, <2>1, <2>2, MovedRests DEF PushReview
<1>17. CASE ReadForDerive(a)
  BY <1>0, <1>17, LoadedRests DEF ReadForDerive, TaskRests, FoundCert
<1>18. CASE MarkDone(a)
  <2>1. CASE task[a].origin = "outbox"
    BY <1>18, <2>1, NextRowRests DEF MarkDone
  <2>2. CASE task[a].origin # "outbox"
    BY <1>0, <1>18, <2>2, ReplyRests DEF MarkDone, TaskRests, Mirrored
  <2> QED
    BY <2>1, <2>2
<1>19. CASE TakeRow(a)
  <2>1. PICK r \in task[a].batch :
           Become(a, [pc |-> "mirror", origin |-> "outbox", job |-> outbox[r.id].job,
                      row |-> r.id, attempts |-> r.attempts, batch |-> task[a].batch \ {r},
                      doc |-> NoCert, view |-> NoView, date |-> 0])
    BY <1>19 DEF TakeRow
  <2> DEFINE t == [pc |-> "mirror", origin |-> "outbox", job |-> outbox[r.id].job,
                   row |-> r.id, attempts |-> r.attempts, batch |-> task[a].batch \ {r},
                   doc |-> NoCert, view |-> NoView, date |-> 0]
  <2>2. r.id \in DOMAIN outbox
    BY <1>0 DEF TaskInv
  <2>3. JobAnchored(outbox[r.id].job, chain')
    BY <2>2, AnchoredStays DEF Moving, FullInv, RInv, RowsAnchored
  <2>4. /\ t.pc = "mirror" /\ t.job = outbox[r.id].job /\ t.doc = NoCert
        /\ t.row = r.id
    OBVIOUS
  <2>5. Become(a, t) /\ UNCHANGED outbox
    BY <1>19, <2>1 DEF TakeRow
  <2> HIDE DEF t
  <2>6. TaskRests(t, cert', chain', outbox')
    BY <2>3, <2>4, <2>5 DEF TaskRests, FoundCert, NoCert
  <2> QED
    BY <2>5, <2>6, RestsChanged
<1>20. CASE ReadChain(a)
  <2> DEFINE t == [task[a] EXCEPT !.pc = "fix", !.view = Verify(chain, now)]
  <2>1. t.pc = "fix" /\ t.job = job /\ t.doc = task[a].doc /\ t.row = task[a].row
    BY <1>0 DEF Task
  <2>2. Become(a, t)
    BY <1>20 DEF ReadChain
  <2> HIDE DEF t
  <2>3. TaskRests(t, cert', chain', outbox')
    BY <1>0, <1>20, <2>1 DEF ReadChain, TaskRests, FoundCert
  <2> QED
    BY <2>2, <2>3, RestsChanged
<1>21. CASE ReadDb(a)
  BY <1>0, <1>21, LoadedRests DEF ReadDb, TaskRests, FoundCert
<1> QED
  BY <1>3, <1>4, <1>5, <1>6, <1>7, <1>8, <1>9, <1>10, <1>11, <1>12, <1>13, <1>14, <1>15, <1>16,
     <1>17, <1>18, <1>19, <1>20, <1>21
     DEF Continue

LEMMA TasksRestStep ==
  ASSUME Moving, [Next]_vars
  PROVE  TasksRest'
<1>1. ASSUME NEW a \in Actors, FetchDue(a)
      PROVE  TasksRest'
  <2>1. PICK due \in SUBSET Pending :
           Become(a, [IdleTask EXCEPT !.pc = "next", !.origin = "outbox",
                        !.batch = {[id |-> i, attempts |-> outbox[i].attempts] : i \in due}])
    BY <1>1 DEF FetchDue
  <2> DEFINE batch == {[id |-> i, attempts |-> outbox[i].attempts] : i \in due}
             t     == [IdleTask EXCEPT !.pc = "next", !.origin = "outbox", !.batch = batch]
  <2> HIDE DEF batch
  <2>2. t.pc = "next" /\ t.job = NoJob /\ t.doc = NoCert /\ t.row = 0
    BY DEF IdleTask
  <2>3. Become(a, t)
    BY <2>1 DEF batch
  <2> HIDE DEF t
  <2>4. TaskRests(t, cert', chain', outbox')
    BY <2>2, FreeRests
  <2> QED
    BY <2>3, <2>4, RestsChanged
<1>2. ASSUME NEW a \in Actors, StartReconcile(a)
      PROVE  TasksRest'
  <2> DEFINE chainRead == [IdleTask EXCEPT !.pc = "dbLeft", !.origin = "reconcile",
                                           !.view = Verify(chain, now)]
             dbRead    == [IdleTask EXCEPT !.pc = "chainLeft", !.origin = "reconcile",
                                           !.doc = cert]
  <2>1. /\ chainRead.pc = "dbLeft" /\ chainRead.job = NoJob /\ chainRead.row = 0
        /\ chainRead.doc = NoCert
        /\ dbRead.pc = "chainLeft" /\ dbRead.job = NoJob /\ dbRead.row = 0
        /\ dbRead.doc = cert
    BY DEF IdleTask
  <2>2. Become(a, chainRead) \/ Become(a, dbRead)
    BY <1>2 DEF StartReconcile
  <2> HIDE DEF chainRead, dbRead
  <2> QED
    BY <1>2, <2>1, <2>2, BegunRests DEF StartReconcile
<1>3. ASSUME NEW a \in Actors, FindExpired(a)
      PROVE  TasksRest'
  <2> DEFINE t == [IdleTask EXCEPT !.pc = "expire", !.origin = "expiry", !.doc = cert]
  <2>1. t.pc = "expire" /\ t.job = NoJob /\ t.row = 0 /\ t.doc = cert
    BY DEF IdleTask
  <2>2. Become(a, t) /\ UNCHANGED cert
    BY <1>3 DEF FindExpired
  <2>3. cert.lifecycle # "Absent"
    BY <1>3 DEF FindExpired, Moving, FullInv, RInv, AbsentIsBlank
  <2> HIDE DEF t
  <2> QED
    BY <2>1, <2>2, <2>3, BegunRests
<1>4. ASSUME NEW a \in Actors, CaptureFails(a)
      PROVE  TasksRest'
  <2>1. "mirror" \in Places
    BY DEF Places, MirrorSteps
  <2>2. JobAnchored(task[a].job, chain')
    BY <1>4, OldRests DEF CaptureFails, TaskRests
  <2> QED
    BY <1>4, <2>1, <2>2, MovedRests DEF CaptureFails
<1>5. ASSUME NEW a \in Actors, ReplayFails(a)
      PROVE  TasksRest'
  BY <1>5, NextRowRests DEF ReplayFails
<1>6. ASSUME NEW a \in Actors, Abort(a)
      PROVE  TasksRest'
  BY <1>6, FinishRests DEF Abort
<1>7. CASE UNCHANGED task
  BY <1>7, RestsSame
<1> QED
  BY <1>1, <1>2, <1>3, <1>4, <1>5, <1>6, <1>7, NewRequestRests, ContinueRests
     DEF Next, Tick, vars

-----------------------------------------------------------------------------
(***************************************************************************)
(* The rows.                                                               *)
(***************************************************************************)
RowsOK == RowsAnchored' /\ DoneRowsAreMirrored'

LEMMA RowStays ==
  ASSUME Moving, NEW i \in DOMAIN outbox
  PROVE  /\ JobAnchored(outbox'[i].job, chain')
         /\ Mirrored(outbox[i].job, cert, chain) => Mirrored(outbox'[i].job, cert', chain')
<1>0. outbox[i] \in OutboxRow
  BY DEF Moving, FullInv, Inv, TypeOK
<1>1. /\ outbox'[i].job = outbox[i].job
      /\ outbox[i].job \in Job
      /\ JobBacked(outbox[i].job, Held(chain, now), chain.expiry)
      /\ JobAnchored(outbox[i].job, chain)
  BY <1>0 DEF Moving, OutboxStepOK, FullInv, Inv, OutboxRow, IInv, RowsInv, RInv, RowsAnchored
<1> QED
  BY <1>1, AnchoredStays, MirroredStays DEF Moving

\* No row is added, and a row that is done was done or is mirrored.
LEMMA RowsKept ==
  ASSUME Moving, DOMAIN outbox' = DOMAIN outbox,
         \A i \in DOMAIN outbox :
            outbox'[i].status = "done" =>
              outbox[i].status = "done" \/ Mirrored(outbox'[i].job, cert', chain')
  PROVE  RowsOK
<1>1. \A i \in DOMAIN outbox : outbox[i].status = "done" => Mirrored(outbox[i].job, cert, chain)
  BY DEF Moving, FullInv, RInv, DoneRowsAreMirrored
<1> QED
  BY <1>1, RowStays DEF RowsOK, RowsAnchored, DoneRowsAreMirrored

\* An execution that is about to mark its row has mirrored it.
LEMMA MarkedRow ==
  ASSUME Moving, NEW a \in Actors, task[a].row # 0
  PROVE  /\ task[a].row \in DOMAIN outbox
         /\ outbox'[task[a].row].job = task[a].job
         /\ task[a].pc = "mark" => Mirrored(task[a].job, cert', chain')
<1>1. /\ task[a].job \in Job
      /\ TaskInv(task[a], Held(chain, now), chain.expiry, Len(outbox))
      /\ TaskRests(task[a], cert', chain', outbox')
      /\ TaskRests(task[a], cert, chain, outbox)
      /\ outbox \in Seq(OutboxRow)
  BY OldRests DEF Moving, FullInv, Inv, TypeOK, Task, IInv, TasksInv, RInv, TasksRest
<1>2. task[a].row \in DOMAIN outbox
  BY <1>1 DEF TaskInv
<1>3. task[a].pc = "mark" => Mirrored(task[a].job, cert', chain')
  <2>1. ASSUME task[a].pc = "mark" PROVE Mirrored(task[a].job, cert', chain')
    <3>1. /\ Mirrored(task[a].job, cert, chain)
          /\ JobBacked(task[a].job, Held(chain, now), chain.expiry)
      BY <1>1, <2>1 DEF TaskRests, TaskInv
    <3> QED
      BY <1>1, <3>1, MirroredStays DEF Moving
  <2> QED
    BY <2>1
<1> QED
  BY <1>1, <1>2, <1>3 DEF TaskRests

LEMMA AttemptRows ==
  ASSUME Moving, NEW a \in Actors,
         task[a].origin = "outbox", task[a].pc # "next", AttemptFailed(a)
  PROVE  RowsOK
<1> DEFINE row    == task[a].row
           status == CASE task[a].attempts + 1 >= MaxAttempts -> "failed"
                       [] task[a].pc = "mark"                 -> "done"
                       [] OTHER                               -> outbox[row].status
           new    == [job |-> outbox[row].job, status |-> status,
                      attempts |-> task[a].attempts + 1]
<1>1. row # 0 /\ outbox \in Seq(OutboxRow)
  BY DEF Moving, FullInv, Inv, TypeOK, IInv, TasksInv, TaskInv
<1>2. outbox' = [outbox EXCEPT ![row] = new]
  BY DEF AttemptFailed
<1>3. /\ row \in DOMAIN outbox
      /\ outbox'[row].job = task[a].job
      /\ task[a].pc = "mark" => Mirrored(task[a].job, cert', chain')
  BY <1>1, MarkedRow
<1>4. new.status = "done" => task[a].pc = "mark" \/ outbox[row].status = "done"
  OBVIOUS
<1> HIDE DEF row, new
<1>5. /\ DOMAIN outbox' = DOMAIN outbox
      /\ outbox'[row] = new
      /\ \A i \in DOMAIN outbox : i # row => outbox'[i] = outbox[i]
  BY <1>1, <1>2, <1>3
<1> QED
  BY <1>3, <1>4, <1>5, RowsKept

LEMMA ThrownRows ==
  ASSUME Moving, NEW a \in Actors, task[a].pc # "next", Throw(a)
  PROVE  RowsOK
<1>1. CASE task[a].origin = "outbox"
  BY <1>1, AttemptRows DEF Throw
<1>2. CASE task[a].origin # "outbox"
  BY <1>2, RowsKept DEF Throw
<1> QED
  BY <1>1, <1>2

LEMMA RowsStep ==
  ASSUME Moving, [Next]_vars
  PROVE  RowsOK
<1>1. CASE UNCHANGED outbox
  BY <1>1, RowsKept
<1>2. ASSUME NEW a \in Actors, Capture(a)
      PROVE  RowsOK
  <2> DEFINE row == [job |-> task[a].job, status |-> "pending", attempts |-> 0]
  <2>1. outbox \in Seq(OutboxRow) /\ outbox' = Append(outbox, row)
    BY <1>2 DEF Capture, Moving, FullInv, Inv, TypeOK
  <2>2. JobAnchored(row.job, chain')
    BY <1>2, OldRests DEF Capture, TaskRests
  <2>3. row.status # "done"
    OBVIOUS
  <2> HIDE DEF row
  <2>4. \A i \in DOMAIN outbox' : outbox'[i] = IF i \in DOMAIN outbox THEN outbox[i] ELSE row
    BY <2>1
  <2>5. \A i \in DOMAIN outbox :
          outbox[i].status = "done" => Mirrored(outbox[i].job, cert, chain)
    BY DEF Moving, FullInv, RInv, DoneRowsAreMirrored
  <2> QED
    BY <2>2, <2>3, <2>4, <2>5, RowStays DEF RowsOK, RowsAnchored, DoneRowsAreMirrored
<1>3. ASSUME NEW a \in Actors, MarkDone(a)
      PROVE  RowsOK
  <2> DEFINE row == task[a].row
  <2>1. row # 0 /\ outbox \in Seq(OutboxRow) /\ task[a].pc = "mark"
    BY <1>3 DEF MarkDone, Moving, FullInv, Inv, TypeOK, IInv, TasksInv, TaskInv
  <2>2. outbox' = [outbox EXCEPT ![row].status = "done"]
    BY <1>3 DEF MarkDone
  <2>3. /\ row \in DOMAIN outbox
        /\ Mirrored(outbox'[row].job, cert', chain')
    BY <2>1, MarkedRow
  <2> HIDE DEF row
  <2>4. /\ DOMAIN outbox' = DOMAIN outbox
        /\ \A i \in DOMAIN outbox : i # row => outbox'[i] = outbox[i]
    BY <2>1, <2>2, <2>3
  <2> QED
    BY <2>3, <2>4, RowsKept
<1>4. ASSUME NEW a \in Actors, MirrorNotFound(a)
      PROVE  RowsOK
  BY <1>4, ThrownRows DEF MirrorNotFound
<1>5. ASSUME NEW a \in Actors, InsertStored(a)
      PROVE  RowsOK
  BY <1>1, <1>5, ThrownRows DEF InsertStored, Mirroring
<1>6. ASSUME NEW a \in Actors, ReplayFails(a)
      PROVE  RowsOK
  BY <1>6, AttemptRows DEF ReplayFails, MirrorSteps
<1> QED
  BY <1>1, <1>2, <1>3, <1>4, <1>5, <1>6
     DEF Next, vars, NewRequest, Submit, Review, AdminReview, IssueRequest, ApproveRevocation,
         Continue, CommitStore, CommitReview, CommitIssue, Refused, LoadCertificate, SaveStored,
         SaveIssued, SaveRevoked, FindForReview, SetReview, PushReview, ReadForDerive,
         SaveDerived, AttachFile, TakeRow, ReadChain, ReadDb, FixDrift, SaveExpired, FetchDue,
         StartReconcile, FindExpired, CaptureFails, Abort, Tick

-----------------------------------------------------------------------------
(***************************************************************************)
(* The gate.                                                               *)
(***************************************************************************)
LEMMA IssuedStep ==
  ASSUME Moving, [Next]_vars
  PROVE  IssuedAfterApproval'
<1>0. /\ chain \in [status : StoredStatuses, expiry : Nat,
                    reviews : [Officers -> Opinion \cup {NoOpinion}],
                    anchored : [Officers -> SUBSET Opinion]]
      /\ chain.expiry # 0 => Approved(chain, cert.reviews)
  BY DEF Moving, FullInv, Inv, TypeOK, RInv, IssuedAfterApproval
<1>1. CASE chain'.expiry = chain.expiry
  BY <1>0, <1>1, ApprovedStays DEF IssuedAfterApproval, Moving
<1>2. ASSUME NEW a \in Actors, CommitIssue(a)
      PROVE  IssuedAfterApproval'
  <2>1. Approved(chain, cert.reviews)
    BY <1>2 DEF CommitIssue, Committing, Moving, FullInv, RInv, TasksRest, TaskRests
  <2> QED
    BY <2>1, ApprovedStays DEF IssuedAfterApproval, Moving
<1>3. ASSUME NEW a \in Actors, ApproveRevocation(a) \/ CommitStore(a) \/ CommitReview(a)
      PROVE  chain'.expiry = chain.expiry
  BY <1>0, <1>3 DEF ApproveRevocation, CommitStore, CommitReview, Revoke, Store, SubmitReview
<1> QED
  BY <1>1, <1>2, <1>3
     DEF Next, vars, NewRequest, Submit, Review, AdminReview, IssueRequest, Continue, Refused,
         Capture, LoadCertificate, MirrorNotFound, SaveStored, InsertStored, SaveIssued,
         SaveRevoked, FindForReview, SetReview, PushReview, ReadForDerive, SaveDerived, MarkDone,
         AttachFile, TakeRow, ReadChain, ReadDb, FixDrift, SaveExpired, FetchDue, StartReconcile,
         FindExpired, CaptureFails, ReplayFails, Abort, Tick

-----------------------------------------------------------------------------
(***************************************************************************)
(* The theorems.                                                           *)
(***************************************************************************)
LEMMA InitRInv == Init => RInv
<1> SUFFICES ASSUME Init PROVE RInv
  OBVIOUS
<1>1. TasksRest
  BY FreeRests, IdleTaskType DEF Init, TasksRest, IdleTask
<1>2. cert.reviews = <<>> /\ cert.expiry = 0 /\ ~cert.file /\ outbox = <<>> /\ chain.expiry = 0
  BY DEF Init, NoCert
<1>3. DOMAIN cert.reviews = {} /\ DOMAIN outbox = {}
  BY <1>2
<1> QED
  BY <1>1, <1>2, <1>3
     DEF RInv, RowsAnchored, AbsentIsBlank, OneEntryPerReviewer, EntriesAreAnchored,
         IssuedAfterApproval, DoneRowsAreMirrored

LEMMA NextRInv == FullInv /\ Inv' /\ [Next]_vars => RInv'
<1> SUFFICES ASSUME FullInv, Inv', [Next]_vars PROVE RInv'
  OBVIOUS
<1>1. Moving
  BY KeptStep DEF Moving
<1>2. TasksRest' /\ RowsOK /\ IssuedAfterApproval'
  BY <1>1, TasksRestStep, RowsStep, IssuedStep
<1>3. AbsentIsBlank' /\ OneEntryPerReviewer'
  BY <1>1 DEF Moving, CertMoves
<1>4. EntriesAreAnchored'
  BY <1>1 DEF Moving, CertMoves, Kept, ChainKept, EntriesBacked, EntriesAreAnchored
<1> QED
  BY <1>2, <1>3, <1>4 DEF RInv, RowsOK

LEMMA FullInvCorrect == Spec => []FullInv
<1>1. Init => FullInv
  BY InitInv, InitRInv DEF FullInv
<1>2. FullInv /\ [Next]_vars => FullInv'
  BY NextInv, NextRInv DEF FullInv
<1>3. FullInv /\ UNCHANGED vars => FullInv'
  BY <1>2
<1> QED
  BY <1>1, <1>2, <1>3, PTL DEF Spec

(***************************************************************************)
(* However mirrors of one reviewer's reviews overlap, inline and replayed, *)
(* a Certificate never has two entries of that reviewer.                   *)
(***************************************************************************)
THEOREM OneEntryCorrect == Spec => []OneEntryPerReviewer
<1>1. FullInv => OneEntryPerReviewer
  BY DEF FullInv, RInv
<1> QED
  BY <1>1, FullInvCorrect, PTL

(***************************************************************************)
(* An officer's entry is a review he has anchored, whole and in his name.  *)
(***************************************************************************)
THEOREM EntriesCorrect == Spec => []EntriesAreAnchored
<1>1. FullInv => EntriesAreAnchored
  BY DEF FullInv, RInv
<1> QED
  BY <1>1, FullInvCorrect, PTL

(***************************************************************************)
(* The contract issues no certificate that nobody has approved, though it  *)
(* is only the backend that asks, and asks what it read before the commit. *)
(***************************************************************************)
THEOREM IssuedCorrect == Spec => []IssuedAfterApproval
<1>1. FullInv => IssuedAfterApproval
  BY DEF FullInv, RInv
<1> QED
  BY <1>1, FullInvCorrect, PTL

(***************************************************************************)
(* A row that is done is mirrored, and stays so.                           *)
(***************************************************************************)
THEOREM DoneRowsCorrect == Spec => []DoneRowsAreMirrored
<1>1. FullInv => DoneRowsAreMirrored
  BY DEF FullInv, RInv
<1> QED
  BY <1>1, FullInvCorrect, PTL

(***************************************************************************)
(* Once a mirror has set or pushed its entry, no other mirror and no save  *)
(* of a whole document removes it.                                         *)
(***************************************************************************)
THEOREM NoReviewDroppedCorrect == Spec => []NoReviewDropped
<1>1. FullInv => NoReviewDropped
  BY DEF FullInv, RInv, TasksRest, TaskRests, Mirrored, NoReviewDropped
<1> QED
  BY <1>1, FullInvCorrect, PTL

(***************************************************************************)
(* No save takes the upload away again.                                    *)
(***************************************************************************)
THEOREM FileCorrect == Spec => FileStays
<1>1. FullInv /\ [Next]_vars => [cert.file => cert'.file]_vars
  BY CertMovesStep DEF CertMoves, CertKept
<1> QED
  BY <1>1, FullInvCorrect, PTL DEF Spec, FileStays
=============================================================================
