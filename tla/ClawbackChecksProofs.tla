------------------------ MODULE ClawbackChecksProofs ------------------------
(* What holds of the health checks and the reminders for every set of       *)
(* clawbacks, rules, days and hours, however often the clawbacks change and *)
(* passes die: answers to checks stay, nobody is told twice a day, nobody   *)
(* who is due is left out.                                                  *)
EXTENDS ClawbackChecks, FoldLemmas, SequenceTheorems

-----------------------------------------------------------------------------
(* The life of the health checks (ClawbackChecks) *)

\* Every row has its place, and a request has loaded a row.
RowsThere == /\ DOMAIN check = Range(Clawbacks) /\ \A c \in Range(Clawbacks) : DOMAIN check[c] = Days
             /\ answer = [c |-> answer.c, day |-> answer.day, was |-> answer.was]

LEMMA EnsureOnlyAdds ==
  ASSUME RowsThere, NEW S, NEW items, NEW day, NEW c \in Range(Clawbacks)
  PROVE  /\ DOMAIN Ensure(check, S, items, day) = Range(Clawbacks) /\ DOMAIN Ensure(check, S, items, day)[c] = Days
         /\ \A d \in Days : check[c][d] # "none" => Ensure(check, S, items, day)[c][d] = check[c][d]
BY DEF RowsThere, Ensure

\* What one step may do to the rows: add, answer, cancel what the handler holds, miss
\* what is pending.
Answers == /\ check' = [check EXCEPT ![answer.c][answer.day] = "done"] /\ answer' = NoAnswer
Cancels == /\ handler' = NoHandler /\ answer' = answer
           /\ \E found \in BOOLEAN :
                check' = [check EXCEPT ![handler.c] =
                            [d \in Days |-> IF d \in Withdrawn(found) THEN handler.change ELSE @[d]]]
Adds == answer' = answer /\ \E S, items, day : check' = Ensure(check, S, items, day)
Misses == answer' = answer /\ check' = [c \in DOMAIN check |-> [d \in Days |->
            IF check[c][d] = "pending" /\ (d < clock.day \/ (d = clock.day /\ clock.hour >= Cutoff))
            THEN "missed" ELSE check[c][d]]]
Loads == check' = check /\ \E c, d : answer' = [c |-> c, day |-> d, was |-> check[c][d]]

LEMMA RowSteps ==
  ASSUME [ChecksNext]_checksVars PROVE Answers \/ Cancels \/ Adds \/ Misses \/ Loads \/ UNCHANGED <<check, answer>>
<1>1. CASE PassEvaluate
  BY <1>1 DEF PassEvaluate, Adds
<1>2. CASE PageOpens
  BY <1>2 DEF PageOpens, Adds, procVars
<1>3. CASE AnswerCommit
  BY <1>3 DEF AnswerCommit, Answers
<1>4. CASE HandlerCommit
  BY <1>4 DEF HandlerCommit, Cancels
<1>5. CASE MarkMissed
  BY <1>5 DEF MarkMissed, Misses, procVars
<1>6. CASE \E c \in Range(Clawbacks), d \in Days : AnswerLoad(c, d)
  BY <1>6 DEF AnswerLoad, Loads, rowVars
<1>7. CASE UNCHANGED checksVars
  BY <1>7 DEF checksVars
<1>8. CASE ClockTicks \/ SettingToggles \/ PassFetch \/ PassPlan \/ PassSend \/ PassEnd \/ PassCrash
  BY <1>8 DEF ClockTicks, SettingToggles, PassFetch, PassPlan, PassSend, PassEnd, PassCrash, rowVars, procVars
<1>9. CASE \/ \E c \in Range(Clawbacks) : ItemMoves(c) \/ ItemDrops(c)
           \/ \E e \in events : HandlerLoad(e)
  BY <1>9 DEF ItemMoves, ItemDrops, HandlerLoad, rowVars, procVars
<1> QED BY <1>1, <1>2, <1>3, <1>4, <1>5, <1>6, <1>7, <1>8, <1>9 DEF ChecksNext

LEMMA RowsStay == RowsThere /\ [ChecksNext]_checksVars => RowsThere'
<1> SUFFICES ASSUME RowsThere, [ChecksNext]_checksVars PROVE RowsThere'
  OBVIOUS
<1>1. CASE Answers
  BY <1>1 DEF Answers, RowsThere, NoAnswer
<1>2. CASE Cancels
  BY <1>2 DEF Cancels, RowsThere
<1>3. CASE Adds
  <2>1. PICK S, items, day : check' = Ensure(check, S, items, day)
    BY <1>3 DEF Adds
  <2>2. DOMAIN check' = Range(Clawbacks)
    BY <2>1 DEF Ensure, RowsThere
  <2>3. \A c \in Range(Clawbacks) : DOMAIN check'[c] = Days
    BY <2>1, EnsureOnlyAdds
  <2> QED BY <1>3, <2>2, <2>3 DEF Adds, RowsThere
<1>4. CASE Misses
  BY <1>4 DEF Misses, RowsThere
<1>5. CASE Loads
  BY <1>5 DEF Loads, RowsThere
<1>6. CASE UNCHANGED <<check, answer>>
  BY <1>6 DEF RowsThere
<1> QED BY <1>1, <1>2, <1>3, <1>4, <1>5, <1>6, RowSteps

\* An answered check changes only when the handler cancels what it had read as
\* pending, and a cancelled one only through a copy read before it was cancelled
\* (health_checks_api.py, clawback_events.py, mark_missed).
THEOREM SettledChecksStay == ChecksSpec => SettledStays
<1>1. ChecksInit => RowsThere
  BY DEF ChecksInit, RowsThere, NoAnswer
<1>2. ASSUME RowsThere, [ChecksNext]_checksVars, NEW c \in Range(Clawbacks), NEW d \in Days
      PROVE  /\ check[c][d] = "done" /\ check'[c][d] # "done" =>
                  handler.c = c /\ d \in handler.pending /\ handler' = NoHandler
             /\ check[c][d] \in Cancelled /\ check'[c][d] # check[c][d] =>
                  answer = [c |-> c, day |-> d, was |-> answer.was] \/ handler.c = c
  <2>1. CASE Answers
    <3>1. check'[c][d] = IF c = answer.c /\ d = answer.day THEN "done" ELSE check[c][d]
      BY <1>2, <2>1 DEF Answers, RowsThere
    <3>2. answer = [c |-> answer.c, day |-> answer.day, was |-> answer.was]
      BY <1>2 DEF RowsThere
    <3> QED BY <3>1, <3>2
  <2>2. CASE Cancels
    <3>1. PICK found \in BOOLEAN :
            check' = [check EXCEPT ![handler.c] =
                        [e \in Days |-> IF e \in Withdrawn(found) THEN handler.change ELSE @[e]]]
      BY <2>2 DEF Cancels
    <3>2. check'[c][d] # check[c][d] => c = handler.c /\ d \in Withdrawn(found)
      BY <1>2, <3>1 DEF RowsThere
    <3>3. Withdrawn(found) \subseteq handler.pending
      BY DEF Withdrawn
    <3>4. handler' = NoHandler
      BY <2>2 DEF Cancels
    <3> QED BY <3>2, <3>3, <3>4
  <2>3. CASE Adds
    BY <1>2, <2>3, EnsureOnlyAdds DEF Adds, Cancelled
  <2>4. CASE Misses
    BY <1>2, <2>4 DEF Misses, RowsThere, Cancelled
  <2>5. CASE Loads \/ UNCHANGED <<check, answer>>
    BY <2>5 DEF Loads
  <2> QED BY <1>2, <2>1, <2>2, <2>3, <2>4, <2>5, RowSteps
<1>3. RowsThere /\ [ChecksNext]_checksVars =>
        [\A c \in Range(Clawbacks), d \in Days :
           /\ check[c][d] = "done" /\ check'[c][d] # "done" =>
                handler.c = c /\ d \in handler.pending /\ handler' = NoHandler
           /\ check[c][d] \in Cancelled /\ check'[c][d] # check[c][d] =>
                answer = [c |-> c, day |-> d, was |-> answer.was] \/ handler.c = c]_checksVars
  BY <1>2
<1> QED BY <1>1, <1>3, RowsStay, PTL DEF ChecksSpec, SettledStays

-----------------------------------------------------------------------------
(* Selections and lists (ClawbackRules) *)

\* Nth counts the indices of a finite set through.
LEMMA NthCounts ==
  ASSUME NEW n \in Nat, NEW I \in SUBSET (1 .. n)
  PROVE  /\ Cardinality(I) \in Nat
         /\ \A k \in 1 .. Cardinality(I) : Nth(I, k) \in I
         /\ \A k, l \in 1 .. Cardinality(I) : Nth(I, k) = Nth(I, l) => k = l
         /\ \A i \in I : \E k \in 1 .. Cardinality(I) : Nth(I, k) = i
<1> DEFINE Below(i) == {j \in I : j < i}
           C == Cardinality(I)
           rank == [i \in I |-> Cardinality(Below(i)) + 1]
<1>1. IsFiniteSet(I) /\ C \in Nat
  <2>1. IsFiniteSet(1 .. n)
    BY FS_Interval
  <2> QED BY <2>1, FS_Subset, FS_CardinalityType
<1>2. \A i \in I : IsFiniteSet(Below(i)) /\ Cardinality(Below(i)) \in Nat
  BY <1>1, FS_Subset, FS_CardinalityType
<1>3. ASSUME NEW i \in I PROVE rank[i] \in 1 .. C
  <2>1. IsFiniteSet(I \ {i}) /\ Cardinality(I \ {i}) = C - 1
    BY <1>1, FS_RemoveElement
  <2>2. Below(i) \in SUBSET (I \ {i})
    OBVIOUS
  <2> HIDE DEF Below, C
  <2>3. Cardinality(Below(i)) <= Cardinality(I \ {i})
    BY <2>1, <2>2, FS_Subset
  <2> QED BY <1>1, <1>2, <2>1, <2>3
<1>4. ASSUME NEW i \in I, NEW j \in I, i < j PROVE rank[i] < rank[j]
  <2>1. Below(i) \cup {i} \in SUBSET Below(j)
    <3>1. \A k \in I : k \in Int
      OBVIOUS
    <3>2. \A k \in I : k < i => k < j
      BY <1>4, <3>1
    <3> QED BY <1>4, <3>2
  <2>2. Cardinality(Below(i) \cup {i}) = Cardinality(Below(i)) + 1
    BY <1>2, FS_AddElement
  <2>3. Cardinality(Below(i) \cup {i}) <= Cardinality(Below(j))
    BY <1>2, <2>1, FS_Subset
  <2>4. rank[i] = Cardinality(Below(i)) + 1 /\ rank[j] = Cardinality(Below(j)) + 1
    OBVIOUS
  <2> QED BY <1>2, <2>2, <2>3, <2>4
<1>5. \A i \in I, j \in I : rank[i] = rank[j] => i = j
  <2>1. SUFFICES ASSUME NEW i \in I, NEW j \in I, i # j PROVE rank[i] # rank[j]
    OBVIOUS
  <2>2. i < j \/ j < i
    BY <2>1
  <2> QED BY <1>3, <1>4, <2>2
<1> HIDE DEF rank
<1>6. rank \in Injection(I, 1 .. C)
  BY <1>3, <1>5 DEF Injection, IsInjective, rank
<1>7. rank \in Surjection(I, 1 .. C)
  <2>1. IsFiniteSet(1 .. C) /\ Cardinality(1 .. C) = C
    BY <1>1, FS_Interval
  <2> HIDE DEF C
  <2> QED BY <1>6, <2>1, FS_Injection DEF C
<1>8. \A k \in 1 .. C : \E i \in I : rank[i] = k
  BY <1>7 DEF Surjection
<1>9. \A k \in 1 .. C : Nth(I, k) = CHOOSE i \in I : Cardinality(Below(i)) = k - 1
  BY DEF Nth
<1>10. ASSUME NEW k \in 1 .. C PROVE Nth(I, k) \in I /\ rank[Nth(I, k)] = k
  <2>1. PICK i \in I : rank[i] = k
    BY <1>8
  <2>2. Cardinality(Below(i)) = k - 1
    BY <1>2, <2>1 DEF rank
  <2>3. Nth(I, k) \in I /\ Cardinality(Below(Nth(I, k))) = k - 1
    BY <1>9, <2>2
  <2> QED BY <2>3 DEF rank
<1>11. ASSUME NEW i \in I PROVE \E k \in 1 .. C : Nth(I, k) = i
  BY <1>3, <1>5, <1>10
<1> QED BY <1>1, <1>10, <1>11

\* What is picked: an element for each index, at its place in the order.
LEMMA PickIs ==
  ASSUME NEW n \in Nat, NEW s, DOMAIN s = 1 .. n, NEW I \in SUBSET (1 .. n)
  PROVE  /\ Cardinality(I) \in Nat /\ DOMAIN Pick(s, I) = 1 .. Cardinality(I)
         /\ Len(Pick(s, I)) = Cardinality(I)
         /\ \A S : (\A i \in I : s[i] \in S) => Pick(s, I) \in Seq(S)
         /\ \A k \in DOMAIN Pick(s, I) : Nth(I, k) \in I /\ Pick(s, I)[k] = s[Nth(I, k)]
         /\ \A k, l \in DOMAIN Pick(s, I) : Nth(I, k) = Nth(I, l) => k = l
         /\ \A i \in I : \E k \in DOMAIN Pick(s, I) : Nth(I, k) = i /\ Pick(s, I)[k] = s[i]
<1>1. /\ Cardinality(I) \in Nat
      /\ \A k \in 1 .. Cardinality(I) : Nth(I, k) \in I
      /\ \A k, l \in 1 .. Cardinality(I) : Nth(I, k) = Nth(I, l) => k = l
      /\ \A i \in I : \E k \in 1 .. Cardinality(I) : Nth(I, k) = i
  BY NthCounts
<1>2. /\ DOMAIN Pick(s, I) = 1 .. Cardinality(I)
      /\ \A k \in 1 .. Cardinality(I) : Pick(s, I)[k] = s[Nth(I, k)]
  BY DEF Pick
<1>3. \A S : (\A i \in I : s[i] \in S) => Pick(s, I) \in [1 .. Cardinality(I) -> S]
  BY <1>1 DEF Pick
<1>4. \A m \in Nat : \A S, f : f \in [1 .. m -> S] => f \in Seq(S) /\ Len(f) = m
  OBVIOUS
<1>5. \A S : (\A i \in I : s[i] \in S) => Pick(s, I) \in Seq(S)
  BY <1>1, <1>3, <1>4
<1>6. Len(Pick(s, I)) = Cardinality(I)
  <2>1. Pick(s, I) \in [1 .. Cardinality(I) -> {s[i] : i \in I}]
    BY <1>3
  <2> QED BY <1>1, <1>4, <2>1
<1> QED BY <1>1, <1>2, <1>5, <1>6

LEMMA DivIs ==
  ASSUME NEW a \in Nat, NEW b \in Nat \ {0}
  PROVE  a \div b \in Nat /\ (a \div b) * b <= a /\ a < (a \div b) * b + b
OBVIOUS

\* Fewer blocks of one size end no later.
LEMMA BlocksInOrder ==
  ASSUME NEW b \in Nat, NEW p \in Nat, NEW q \in Nat, p < q
  PROVE  p * b \in Nat /\ q * b \in Nat /\ (p + 1) * b = p * b + b /\ (p + 1) * b <= q * b
<1>1. PICK d \in Nat : q = p + 1 + d
  <2>1. q = p + 1 + (q - p - 1) /\ q - p - 1 \in Nat
    OBVIOUS
  <2> QED BY <2>1
<1>2. q * b = p * b + b + d * b /\ d * b \in Nat /\ p * b \in Nat
  BY <1>1
<1> QED BY <1>2

\* The parts of a list: each holds at most PartSize entries, one after another, none is
\* empty, every entry is in one and none in two.
InPart(k, p) == (p - 1) * PartSize < k /\ k <= p * PartSize
Blocks(es) == (Len(es) + PartSize - 1) \div PartSize
LEMMA PartsAre ==
  ASSUME NEW S, NEW es \in Seq(S)
  PROVE  LET n == Len(es)
             N == Blocks(es) IN
         /\ n \in Nat /\ N \in Nat /\ DOMAIN Parts(es, PartSize) = 1 .. N /\ (n > 0 => N > 0)
         /\ \A p \in 1 .. N : \A c :
              c \in About(Parts(es, PartSize)[p]) <=> \E k \in 1 .. n : es[k].c = c /\ InPart(k, p)
         /\ \A k \in 1 .. n : \E p \in 1 .. N : InPart(k, p)
         /\ \A k \in 1 .. n, p, q \in 1 .. N : InPart(k, p) /\ InPart(k, q) => p = q
<1> DEFINE n == Len(es)
           N == Blocks(es)
           last(p) == IF p * PartSize < n THEN p * PartSize ELSE n
<1>1. PartSize \in Nat \ {0}
  BY ChecksAssumption
<1> USE <1>1 DEF InPart
<1>2. n \in Nat /\ DOMAIN es = 1 .. n /\ es \in [1 .. n -> S]
  BY LenProperties
<1>3. n + PartSize - 1 \in Nat
  BY <1>2
<1> HIDE DEF n
<1>4. N \in Nat /\ N * PartSize <= n + PartSize - 1 /\ n + PartSize - 1 < N * PartSize + PartSize
  <2>1. N = (n + PartSize - 1) \div PartSize
    BY DEF Blocks, n
  <2> HIDE DEF N
  <2> QED BY <1>3, <2>1, DivIs
<1> HIDE DEF N
<1>5. N * PartSize \in Nat /\ n <= N * PartSize /\ N * PartSize < n + PartSize
  BY <1>2, <1>4
<1>6. n > 0 => N > 0
  BY <1>2, <1>4, <1>5
<1>7. /\ DOMAIN Parts(es, PartSize) = 1 .. N
      /\ \A p \in 1 .. N : Parts(es, PartSize)[p] = SubSeq(es, (p - 1) * PartSize + 1, last(p))
  BY DEF Parts, n, N, Blocks
<1>8. ASSUME NEW p \in 1 .. N
      PROVE  About(Parts(es, PartSize)[p]) = {es[k].c : k \in {j \in 1 .. n : InPart(j, p)}}
  <2> DEFINE lo == (p - 1) * PartSize
             part == SubSeq(es, lo + 1, last(p))
  <2>1. p - 1 \in Nat /\ p \in Nat /\ lo \in Nat /\ p * PartSize = lo + PartSize
    <3>1. p - 1 \in Nat /\ (p - 1) + 1 = p
      BY <1>4
    <3>2. p - 1 < p
      BY <3>1
    <3> QED BY <3>1, <3>2, BlocksInOrder
  <2> HIDE DEF lo
  <2>2. last(p) \in Nat /\ last(p) <= n
    BY <1>2, <2>1
  <2>3. lo < last(p)
    <3>1. lo + PartSize <= N * PartSize
      <4>1. p - 1 < N /\ (p - 1) + 1 = p
        BY <1>4, <2>1
      <4> QED BY <1>4, <2>1, <4>1, BlocksInOrder DEF lo
    <3>2. lo < n
      BY <1>2, <1>5, <2>1, <3>1
    <3> QED BY <1>2, <2>1, <3>2
  <2> HIDE DEF last
  <2>4. \A i \in lo + 1 .. last(p) : es[i] \in S
    BY <1>2, <2>1, <2>2
  <2>5. Len(part) = last(p) - lo /\ \A i \in 1 .. last(p) - lo : part[i] = es[lo + i]
    <3>1. lo + 1 \in Int /\ last(p) \in Int
      BY <2>1, <2>2
    <3>2. /\ Len(part) = IF lo + 1 <= last(p) THEN last(p) - (lo + 1) + 1 ELSE 0
          /\ \A i \in 1 .. last(p) - (lo + 1) + 1 : part[i] = es[(lo + 1) + i - 1]
      BY <2>4, <3>1, SubSeqProperties
    <3>3. last(p) - (lo + 1) + 1 = last(p) - lo /\ lo + 1 <= last(p)
      BY <2>1, <2>2, <2>3
    <3>4. \A i \in 1 .. last(p) - lo : (lo + 1) + i - 1 = lo + i
      BY <2>1, <2>2
    <3> QED BY <3>2, <3>3, <3>4
  <2> HIDE DEF part
  <2>6. About(part) = {part[i].c : i \in 1 .. last(p) - lo}
    BY <2>5 DEF About
  <2>7. \A i \in 1 .. last(p) - lo : lo + i \in 1 .. n /\ lo < lo + i /\ lo + i <= p * PartSize
    BY <1>2, <2>1, <2>2 DEF last
  <2>8. \A k \in 1 .. n : InPart(k, p) => k - lo \in 1 .. last(p) - lo /\ lo + (k - lo) = k
    BY <1>2, <2>1, <2>2 DEF last, lo
  <2>9. {part[i].c : i \in 1 .. last(p) - lo} = {es[k].c : k \in {j \in 1 .. n : InPart(j, p)}}
    BY <2>5, <2>7, <2>8 DEF lo
  <2>10. Parts(es, PartSize)[p] = part
    BY <1>7 DEF part, lo, last
  <2> QED BY <2>6, <2>9, <2>10
<1>9. ASSUME NEW k \in 1 .. n PROVE \E p \in 1 .. N : InPart(k, p)
  <2> DEFINE q == (k - 1) \div PartSize
  <2>1. k - 1 \in Nat /\ k \in Nat /\ k <= n
    BY <1>2
  <2>2. q \in Nat /\ q * PartSize <= k - 1 /\ k - 1 < q * PartSize + PartSize
    BY <2>1, DivIs
  <2> HIDE DEF q
  <2>3. q < q + 1 /\ q + 1 \in Nat
    BY <2>2
  <2>4. q * PartSize \in Nat /\ (q + 1) * PartSize = q * PartSize + PartSize
    BY <2>2, <2>3, BlocksInOrder
  <2>5. q < N
    <3>1. SUFFICES ASSUME ~(q < N) PROVE FALSE
      OBVIOUS
    <3>2. CASE N < q
      <4>1. (N + 1) * PartSize <= q * PartSize /\ (N + 1) * PartSize = N * PartSize + PartSize
        BY <1>4, <2>2, <3>2, BlocksInOrder
      <4> QED BY <1>2, <1>5, <2>1, <2>2, <2>4, <4>1
    <3>3. CASE N = q
      BY <1>2, <1>5, <2>1, <2>2, <2>4, <3>3
    <3> QED BY <1>4, <2>2, <3>1, <3>2, <3>3
  <2>6. q + 1 \in 1 .. N /\ (q + 1) - 1 = q
    BY <1>4, <2>2, <2>5
  <2>7. InPart(k, q + 1)
    BY <2>1, <2>2, <2>4, <2>6
  <2> QED BY <2>6, <2>7
<1>10. ASSUME NEW k \in 1 .. n, NEW p \in 1 .. N, NEW q \in 1 .. N, InPart(k, p), InPart(k, q), p < q
      PROVE  FALSE
  <2>1. p - 1 \in Nat /\ q - 1 \in Nat /\ p - 1 < q - 1 /\ (p - 1) + 1 = p
    BY <1>4, <1>10
  <2>2. p * PartSize <= (q - 1) * PartSize /\ p * PartSize \in Nat /\ (q - 1) * PartSize \in Nat
    BY <2>1, BlocksInOrder
  <2> QED BY <1>2, <1>10, <2>2
<1>11. \A k \in 1 .. n, p, q \in 1 .. N : InPart(k, p) /\ InPart(k, q) => p = q
  <2>1. SUFFICES ASSUME NEW k \in 1 .. n, NEW p \in 1 .. N, NEW q \in 1 .. N, InPart(k, p), InPart(k, q), p # q
                 PROVE  FALSE
    OBVIOUS
  <2>2. p < q \/ q < p
    BY <1>4, <2>1
  <2> QED BY <1>10, <2>1, <2>2
<1>12. \A p \in 1 .. N : \A c : c \in About(Parts(es, PartSize)[p]) <=> \E k \in 1 .. n : es[k].c = c /\ InPart(k, p)
  BY <1>8
<1> QED BY <1>2, <1>4, <1>6, <1>7, <1>9, <1>11, <1>12 DEF n, N

\* Among finitely many rules one comes first.
LEMMA FirstIs ==
  ASSUME NEW rules \in SUBSET Rules, rules # {}
  PROVE  First(rules) \in rules
<1> DEFINE Before(r, q) == r.priority > q.priority \/ (r.priority = q.priority /\ r.id =< q.id)
           Best(s) == \E r \in s : \A q \in s : Before(r, q)
           T == {s \in SUBSET Rules : s # {} => Best(s)}
<1>1. IsFiniteSet(Rules) /\ \A r \in Rules : r.id \in Int /\ r.priority \in Int
  BY ChecksAssumption
<1>2. {} \in T
  OBVIOUS
<1>3. ASSUME NEW s \in (SUBSET Rules) \ {{}}, NEW x \in s, s \ {x} \in T PROVE s \in T
  <2>1. CASE s \ {x} = {}
    <3>1. s = {x} /\ Before(x, x)
      BY <1>1, <2>1
    <3>2. Best(s)
      BY <3>1
    <3> QED BY <3>2
  <2>2. CASE s \ {x} # {}
    <3>1. PICK r \in s \ {x} : \A q \in s \ {x} : Before(r, q)
      BY <1>3, <2>2
    <3>2. CASE Before(r, x)
      <4>1. Best(s)
        BY <3>1, <3>2
      <4> QED BY <4>1
    <3>3. CASE ~Before(r, x)
      <4>1. Before(x, r) /\ Before(x, x)
        BY <1>1, <3>3
      <4>2. \A q \in s \ {x} : Before(x, q)
        <5>1. SUFFICES ASSUME NEW q \in s \ {x} PROVE Before(x, q)
          OBVIOUS
        <5>2. Before(r, q)
          BY <3>1
        <5>3. /\ r.id \in Int /\ r.priority \in Int /\ q.id \in Int /\ q.priority \in Int
              /\ x.id \in Int /\ x.priority \in Int
          BY <1>1
        <5> QED BY <4>1, <5>2, <5>3
      <4>3. Best(s)
        BY <4>1, <4>2
      <4> QED BY <4>3
    <3> QED BY <3>2, <3>3
  <2> QED BY <2>1, <2>2
<1> HIDE DEF T
<1>4. \A s \in SUBSET Rules : s \in T
  <2>1. \A s \in (SUBSET Rules) \ {{}} : \E x \in s : s \ {x} \in T => s \in T
    BY <1>3
  <2> QED BY <1>1, <1>2, <2>1, SubsetInduction
<1>5. \E r \in rules : \A q \in rules : Before(r, q)
  BY <1>4 DEF T
<1> QED BY <1>5 DEF First

\* A rule that is due is one of the rules.
LEMMA DueIsARule ==
  ASSUME NEW i \in Items, NEW d \in Days, DueRule[i][d] # NoRule
  PROVE  DueRule[i][d] \in Rules
<1>1. DueRule[i][d] = RuleDue(Rules, i, d, WorkingDays)
  BY DEF DueRule
<1>2. \A anchor, n, w : MatchRule(Rules, anchor, n, w) # NoRule => MatchRule(Rules, anchor, n, w) \in Rules
  <2>1. SUFFICES ASSUME NEW anchor, NEW n, NEW w, MatchRule(Rules, anchor, n, w) # NoRule
                 PROVE  MatchRule(Rules, anchor, n, w) \in Rules
    OBVIOUS
  <2> DEFINE fit == {r \in Rules : r.active /\ r.anchor = anchor /\ IsRuleDue(r, n, w)}
  <2>2. MatchRule(Rules, anchor, n, w) = First(fit) /\ fit \in SUBSET Rules
    BY DEF MatchRule
  <2> HIDE DEF fit
  <2>3. fit # {}
    BY <2>1, <2>2 DEF First
  <2> QED BY <2>2, <2>3, FirstIs
<1>3. \A k : RuleOfDay(Rules, i, d - k) # NoRule => RuleOfDay(Rules, i, d - k) \in Rules
  BY <1>2 DEF RuleOfDay
<1> DEFINE hits == {k \in Gap(d, WorkingDays) : RuleOfDay(Rules, i, d - k) # NoRule}
<1>4. IsWorkingDay(d, WorkingDays) /\ hits # {}
      /\ DueRule[i][d] = RuleOfDay(Rules, i, d - (CHOOSE k \in hits : \A j \in hits : k =< j))
  BY <1>1 DEF RuleDue
<1> QED BY <1>3, <1>4

\* The recruiters are finitely many.
LEMMA RecruitersFinite == IsFiniteSet(Recruiters)
<1>1. /\ Clawbacks \in Seq(Range(Clawbacks)) /\ IsInjective(Clawbacks)
      /\ \A c \in Range(Clawbacks) : IsFiniteSet(LaterItems[c])
  BY ChecksAssumption
<1> DEFINE n == Len(Clawbacks)
           firsts == [k \in 1 .. n |-> FirstItem[Clawbacks[k]]]
           laters == [k \in 1 .. n |-> LaterItems[Clawbacks[k]]]
<1>2. n \in Nat /\ DOMAIN Clawbacks = 1 .. n /\ Range(Clawbacks) = {Clawbacks[k] : k \in 1 .. n}
  BY <1>1, LenProperties DEF Range
<1>3. IsFiniteSet(1 .. n)
  BY <1>2, FS_Interval
<1>4. \A S, f : f \in [1 .. n -> S] /\ S = {f[k] : k \in 1 .. n} => IsFiniteSet(S)
  <2>1. SUFFICES ASSUME NEW S, NEW f \in [1 .. n -> S], S = {f[k] : k \in 1 .. n} PROVE IsFiniteSet(S)
    OBVIOUS
  <2>2. f \in Surjection(1 .. n, S)
    BY <2>1 DEF Surjection
  <2> QED BY <1>3, <2>2, FS_Surjection
<1>5. IsFiniteSet({FirstItem[c] : c \in Range(Clawbacks)})
  <2>1. {FirstItem[c] : c \in Range(Clawbacks)} = {firsts[k] : k \in 1 .. n}
    BY <1>2
  <2>2. firsts \in [1 .. n -> {firsts[k] : k \in 1 .. n}]
    OBVIOUS
  <2> HIDE DEF firsts
  <2> QED BY <1>4, <2>1, <2>2
<1>6. IsFiniteSet({LaterItems[c] : c \in Range(Clawbacks)})
  <2>1. {LaterItems[c] : c \in Range(Clawbacks)} = {laters[k] : k \in 1 .. n}
    BY <1>2
  <2>2. laters \in [1 .. n -> {laters[k] : k \in 1 .. n}]
    OBVIOUS
  <2> HIDE DEF laters
  <2> QED BY <1>4, <2>1, <2>2
<1>7. IsFiniteSet(UNION {LaterItems[c] : c \in Range(Clawbacks)})
  BY <1>1, <1>6, FS_UNION
<1>8. IsFiniteSet(Items)
  BY <1>5, <1>7, FS_Union DEF Items
<1> DEFINE f == [i \in Items |-> i.recruiter]
<1>9. f \in Surjection(Items, Recruiters)
  BY DEF Recruiters, Surjection
<1> HIDE DEF f
<1> QED BY <1>8, <1>9, FS_Surjection

-----------------------------------------------------------------------------
(* Who is told what on a day (ClawbackChecks) *)

\* A message of one entry, and a part of the list of r.
Single(m, e) == m = Message(Key(e), IF e.recruiter = "none" THEN {} ELSE {e.c})
PartOf(m, r, p, entries) == /\ m = Message(BatchKey(r, p), m.about) /\ r # "none"
                            /\ \A c \in m.about : \E i \in DOMAIN entries :
                                 entries[i].c = c /\ entries[i].recruiter = r

\* Entries of clawbacks that are all different.
Kinds == {"final_validation", "reminder"}
Different(entries) == /\ entries \in Seq(Range(entries))
                      /\ \A i \in DOMAIN entries : entries[i].kind \in Kinds
                      /\ \A i, j \in DOMAIN entries : entries[i].c = entries[j].c => i = j

\* The messages for one recruiter: of one entry or part of the list, no two about one
\* clawback or under one key, the first part first, and everybody is in one.
LEMMA MessagesAre ==
  ASSUME NEW E, Different(E), NEW r
  PROVE  LET M == MessagesFor(E, r) IN
         /\ \E n \in Nat : DOMAIN M = 1 .. n
         /\ M \in Seq(Range(M))
         /\ \A k \in DOMAIN M :
              /\ \E i \in DOMAIN E : E[i].recruiter = r
              /\ \/ \E i \in DOMAIN E : E[i].recruiter = r /\ Single(M[k], E[i])
                 \/ \E p \in Nat : PartOf(M[k], r, p, E)
         /\ \A k, l \in DOMAIN M : M[k].key = M[l].key \/ M[k].about \cap M[l].about # {} => k = l
         /\ \A k \in DOMAIN M : (\E p \in Nat : M[k].key = BatchKey(r, p)) => M[1].key = BatchKey(r, 1)
         /\ r # "none" => \A i \in DOMAIN E : E[i].recruiter = r => \E k \in DOMAIN M : E[i].c \in M[k].about
<1> DEFINE I == {i \in DOMAIN E : E[i].recruiter = r}
           es == Pick(E, I)
           parts == Parts(es, PartSize)
           M == MessagesFor(E, r)
           singles == [p \in DOMAIN es |-> Message(Key(es[p]), {es[p].c})]
           unknown == [p \in DOMAIN es |-> Message(Key(es[p]), {})]
           list == [p \in DOMAIN parts |-> Message(BatchKey(r, p), About(parts[p]))]
<1>1. M = IF r = "none" THEN unknown ELSE IF es # <<>> /\ combine THEN list ELSE singles
  BY DEF MessagesFor
<1>2. Len(E) \in Nat /\ DOMAIN E = 1 .. Len(E)
  BY LenProperties DEF Different
<1>3. I \in SUBSET (1 .. Len(E))
  BY <1>2
<1>4. /\ Cardinality(I) \in Nat /\ DOMAIN es = 1 .. Cardinality(I)
      /\ Len(es) = Cardinality(I) /\ es \in Seq(Range(E))
      /\ \A k \in DOMAIN es : Nth(I, k) \in I /\ es[k] = E[Nth(I, k)]
      /\ \A k, l \in DOMAIN es : Nth(I, k) = Nth(I, l) => k = l
      /\ \A i \in I : \E k \in DOMAIN es : Nth(I, k) = i /\ es[k] = E[i]
  <2>1. \A i \in I : E[i] \in Range(E)
    BY DEF Range
  <2> HIDE DEF I
  <2> QED BY <1>2, <1>3, <2>1, PickIs
<1>5. /\ \A k \in DOMAIN es : \E i \in DOMAIN E : es[k] = E[i] /\ E[i].recruiter = r
      /\ \A k \in DOMAIN es : es[k].recruiter = r /\ es[k].kind \in Kinds
      /\ \A k, l \in DOMAIN es : es[k].c = es[l].c => k = l
      /\ \A i \in DOMAIN E : E[i].recruiter = r => \E k \in DOMAIN es : es[k] = E[i]
  <2> HIDE DEF es
  <2>1. \A k \in DOMAIN es : LET i == Nth(I, k) IN i \in DOMAIN E /\ es[k] = E[i] /\ E[i].recruiter = r
    BY <1>4
  <2>2. \A k \in DOMAIN es : es[k].recruiter = r /\ es[k].kind \in Kinds
    BY <2>1 DEF Different
  <2>3. \A k, l \in DOMAIN es : es[k].c = es[l].c => k = l
    BY <1>4, <2>1 DEF Different
  <2>4. \A i \in DOMAIN E : E[i].recruiter = r => \E k \in DOMAIN es : es[k] = E[i]
    BY <1>4
  <2> QED BY <2>1, <2>2, <2>3, <2>4
<1>6. DOMAIN es = 1 .. Len(es) /\ Len(es) \in Nat
  BY <1>4
<1> HIDE DEF es, I
<1> DEFINE N == Blocks(es)
<1>7. /\ N \in Nat /\ DOMAIN parts = 1 .. N /\ (Len(es) > 0 => N > 0)
      /\ \A p \in 1 .. N : \A c :
           c \in About(parts[p]) <=> \E k \in 1 .. Len(es) : es[k].c = c /\ InPart(k, p)
      /\ \A k \in 1 .. Len(es) : \E p \in 1 .. N : InPart(k, p)
      /\ \A k \in 1 .. Len(es), p, q \in 1 .. N : InPart(k, p) /\ InPart(k, q) => p = q
  BY <1>4, PartsAre
<1> HIDE DEF M, N, parts
<1>8. /\ \E n \in Nat : DOMAIN M = 1 .. n
      /\ \A k \in DOMAIN M :
           /\ \E i \in DOMAIN E : E[i].recruiter = r
           /\ \/ \E i \in DOMAIN E : E[i].recruiter = r /\ Single(M[k], E[i])
              \/ \E p \in Nat : PartOf(M[k], r, p, E)
      /\ \A k, l \in DOMAIN M : M[k].key = M[l].key \/ M[k].about \cap M[l].about # {} => k = l
      /\ \A k \in DOMAIN M : (\E p \in Nat : M[k].key = BatchKey(r, p)) => M[1].key = BatchKey(r, 1)
      /\ r # "none" => \A i \in DOMAIN E : E[i].recruiter = r => \E k \in DOMAIN M : E[i].c \in M[k].about
  <2>1. CASE r = "none"
    <3>1. M = unknown /\ DOMAIN M = DOMAIN es /\ \A k \in DOMAIN M : M[k].key = Key(es[k]) /\ M[k].about = {}
      BY <1>1, <2>1 DEF Message
    <3>2. \A k \in DOMAIN M : Single(M[k], es[k])
      BY <1>1, <1>5, <2>1 DEF Single
    <3>3. \A k \in DOMAIN M : \A p : M[k].key # BatchKey(r, p)
      BY <1>5, <3>1 DEF Key, BatchKey, Kinds
    <3>4. \A k, l \in DOMAIN M : M[k].key = M[l].key => k = l
      BY <1>5, <3>1 DEF Key
    <3>5. \E n \in Nat : DOMAIN M = 1 .. n
      BY <1>6, <3>1
    <3>6. \A k \in DOMAIN M : \E i \in DOMAIN E : E[i].recruiter = r /\ Single(M[k], E[i])
      BY <1>5, <3>1, <3>2
    <3>7. \A k, l \in DOMAIN M : M[k].about \cap M[l].about = {}
      BY <3>1
    <3>8. \A k \in DOMAIN M : \E i \in DOMAIN E : E[i].recruiter = r
      BY <3>6
    <3> QED BY <2>1, <3>3, <3>4, <3>5, <3>6, <3>7, <3>8
  <2>2. CASE r # "none" /\ ~(es # <<>> /\ combine)
    <3>1. M = singles /\ DOMAIN M = DOMAIN es
          /\ \A k \in DOMAIN M : M[k].key = Key(es[k]) /\ M[k].about = {es[k].c}
      BY <1>1, <2>2 DEF Message
    <3>2. \A k \in DOMAIN M : Single(M[k], es[k])
      BY <1>1, <1>5, <2>2 DEF Single
    <3>3. \A k \in DOMAIN M : \A p : M[k].key # BatchKey(r, p)
      BY <1>5, <3>1 DEF Key, BatchKey, Kinds
    <3>4. \A k, l \in DOMAIN M : M[k].key = M[l].key \/ M[k].about \cap M[l].about # {} => k = l
      BY <1>5, <3>1 DEF Key
    <3>5. \E n \in Nat : DOMAIN M = 1 .. n
      BY <1>6, <3>1
    <3>6. \A k \in DOMAIN M : \E i \in DOMAIN E : E[i].recruiter = r /\ Single(M[k], E[i])
      BY <1>5, <3>1, <3>2
    <3>7. \A i \in DOMAIN E : E[i].recruiter = r => \E k \in DOMAIN M : E[i].c \in M[k].about
      BY <1>5, <3>1
    <3> QED BY <3>3, <3>4, <3>5, <3>6, <3>7
  <2>3. CASE r # "none" /\ es # <<>> /\ combine
    <3>1. M = list /\ DOMAIN M = 1 .. N
          /\ \A p \in DOMAIN M : /\ M[p].key = BatchKey(r, p)
                                 /\ \A c : c \in M[p].about <=> \E k \in 1 .. Len(es) : es[k].c = c /\ InPart(k, p)
                                 /\ M[p] = Message(BatchKey(r, p), M[p].about)
      BY <1>1, <1>7, <2>3 DEF Message
    <3>2. Len(es) > 0
      BY <1>4, <2>3, EmptySeq
    <3>3. 1 \in DOMAIN M
      BY <1>7, <3>1, <3>2
    <3>4. \E i \in DOMAIN E : E[i].recruiter = r
      <4>1. 1 \in DOMAIN es
        BY <1>6, <3>2
      <4> QED BY <1>5, <4>1
    <3>5. ASSUME NEW p \in DOMAIN M PROVE p \in Nat /\ PartOf(M[p], r, p, E)
      <4>1. \A c \in M[p].about : \E i \in DOMAIN E : E[i].c = c /\ E[i].recruiter = r
        BY <1>5, <1>6, <3>1
      <4> QED BY <1>7, <2>3, <3>1, <4>1 DEF PartOf
    <3>6. ASSUME NEW p \in DOMAIN M, NEW q \in DOMAIN M, M[p].key = M[q].key PROVE p = q
      <4>1. BatchKey(r, p) = BatchKey(r, q)
        BY <3>1, <3>6
      <4> QED BY <4>1 DEF BatchKey
    <3>7. ASSUME NEW p \in DOMAIN M, NEW q \in DOMAIN M, M[p].about \cap M[q].about # {} PROVE p = q
      <4>1. PICK c \in M[p].about : c \in M[q].about
        BY <3>7
      <4>2. PICK k \in 1 .. Len(es) : es[k].c = c /\ InPart(k, p)
        BY <3>1, <4>1
      <4>3. PICK l \in 1 .. Len(es) : es[l].c = c /\ InPart(l, q)
        BY <3>1, <4>1
      <4>4. k = l
        BY <1>5, <1>6, <4>2, <4>3
      <4> QED BY <1>7, <3>1, <4>2, <4>3, <4>4
    <3>8. ASSUME NEW i \in DOMAIN E, E[i].recruiter = r PROVE \E k \in DOMAIN M : E[i].c \in M[k].about
      <4>1. PICK k \in 1 .. Len(es) : es[k] = E[i]
        BY <1>5, <1>6, <3>8
      <4>2. PICK p \in 1 .. N : InPart(k, p)
        BY <1>7
      <4> QED BY <3>1, <4>1, <4>2
    <3>9. M[1].key = BatchKey(r, 1)
      BY <3>1, <3>3
    <3>10. \E n \in Nat : DOMAIN M = 1 .. n
      BY <1>7, <3>1
    <3> QED BY <2>3, <3>4, <3>5, <3>6, <3>7, <3>8, <3>9, <3>10
  <2> QED BY <2>1, <2>2, <2>3
<1>9. M \in Seq(Range(M))
  <2>1. PICK n \in Nat : DOMAIN M = 1 .. n
    BY <1>8
  <2>2. M \in [1 .. n -> Range(M)]
    <3>1. M = [k \in 1 .. n |-> M[k]]
      BY <1>1, <2>1
    <3> QED BY <2>1, <3>1 DEF Range
  <2> QED BY <2>2
<1> QED BY <1>8, <1>9 DEF M

\* A message for r is under a key of r, and about clawbacks of r.
LEMMA OwnKeys ==
  ASSUME NEW E, Different(E), NEW r, NEW k \in DOMAIN MessagesFor(E, r)
  PROVE  /\ MessagesFor(E, r)[k].key[4] = r
         /\ \A c \in MessagesFor(E, r)[k].about : \E i \in DOMAIN E : E[i].c = c /\ E[i].recruiter = r
<1> DEFINE m == MessagesFor(E, r)[k]
<1>1. \/ \E i \in DOMAIN E : E[i].recruiter = r /\ Single(m, E[i])
      \/ \E p \in Nat : PartOf(m, r, p, E)
  BY MessagesAre
<1> HIDE DEF m
<1>2. ASSUME NEW i \in DOMAIN E, E[i].recruiter = r, Single(m, E[i]) PROVE m.key[4] = r
  BY <1>2 DEF Single, Message, Key
<1>3. ASSUME NEW p \in Nat, PartOf(m, r, p, E) PROVE m.key[4] = r
  <2>1. m.key = BatchKey(r, p)
    BY <1>3 DEF PartOf, Message
  <2> QED BY <2>1 DEF BatchKey
<1>4. m.key[4] = r
  BY <1>1, <1>2, <1>3
<1>5. ASSUME NEW c \in m.about PROVE \E i \in DOMAIN E : E[i].c = c /\ E[i].recruiter = r
  <2>1. ASSUME NEW i \in DOMAIN E, E[i].recruiter = r, Single(m, E[i]) PROVE E[i].c = c
    BY <1>5, <2>1 DEF Single, Message
  <2>2. ASSUME NEW p \in Nat, PartOf(m, r, p, E) PROVE \E i \in DOMAIN E : E[i].c = c /\ E[i].recruiter = r
    BY <1>5, <2>2 DEF PartOf
  <2> QED BY <1>1, <2>1, <2>2
<1> QED BY <1>4, <1>5 DEF m

\* The plan of a pass: the messages of all recruiters, the first part of a list first.
LEMMA PlanIs ==
  ASSUME NEW E, Different(E)
  PROVE  LET P == Plan(E) IN
         /\ P \in Seq(Range(P))
         /\ \A m \in Range(P) : \E r \in Recruiters : m \in Range(MessagesFor(E, r))
         /\ \A r \in Recruiters : Range(MessagesFor(E, r)) \subseteq Range(P)
         /\ \A r : \A k \in DOMAIN P :
              (\E p \in Nat : P[k].key = BatchKey(r, p)) => \E j \in 1 .. k : P[j].key = BatchKey(r, 1)
<1> DEFINE All == UNION {Range(MessagesFor(E, r)) : r \in Recruiters}
           F == [x \in Seq(All) \X Recruiters |-> x[1] \o MessagesFor(E, x[2])]
           c == [s \in (SUBSET Recruiters) \ {{}} |-> CHOOSE x \in s : TRUE]
           Folded(g) == g = [s \in SUBSET Recruiters |->
                               IF s = {} THEN <<>>
                               ELSE g[s \ {CHOOSE x \in s : TRUE}] \o MessagesFor(E, CHOOSE x \in s : TRUE)]
           h == CHOOSE g : Folded(g)
<1>1. ASSUME NEW r \in Recruiters PROVE MessagesFor(E, r) \in Seq(All)
  <2>1. MessagesFor(E, r) \in Seq(Range(MessagesFor(E, r)))
    BY MessagesAre
  <2>2. Range(MessagesFor(E, r)) \subseteq All
    OBVIOUS
  <2> HIDE DEF All
  <2> QED BY <2>1, <2>2, SeqMonotonic
<1> HIDE DEF All
<1>2. F \in [Seq(All) \X Recruiters -> Seq(All)]
  <2>1. ASSUME NEW x \in Seq(All) \X Recruiters PROVE x[1] \o MessagesFor(E, x[2]) \in Seq(All)
    <3>1. x[1] \in Seq(All) /\ MessagesFor(E, x[2]) \in Seq(All)
      BY <1>1
    <3> QED BY <3>1, ConcatProperties
  <2> QED BY <2>1
<1>3. /\ c \in [(SUBSET Recruiters) \ {{}} -> Recruiters]
      /\ \A s \in (SUBSET Recruiters) \ {{}} : c[s] \in s /\ c[s] = CHOOSE x \in s : TRUE
  OBVIOUS
<1> HIDE DEF c
<1>4. <<>> \in Seq(All)
  BY EmptySeq
<1>5. PICK g \in [SUBSET Recruiters -> Seq(All)] :
        /\ g[{}] = <<>>
        /\ \A s \in (SUBSET Recruiters) \ {{}} : g[s] = F[<<g[s \ {c[s]}], c[s]>>]
  <2>1. Step(F, Seq(All), Recruiters) /\ Choice(c, Recruiters)
    BY <1>2, <1>3 DEF Step, Choice
  <2>2. PICK g : Fold(g, Recruiters, Seq(All), <<>>, F, c)
    BY <1>4, <2>1, RecruitersFinite, FoldExists
  <2> QED BY <2>2 DEF Fold
<1>6. Folded(g)
  <2>1. ASSUME NEW s \in SUBSET Recruiters, s # {}
        PROVE  g[s] = g[s \ {CHOOSE x \in s : TRUE}] \o MessagesFor(E, CHOOSE x \in s : TRUE)
    <3>1. c[s] \in Recruiters /\ s \ {c[s]} \in SUBSET Recruiters /\ c[s] = CHOOSE x \in s : TRUE
      BY <1>3, <2>1
    <3>2. g[s \ {c[s]}] \in Seq(All)
      BY <3>1
    <3>3. <<g[s \ {c[s]}], c[s]>> \in Seq(All) \X Recruiters
      BY <3>1, <3>2
    <3>4. g[s] = F[<<g[s \ {c[s]}], c[s]>>]
      BY <1>5, <2>1
    <3>5. F[<<g[s \ {c[s]}], c[s]>>] = g[s \ {c[s]}] \o MessagesFor(E, c[s])
      BY <3>3
    <3> QED BY <3>1, <3>4, <3>5
  <2>2. g[{}] = <<>>
    BY <1>5
  <2> QED BY <2>1, <2>2
<1> HIDE DEF F
<1>7. Folded(h)
  <2> HIDE DEF Folded
  <2> QED BY <1>6
<1>8. Plan(E) = h[Recruiters]
  BY DEF Plan, FoldSet, MapThenFoldSet
<1> HIDE DEF h
<1> DEFINE First1(q) == \A r : \A k \in DOMAIN q :
             (\E p \in Nat : q[k].key = BatchKey(r, p)) => \E j \in 1 .. k : q[j].key = BatchKey(r, 1)
           Good(q, s) == /\ q \in Seq(All)
                         /\ \A m \in Range(q) : \E r \in s : m \in Range(MessagesFor(E, r))
                         /\ \A r \in s : Range(MessagesFor(E, r)) \subseteq Range(q)
                         /\ First1(q)
           T == {s \in SUBSET Recruiters : Good(h[s], s)}
<1>9. {} \in T
  <2>1. h[{}] = <<>>
    BY <1>7
  <2>2. Range(<<>>) = {} /\ DOMAIN <<>> = {}
    BY DEF Range
  <2>3. Good(<<>>, {})
    BY <1>4, <2>2
  <2> HIDE DEF Good
  <2> QED BY <2>1, <2>3
<1>10. ASSUME NEW s \in (SUBSET Recruiters) \ {{}}, s \ {CHOOSE x \in s : TRUE} \in T PROVE s \in T
  <2> DEFINE x == CHOOSE y \in s : TRUE
             a == h[s \ {x}]
             b == MessagesFor(E, x)
  <2>1. x \in s /\ x \in Recruiters
    OBVIOUS
  <2>2. h[s] = a \o b
    BY <1>7
  <2>3. Good(a, s \ {x})
    BY <1>10
  <2>4. b \in Seq(All) /\ a \in Seq(All)
    BY <1>1, <2>1, <2>3
  <2>5. /\ \A k \in DOMAIN b : (\E p \in Nat : b[k].key = BatchKey(x, p)) => b[1].key = BatchKey(x, 1)
        /\ \A k \in DOMAIN b : b[k].key[4] = x
    BY MessagesAre, OwnKeys
  <2> HIDE DEF x, a, b
  <2>6. /\ a \o b \in Seq(All) /\ Range(a \o b) = Range(a) \cup Range(b)
        /\ Len(a) \in Nat /\ Len(b) \in Nat /\ DOMAIN a = 1 .. Len(a) /\ DOMAIN b = 1 .. Len(b)
        /\ DOMAIN (a \o b) = 1 .. Len(a) + Len(b)
        /\ \A i \in 1 .. Len(a) + Len(b) : (a \o b)[i] = IF i <= Len(a) THEN a[i] ELSE b[i - Len(a)]
    BY <2>4, ConcatProperties, RangeConcatenation, LenProperties
  <2>7. \A m \in Range(a \o b) : \E r \in s : m \in Range(MessagesFor(E, r))
    <3>1. \A m \in Range(a) : \E r \in s : m \in Range(MessagesFor(E, r))
      BY <2>3
    <3>2. \A m \in Range(b) : m \in Range(MessagesFor(E, x))
      BY DEF b
    <3> QED BY <2>1, <2>6, <3>1, <3>2
  <2>8. ASSUME NEW r \in s PROVE Range(MessagesFor(E, r)) \subseteq Range(a \o b)
    <3>1. CASE r = x
      BY <2>6, <3>1 DEF b
    <3>2. CASE r # x
      <4>1. Range(MessagesFor(E, r)) \subseteq Range(a)
        BY <2>3, <3>2
      <4> QED BY <2>6, <4>1
    <3> QED BY <3>1, <3>2
  <2>9. First1(a \o b)
    <3>1. SUFFICES ASSUME NEW r, NEW k \in DOMAIN (a \o b), NEW p \in Nat, (a \o b)[k].key = BatchKey(r, p)
                   PROVE  \E j \in 1 .. k : (a \o b)[j].key = BatchKey(r, 1)
      OBVIOUS
    <3>2. CASE k <= Len(a)
      <4>1. k \in DOMAIN a /\ a[k].key = BatchKey(r, p)
        BY <2>6, <3>1, <3>2
      <4>2. PICK j \in 1 .. k : a[j].key = BatchKey(r, 1)
        BY <2>3, <4>1
      <4>3. (a \o b)[j] = a[j]
        BY <2>6, <3>2, <4>1
      <4> QED BY <4>2, <4>3
    <3>3. CASE k > Len(a)
      <4>1. k - Len(a) \in DOMAIN b /\ b[k - Len(a)].key = BatchKey(r, p)
        BY <2>6, <3>1, <3>3
      <4>2. BatchKey(r, p)[4] = r
        BY DEF BatchKey
      <4>3. r = x
        BY <2>5, <4>1, <4>2
      <4>4. b[1].key = BatchKey(r, 1)
        BY <2>5, <4>1, <4>3
      <4>5. Len(a) + 1 \in 1 .. k /\ (a \o b)[Len(a) + 1] = b[1]
        BY <2>6, <3>1, <3>3
      <4> QED BY <4>4, <4>5
    <3> QED BY <2>6, <3>2, <3>3
  <2>10. Good(a \o b, s)
    BY <2>6, <2>7, <2>8, <2>9
  <2> HIDE DEF Good
  <2> QED BY <2>2, <2>10
<1> HIDE DEF T
<1>11. \A s \in SUBSET Recruiters : s \in T
  <2>1. \A s \in (SUBSET Recruiters) \ {{}} : \E x \in s : s \ {x} \in T => s \in T
    BY <1>10
  <2> QED BY <1>9, <2>1, RecruitersFinite, SubsetInduction
<1>12. Good(h[Recruiters], Recruiters)
  BY <1>11 DEF T
<1>13. h[Recruiters] \in Seq(Range(h[Recruiters]))
  BY <1>12, SeqOfRange
<1> QED BY <1>8, <1>12, <1>13

\* What is left of the entries when those are told that sent says.
Untold(e, sent) == Key(e) \notin sent /\ BatchKey(e.recruiter, 1) \notin sent
LEMMA FreshAre ==
  ASSUME NEW E, Different(E), NEW sent
  PROVE  LET F == Fresh(E, sent) IN
         /\ Different(F)
         /\ \A k \in DOMAIN F : \E i \in DOMAIN E : F[k] = E[i] /\ Untold(E[i], sent)
         /\ \A i \in DOMAIN E : Untold(E[i], sent) => \E k \in DOMAIN F : F[k] = E[i]
<1> DEFINE I == {i \in DOMAIN E : Untold(E[i], sent)}
           F == Pick(E, I)
<1>1. Fresh(E, sent) = F
  BY DEF Fresh, Untold
<1>2. Len(E) \in Nat /\ DOMAIN E = 1 .. Len(E)
  BY LenProperties DEF Different
<1>3. I \in SUBSET (1 .. Len(E)) /\ \A i \in I : E[i] \in Range(E)
  BY <1>2 DEF Range
<1>4. \A i : i \in I <=> i \in DOMAIN E /\ Untold(E[i], sent)
  OBVIOUS
<1> HIDE DEF I
<1>5. /\ F \in Seq(Range(E)) /\ DOMAIN F = 1 .. Cardinality(I) /\ Cardinality(I) \in Nat
      /\ \A k \in DOMAIN F : Nth(I, k) \in I /\ F[k] = E[Nth(I, k)]
      /\ \A k, l \in DOMAIN F : Nth(I, k) = Nth(I, l) => k = l
      /\ \A i \in I : \E k \in DOMAIN F : Nth(I, k) = i /\ F[k] = E[i]
  BY <1>2, <1>3, PickIs
<1> HIDE DEF F
<1>6. F \in Seq(Range(F))
  BY <1>5, SeqOfRange
<1>7. \A k \in DOMAIN F : F[k].kind \in Kinds
  BY <1>4, <1>5 DEF Different
<1>8. \A k, l \in DOMAIN F : F[k].c = F[l].c => k = l
  BY <1>4, <1>5 DEF Different
<1>9. Different(F)
  BY <1>6, <1>7, <1>8 DEF Different
<1>10. \A k \in DOMAIN F : \E i \in DOMAIN E : F[k] = E[i] /\ Untold(E[i], sent)
  BY <1>4, <1>5
<1>11. \A i \in DOMAIN E : Untold(E[i], sent) => \E k \in DOMAIN F : F[k] = E[i]
  BY <1>4, <1>5
<1> QED BY <1>1, <1>9, <1>10, <1>11

\* What a pass plans to send about its entries.
LEMMA PlannedAre ==
  ASSUME NEW E, Different(E), \A i \in DOMAIN E : E[i].recruiter \in Recruiters, NEW sent
  PROVE  LET P == Plan(Fresh(E, sent)) IN
         /\ P \in Seq(Range(P))
         /\ \A m \in Range(P) :
              \/ \E i \in DOMAIN E : Single(m, E[i]) /\ Untold(E[i], sent)
              \/ \E r \in Recruiters, p \in Nat :
                   /\ PartOf(m, r, p, E) /\ BatchKey(r, 1) \notin sent
                   /\ \A c \in m.about : \E i \in DOMAIN E : E[i].c = c /\ Untold(E[i], sent)
         /\ \A m, n \in Range(P) : m.key = n.key \/ m.about \cap n.about # {} => m = n
         /\ \A r : \A k \in DOMAIN P :
              (\E p \in Nat : P[k].key = BatchKey(r, p)) => \E j \in 1 .. k : P[j].key = BatchKey(r, 1)
         /\ \A i \in DOMAIN E : Untold(E[i], sent) /\ E[i].recruiter # "none" =>
              \E m \in Range(P) : E[i].c \in m.about
<1> DEFINE F == Fresh(E, sent)
           P == Plan(F)
<1>1. /\ Different(F)
      /\ \A k \in DOMAIN F : \E i \in DOMAIN E : F[k] = E[i] /\ Untold(E[i], sent)
      /\ \A i \in DOMAIN E : Untold(E[i], sent) => \E k \in DOMAIN F : F[k] = E[i]
  BY FreshAre
<1> HIDE DEF F
<1>2. /\ P \in Seq(Range(P))
      /\ \A m \in Range(P) : \E r \in Recruiters : m \in Range(MessagesFor(F, r))
      /\ \A r \in Recruiters : Range(MessagesFor(F, r)) \subseteq Range(P)
      /\ \A r : \A k \in DOMAIN P :
           (\E p \in Nat : P[k].key = BatchKey(r, p)) => \E j \in 1 .. k : P[j].key = BatchKey(r, 1)
  BY <1>1, PlanIs
<1> HIDE DEF P
<1>3. ASSUME NEW m \in Range(P)
      PROVE  \E r \in Recruiters : \E k \in DOMAIN MessagesFor(F, r) : m = MessagesFor(F, r)[k]
  BY <1>2 DEF Range
<1>4. ASSUME NEW m \in Range(P)
      PROVE  \/ \E i \in DOMAIN E : Single(m, E[i]) /\ Untold(E[i], sent)
             \/ \E r \in Recruiters, p \in Nat :
                  /\ PartOf(m, r, p, E) /\ BatchKey(r, 1) \notin sent
                  /\ \A c \in m.about : \E i \in DOMAIN E : E[i].c = c /\ Untold(E[i], sent)
  <2>1. PICK r \in Recruiters : \E k \in DOMAIN MessagesFor(F, r) : m = MessagesFor(F, r)[k]
    BY <1>3
  <2>2. PICK k \in DOMAIN MessagesFor(F, r) : m = MessagesFor(F, r)[k]
    BY <2>1
  <2>3. /\ \E i \in DOMAIN F : F[i].recruiter = r
        /\ \/ \E i \in DOMAIN F : F[i].recruiter = r /\ Single(m, F[i])
           \/ \E p \in Nat : PartOf(m, r, p, F)
    BY <1>1, <2>2, MessagesAre
  <2>4. CASE \E i \in DOMAIN F : F[i].recruiter = r /\ Single(m, F[i])
    BY <1>1, <2>4
  <2>5. CASE \E p \in Nat : PartOf(m, r, p, F)
    <3>1. PICK p \in Nat : PartOf(m, r, p, F)
      BY <2>5
    <3>2. PICK i \in DOMAIN F : F[i].recruiter = r
      BY <2>3
    <3>3. BatchKey(r, 1) \notin sent
      BY <1>1, <3>2 DEF Untold
    <3>4. \A c \in m.about : \E k2 \in DOMAIN F : F[k2].c = c /\ F[k2].recruiter = r
      BY <3>1 DEF PartOf
    <3>5. \A c \in m.about : \E j \in DOMAIN E : E[j].c = c /\ E[j].recruiter = r /\ Untold(E[j], sent)
      BY <1>1, <3>4
    <3>6. PartOf(m, r, p, E)
      BY <3>1, <3>5 DEF PartOf
    <3> QED BY <3>3, <3>5, <3>6
  <2> QED BY <2>3, <2>4, <2>5
<1>5. ASSUME NEW m \in Range(P), NEW n \in Range(P), m.key = n.key \/ m.about \cap n.about # {} PROVE m = n
  <2>1. PICK r \in Recruiters : \E k \in DOMAIN MessagesFor(F, r) : m = MessagesFor(F, r)[k]
    BY <1>3
  <2>2. PICK k \in DOMAIN MessagesFor(F, r) : m = MessagesFor(F, r)[k]
    BY <2>1
  <2>3. PICK q \in Recruiters : \E l \in DOMAIN MessagesFor(F, q) : n = MessagesFor(F, q)[l]
    BY <1>3
  <2>4. PICK l \in DOMAIN MessagesFor(F, q) : n = MessagesFor(F, q)[l]
    BY <2>3
  <2>5. /\ m.key[4] = r /\ \A c \in m.about : \E i \in DOMAIN F : F[i].c = c /\ F[i].recruiter = r
        /\ n.key[4] = q /\ \A c \in n.about : \E i \in DOMAIN F : F[i].c = c /\ F[i].recruiter = q
    BY <1>1, <2>2, <2>4, OwnKeys
  <2>6. r = q
    <3>1. CASE m.key = n.key
      BY <2>5, <3>1
    <3>2. CASE m.about \cap n.about # {}
      <4>1. PICK c \in m.about : c \in n.about
        BY <3>2
      <4>2. PICK i \in DOMAIN F : F[i].c = c /\ F[i].recruiter = r
        BY <2>5, <4>1
      <4>3. PICK j \in DOMAIN F : F[j].c = c /\ F[j].recruiter = q
        BY <2>5, <4>1
      <4>4. i = j
        BY <1>1, <4>2, <4>3 DEF Different
      <4> QED BY <4>2, <4>3, <4>4
    <3> QED BY <1>5, <3>1, <3>2
  <2>7. l \in DOMAIN MessagesFor(F, r) /\ n = MessagesFor(F, r)[l]
    BY <2>4, <2>6
  <2>8. k = l
    BY <1>1, <1>5, <2>2, <2>7, MessagesAre
  <2> QED BY <2>2, <2>7, <2>8
<1>6. ASSUME NEW i \in DOMAIN E, Untold(E[i], sent), E[i].recruiter # "none"
      PROVE  \E m \in Range(P) : E[i].c \in m.about
  <2>1. PICK j \in DOMAIN F : F[j] = E[i]
    BY <1>1, <1>6
  <2> DEFINE r == E[i].recruiter
  <2>2. PICK k \in DOMAIN MessagesFor(F, r) : F[j].c \in MessagesFor(F, r)[k].about
    BY <1>1, <1>6, <2>1, MessagesAre
  <2>3. MessagesFor(F, r)[k] \in Range(P)
    <3>1. MessagesFor(F, r)[k] \in Range(MessagesFor(F, r))
      BY DEF Range
    <3>2. r \in Recruiters
      OBVIOUS
    <3> QED BY <1>2, <3>1, <3>2
  <2> QED BY <2>1, <2>2, <2>3
<1> QED BY <1>2, <1>4, <1>5, <1>6 DEF F, P

-----------------------------------------------------------------------------
\* Clawbacks that never changed, and the entry a pass finds on one.
Unmoved == Range(Clawbacks) \ moved
Own(c, d) == Entry(c, FirstItem[c], d)
Working == pass.pc \in {"evaluated", "sending"}

\* What the job service says, and what the pass has fetched of it.
ItemsKnown ==
  /\ DOMAIN item = Range(Clawbacks) /\ moved \subseteq Range(Clawbacks)
  /\ \A c \in Range(Clawbacks) : item[c] \in Items
  /\ \A c \in Unmoved : item[c] = FirstItem[c]
FetchKnown ==
  /\ pass = [pc |-> pass.pc, items |-> pass.items, bare |-> pass.bare, entries |-> pass.entries,
             todo |-> pass.todo, day |-> pass.day]
  /\ DOMAIN pass.items \subseteq Range(Clawbacks)
  /\ \A c \in DOMAIN pass.items : pass.items[c] \in Items
  /\ \A c \in DOMAIN pass.items : c \in Unmoved => pass.items[c] = FirstItem[c]
  /\ pass.pc # "idle" => Range(Clawbacks) \ dropped \subseteq DOMAIN pass.items

\* The entries of a pass: one for each clawback, of the day and of what was fetched.
EntriesKnown ==
  /\ pass.entries \in Seq(Range(pass.entries))
  /\ \A i \in DOMAIN pass.entries :
       LET e == pass.entries[i] IN
       /\ e.c \in DOMAIN pass.items /\ pass.items[e.c].cooling > 0
       /\ e = Entry(e.c, pass.items[e.c], pass.day)
  /\ \A i, j \in DOMAIN pass.entries : pass.entries[i].c = pass.entries[j].c => i = j
  /\ \A e \in pass.bare : /\ e.c \in DOMAIN pass.items /\ pass.items[e.c].cooling = 0
                          /\ e = Entry(e.c, pass.items[e.c], pass.day)
  /\ ~Working => pass.entries = <<>> /\ pass.bare = {}
  /\ pass.pc # "sending" => pass.todo = <<>>

\* The messages not sent yet: each about entries of one recruiter, no two about one
\* clawback or under one key, the first part of a list before its other parts.
TodoKnown ==
  /\ pass.todo \in Seq(Range(pass.todo))
  /\ \A m \in Range(pass.todo) :
       \/ \E i \in DOMAIN pass.entries : Single(m, pass.entries[i])
       \/ \E r \in Recruiters, p \in Nat : PartOf(m, r, p, pass.entries)
  /\ \A m, n \in Range(pass.todo) : m.key = n.key \/ m.about \cap n.about # {} => m = n
FirstPartFirst ==
  \A r : \A k \in DOMAIN pass.todo :
    (\E p \in Nat : pass.todo[k].key = BatchKey(r, p)) =>
      BatchKey(r, 1) \in Sent(pass.day) \/ \E j \in 1 .. k : pass.todo[j].key = BatchKey(r, 1)

\* What was told today about the clawbacks of a message was told by that message.
TodoUntold ==
  \A m \in Range(pass.todo), n \in told :
    n.day = pass.day /\ (n.key = m.key \/ (n.about \cap m.about) \ moved # {}) =>
      n.key = m.key /\ n.about = m.about

\* The rows of the message log.
RowsTold == \A n \in told : n = [day |-> n.day, key |-> n.key, about |-> n.about]
OneRowAKey == \A m, n \in told : m.day = n.day /\ m.key = n.key => m = n
PartsFollowFirst ==
  \A n \in told : \A r : (\E p \in Nat : n.key = BatchKey(r, p)) => BatchKey(r, 1) \in Sent(n.day)
ToldUnderOwnKey ==
  \A n \in told : \A c \in n.about \cap Unmoved :
    \/ n.key = Key(Own(c, n.day))
    \/ BatchKey(FirstItem[c].recruiter, 1) \in Sent(n.day)
OwnRowsTell ==
  \A n \in told, c \in Unmoved :
    n.key = Key(Own(c, n.day)) /\ FirstItem[c].recruiter # "none" /\ FirstItem[c].cooling > 0 =>
      c \in n.about
ToldToday == /\ RowsTold /\ OneRowAKey /\ PartsFollowFirst /\ ToldUnderOwnKey /\ OwnRowsTell
             /\ TwiceOnlyIfMoved

TellInv == /\ ItemsKnown /\ FetchKnown /\ EntriesKnown /\ TodoKnown /\ FirstPartFirst /\ TodoUntold
           /\ ToldToday

\* The facts about one entry that the steps need.
LEMMA EntryIs ==
  ASSUME NEW c, NEW i, NEW d
  PROVE  /\ Entry(c, i, d).c = c /\ Entry(c, i, d).recruiter = i.recruiter
         /\ Entry(c, i, d).kind \in Kinds
BY DEF Entry, Kinds

LEMMA EntriesDiffer ==
  ASSUME TellInv
  PROVE  /\ Different(pass.entries) /\ \A i \in DOMAIN pass.entries : pass.entries[i].recruiter \in Recruiters
         /\ \A i \in DOMAIN pass.entries :
              LET e == pass.entries[i] IN e.c \in Unmoved => e = Own(e.c, pass.day) /\ FirstItem[e.c].cooling > 0
<1>1. ASSUME NEW i \in DOMAIN pass.entries
      PROVE  LET e == pass.entries[i] IN
             /\ e.kind \in Kinds /\ e.recruiter \in Recruiters
             /\ e.c \in Unmoved => e = Own(e.c, pass.day) /\ FirstItem[e.c].cooling > 0
  <2> DEFINE e == pass.entries[i]
  <2>1. /\ e.c \in DOMAIN pass.items /\ e = Entry(e.c, pass.items[e.c], pass.day)
        /\ pass.items[e.c].cooling > 0
    BY <1>1 DEF TellInv, EntriesKnown
  <2>2. pass.items[e.c] \in Items /\ (e.c \in Unmoved => pass.items[e.c] = FirstItem[e.c])
    BY <2>1 DEF TellInv, FetchKnown
  <2> HIDE DEF e
  <2>3. e.kind \in Kinds /\ e.recruiter = pass.items[e.c].recruiter
    BY <2>1, EntryIs
  <2>4. e.recruiter \in Recruiters
    BY <2>2, <2>3 DEF Recruiters
  <2>5. e.c \in Unmoved => e = Own(e.c, pass.day) /\ FirstItem[e.c].cooling > 0
    BY <2>1, <2>2 DEF Own
  <2> QED BY <2>3, <2>4, <2>5 DEF e
<1>2. Different(pass.entries)
  BY <1>1 DEF Different, TellInv, EntriesKnown
<1> QED BY <1>1, <1>2

LEMMA TellInit == ChecksInit => TellInv
<1> SUFFICES ASSUME ChecksInit PROVE TellInv
  OBVIOUS
<1>1. ItemsKnown
  BY DEF ChecksInit, ItemsKnown, Unmoved, Items
<1>2. FetchKnown
  BY DEF ChecksInit, Idle, FetchKnown
<1>3. /\ pass.pc = "idle" /\ pass.entries = <<>> /\ pass.bare = {} /\ pass.todo = <<>>
      /\ DOMAIN <<>> = {} /\ Range(<<>>) = {} /\ <<>> \in Seq({}) /\ told = {}
  BY DEF ChecksInit, Idle, Range
<1>4. EntriesKnown
  BY <1>3 DEF EntriesKnown, Working
<1>5. TodoKnown /\ FirstPartFirst /\ TodoUntold
  BY <1>3 DEF TodoKnown, FirstPartFirst, TodoUntold
<1>6. ToldToday
  BY <1>3 DEF ToldToday, RowsTold, OneRowAKey, PartsFollowFirst, ToldUnderOwnKey, OwnRowsTell, TwiceOnlyIfMoved
<1> QED BY <1>1, <1>2, <1>4, <1>5, <1>6 DEF TellInv

\* A step that tells nobody anything, and leaves the pass and the clawbacks alone.
LEMMA TellQuiet ==
  ASSUME TellInv, UNCHANGED <<pass, told, item, moved>>, dropped \subseteq dropped'
  PROVE  TellInv'
<1>1. ItemsKnown'
  BY DEF TellInv, ItemsKnown, Unmoved
<1>2. FetchKnown'
  BY DEF TellInv, FetchKnown, Unmoved
<1>3. EntriesKnown'
  BY DEF TellInv, EntriesKnown, Working
<1>4. TodoKnown'
  BY DEF TellInv, TodoKnown
<1>5. FirstPartFirst'
  BY DEF TellInv, FirstPartFirst, Sent
<1>6. TodoUntold'
  BY DEF TellInv, TodoUntold
<1>7. RowsTold' /\ OneRowAKey'
  BY DEF TellInv, ToldToday, RowsTold, OneRowAKey
<1>8. PartsFollowFirst'
  BY DEF TellInv, ToldToday, PartsFollowFirst, Sent
<1>9. ToldUnderOwnKey'
  BY DEF TellInv, ToldToday, ToldUnderOwnKey, Unmoved, Sent, Own
<1>10. OwnRowsTell'
  BY DEF TellInv, ToldToday, OwnRowsTell, Unmoved, Own
<1>11. TwiceOnlyIfMoved'
  BY DEF TellInv, ToldToday, TwiceOnlyIfMoved
<1> QED BY <1>1, <1>2, <1>3, <1>4, <1>5, <1>6, <1>7, <1>8, <1>9, <1>10, <1>11 DEF TellInv, ToldToday

\* A clawback that changes counts as moved.
LEMMA TellMoves ==
  ASSUME TellInv, NEW c \in Range(Clawbacks), ItemMoves(c)
  PROVE  TellInv'
<1>1. /\ moved' = moved \cup {c} /\ UNCHANGED <<pass, told, dropped>>
      /\ \E i \in Items : item' = [item EXCEPT ![c] = i]
  BY DEF ItemMoves, rowVars, procVars, Items
<1>2. Unmoved' \subseteq Unmoved /\ c \notin Unmoved' /\ moved \subseteq moved'
  BY <1>1 DEF Unmoved
<1>3. ItemsKnown'
  <2>1. PICK i \in Items : item' = [item EXCEPT ![c] = i]
    BY <1>1
  <2>2. DOMAIN item' = Range(Clawbacks) /\ moved' \subseteq Range(Clawbacks)
    BY <1>1, <2>1 DEF TellInv, ItemsKnown
  <2>3. \A d \in Range(Clawbacks) : item'[d] = IF d = c THEN i ELSE item[d]
    BY <2>1 DEF TellInv, ItemsKnown
  <2>4. \A d \in Range(Clawbacks) : item'[d] \in Items
    BY <2>3 DEF TellInv, ItemsKnown
  <2>5. \A d \in Unmoved' : item'[d] = FirstItem[d]
    <3>1. Unmoved \subseteq Range(Clawbacks)
      BY DEF Unmoved
    <3> QED BY <1>2, <2>3, <3>1 DEF TellInv, ItemsKnown
  <2> QED BY <2>2, <2>4, <2>5 DEF ItemsKnown
<1>4. FetchKnown'
  BY <1>1, <1>2 DEF TellInv, FetchKnown
<1>5. EntriesKnown'
  BY <1>1 DEF TellInv, EntriesKnown, Working
<1>6. TodoKnown'
  BY <1>1 DEF TellInv, TodoKnown
<1>7. FirstPartFirst'
  BY <1>1 DEF TellInv, FirstPartFirst, Sent
<1>8. TodoUntold'
  BY <1>1 DEF TellInv, TodoUntold
<1>9. RowsTold' /\ OneRowAKey'
  BY <1>1 DEF TellInv, ToldToday, RowsTold, OneRowAKey
<1>10. PartsFollowFirst'
  BY <1>1 DEF TellInv, ToldToday, PartsFollowFirst, Sent
<1>11. ToldUnderOwnKey'
  BY <1>1, <1>2 DEF TellInv, ToldToday, ToldUnderOwnKey, Sent, Own
<1>12. OwnRowsTell'
  BY <1>1, <1>2 DEF TellInv, ToldToday, OwnRowsTell, Own
<1>13. TwiceOnlyIfMoved'
  BY <1>1, <1>2 DEF TellInv, ToldToday, TwiceOnlyIfMoved
<1> QED BY <1>3, <1>4, <1>5, <1>6, <1>7, <1>8, <1>9, <1>10, <1>11, <1>12, <1>13 DEF TellInv, ToldToday

\* A step of a pass that has no messages to send.
LEMMA TellNothing ==
  ASSUME TellInv, UNCHANGED <<told, item, moved, dropped>>, FetchKnown', EntriesKnown', pass'.todo = <<>>
  PROVE  TellInv'
<1>1. Range(pass'.todo) = {} /\ DOMAIN pass'.todo = {} /\ pass'.todo \in Seq({})
  BY DEF Range
<1>2. ItemsKnown'
  BY DEF TellInv, ItemsKnown, Unmoved
<1>3. TodoKnown'
  BY <1>1 DEF TodoKnown
<1>4. FirstPartFirst'
  BY <1>1 DEF FirstPartFirst
<1>5. TodoUntold'
  BY <1>1 DEF TodoUntold
<1>6. RowsTold' /\ OneRowAKey'
  BY DEF TellInv, ToldToday, RowsTold, OneRowAKey
<1>7. PartsFollowFirst'
  BY DEF TellInv, ToldToday, PartsFollowFirst, Sent
<1>8. ToldUnderOwnKey'
  BY DEF TellInv, ToldToday, ToldUnderOwnKey, Unmoved, Sent, Own
<1>9. OwnRowsTell'
  BY DEF TellInv, ToldToday, OwnRowsTell, Unmoved, Own
<1>10. TwiceOnlyIfMoved'
  BY DEF TellInv, ToldToday, TwiceOnlyIfMoved
<1> QED BY <1>2, <1>3, <1>4, <1>5, <1>6, <1>7, <1>8, <1>9, <1>10 DEF TellInv, ToldToday

\* A pass that ends, dies or begins.
LEMMA TellIdle ==
  ASSUME TellInv, UNCHANGED <<told, item, moved, dropped>>,
         pass' = Idle \/ pass' = [Idle EXCEPT !.pc = "fetched", !.items = Fetched]
  PROVE  TellInv'
<1>1. /\ pass'.entries = <<>> /\ pass'.bare = {} /\ pass'.todo = <<>> /\ pass'.pc # "sending"
      /\ DOMAIN <<>> = {} /\ Range(<<>>) = {} /\ <<>> \in Seq({})
  <2>1. DOMAIN <<>> = {} /\ Range(<<>>) = {} /\ <<>> \in Seq({})
    BY DEF Range
  <2>2. /\ Idle.entries = <<>> /\ Idle.bare = {} /\ Idle.todo = <<>> /\ Idle.pc # "sending"
        /\ LET begun == [Idle EXCEPT !.pc = "fetched", !.items = Fetched] IN
           begun.entries = <<>> /\ begun.bare = {} /\ begun.todo = <<>> /\ begun.pc # "sending"
    BY DEF Idle
  <2> QED BY <2>1, <2>2
<1>2. EntriesKnown'
  BY <1>1 DEF EntriesKnown
<1>3. FetchKnown'
  <2>1. CASE pass' = Idle
    <3>1. DOMAIN Idle.items = {} /\ Idle.pc = "idle"
      BY DEF Idle
    <3>2. Idle = [pc |-> Idle.pc, items |-> Idle.items, bare |-> Idle.bare, entries |-> Idle.entries,
                  todo |-> Idle.todo, day |-> Idle.day]
      BY DEF Idle
    <3> QED BY <2>1, <3>1, <3>2 DEF FetchKnown
  <2>2. CASE pass' = [Idle EXCEPT !.pc = "fetched", !.items = Fetched]
    <3>1. pass' = [pc |-> "fetched", items |-> Fetched, bare |-> {}, entries |-> <<>>, todo |-> <<>>, day |-> 0]
      BY <2>2 DEF Idle
    <3>2. /\ DOMAIN Fetched = Range(Clawbacks) \ dropped
          /\ \A c \in DOMAIN Fetched : Fetched[c] = item[c]
      BY DEF Fetched
    <3>3. pass'.items = Fetched /\ Unmoved' = Unmoved /\ dropped' = dropped
      BY <3>1 DEF Unmoved
    <3>4. \A c \in DOMAIN Fetched : Fetched[c] \in Items /\ (c \in Unmoved => Fetched[c] = FirstItem[c])
      BY <3>2 DEF TellInv, ItemsKnown
    <3>5. pass' = [pc |-> pass'.pc, items |-> pass'.items, bare |-> pass'.bare, entries |-> pass'.entries,
                   todo |-> pass'.todo, day |-> pass'.day]
      BY <3>1
    <3> QED BY <3>2, <3>3, <3>4, <3>5 DEF FetchKnown
  <2> QED BY <2>1, <2>2
<1> QED BY <1>1, <1>2, <1>3, TellNothing

\* The entries a pass finds, by the order of the clawbacks.
Entered(chk) == {i \in DOMAIN Clawbacks : LET c == Clawbacks[i] IN
                   /\ c \in DueAt(pass.items, clock) /\ pass.items[c].cooling > 0
                   /\ chk[c][clock.day] \notin Cancelled}
LEMMA EvaluateIs ==
  ASSUME PassEvaluate, CanSend(clock), FetchKnown
  PROVE  LET due == DueAt(pass.items, clock)
             cs == Pick(Clawbacks, Entered(check')) IN
         /\ pass' = [pc |-> "evaluated", items |-> pass.items, todo |-> pass.todo, day |-> clock.day,
                     bare |-> {Entry(c, pass.items[c], clock.day) : c \in {c \in due : pass.items[c].cooling = 0}},
                     entries |-> [i \in DOMAIN cs |-> Entry(cs[i], pass.items[cs[i]], clock.day)]]
         /\ \E n \in Nat : DOMAIN cs = 1 .. n
         /\ \A i \in DOMAIN cs : /\ cs[i] \in due /\ pass.items[cs[i]].cooling > 0
                                 /\ check'[cs[i]][clock.day] \notin Cancelled
         /\ \A i, j \in DOMAIN cs : cs[i] = cs[j] => i = j
         /\ \A c \in Range(Clawbacks) :
              c \in due /\ pass.items[c].cooling > 0 /\ check'[c][clock.day] \notin Cancelled =>
                \E i \in DOMAIN cs : cs[i] = c
<1> DEFINE due == DueAt(pass.items, clock)
           I == Entered(check')
           cs == Pick(Clawbacks, I)
<1>1. pass' = [pass EXCEPT !.pc = "evaluated", !.day = clock.day,
                 !.bare = {Entry(c, pass.items[c], clock.day) : c \in {c \in due : pass.items[c].cooling = 0}},
                 !.entries = [i \in DOMAIN cs |-> Entry(cs[i], pass.items[cs[i]], clock.day)]]
  BY DEF PassEvaluate, Entered
<1>2. Clawbacks \in Seq(Range(Clawbacks)) /\ IsInjective(Clawbacks)
  BY ChecksAssumption
<1>3. Len(Clawbacks) \in Nat /\ DOMAIN Clawbacks = 1 .. Len(Clawbacks)
  BY <1>2, LenProperties
<1>4. \A i : i \in I <=> /\ i \in DOMAIN Clawbacks /\ Clawbacks[i] \in due
                        /\ pass.items[Clawbacks[i]].cooling > 0
                        /\ check'[Clawbacks[i]][clock.day] \notin Cancelled
  BY DEF Entered
<1>5. I \in SUBSET (1 .. Len(Clawbacks))
  BY <1>3, <1>4
<1> HIDE DEF I, due
<1>6. /\ DOMAIN cs = 1 .. Cardinality(I) /\ Cardinality(I) \in Nat
      /\ \A k \in DOMAIN cs : Nth(I, k) \in I /\ cs[k] = Clawbacks[Nth(I, k)]
      /\ \A k, l \in DOMAIN cs : Nth(I, k) = Nth(I, l) => k = l
      /\ \A i \in I : \E k \in DOMAIN cs : Nth(I, k) = i /\ cs[k] = Clawbacks[i]
  BY <1>3, <1>5, PickIs
<1> HIDE DEF cs
<1>7. \A i \in DOMAIN cs : /\ cs[i] \in due /\ pass.items[cs[i]].cooling > 0
                          /\ check'[cs[i]][clock.day] \notin Cancelled
  BY <1>4, <1>6
<1>8. \A i, j \in DOMAIN cs : cs[i] = cs[j] => i = j
  <2>1. \A i, j \in I : Clawbacks[i] = Clawbacks[j] => i = j
    BY <1>2, <1>4 DEF IsInjective
  <2> QED BY <1>6, <2>1
<1>9. ASSUME NEW c \in Range(Clawbacks), c \in due, pass.items[c].cooling > 0,
             check'[c][clock.day] \notin Cancelled
      PROVE  \E i \in DOMAIN cs : cs[i] = c
  <2>1. PICK i \in DOMAIN Clawbacks : Clawbacks[i] = c
    BY DEF Range
  <2>2. i \in I
    BY <1>4, <1>9, <2>1
  <2> QED BY <1>6, <2>1, <2>2
<1> DEFINE bare == {Entry(c, pass.items[c], clock.day) : c \in {c \in due : pass.items[c].cooling = 0}}
           entries == [i \in DOMAIN cs |-> Entry(cs[i], pass.items[cs[i]], clock.day)]
<1> HIDE DEF bare, entries
<1>10. pass' = [pass EXCEPT !.pc = "evaluated", !.day = clock.day, !.bare = bare, !.entries = entries]
  BY <1>1 DEF bare, entries, due
<1>11. pass = [pc |-> pass.pc, items |-> pass.items, bare |-> pass.bare, entries |-> pass.entries,
               todo |-> pass.todo, day |-> pass.day]
  BY DEF FetchKnown
<1>12. pass' = [pc |-> "evaluated", items |-> pass.items, todo |-> pass.todo, day |-> clock.day,
                bare |-> bare, entries |-> entries]
  BY <1>10, <1>11
<1>13. \E n \in Nat : DOMAIN cs = 1 .. n
  BY <1>6
<1> QED BY <1>7, <1>8, <1>9, <1>12, <1>13 DEF due, I, cs, bare, entries

LEMMA TellEvaluate == ASSUME TellInv, PassEvaluate PROVE TellInv'
<1>1. UNCHANGED <<told, item, moved, dropped>> /\ pass.pc = "fetched"
  BY DEF PassEvaluate, worldVars
<1>2. CASE ~CanSend(clock)
  <2>1. pass' = Idle
    BY <1>2 DEF PassEvaluate
  <2> QED BY <1>1, <2>1, TellIdle
<1>3. CASE CanSend(clock)
  <2> DEFINE due == DueAt(pass.items, clock)
             cs == Pick(Clawbacks, Entered(check'))
  <2>1. FetchKnown
    BY DEF TellInv
  <2>2. /\ pass' = [pc |-> "evaluated", items |-> pass.items, todo |-> pass.todo, day |-> clock.day,
                   bare |-> {Entry(c, pass.items[c], clock.day) : c \in {c \in due : pass.items[c].cooling = 0}},
                   entries |-> [i \in DOMAIN cs |-> Entry(cs[i], pass.items[cs[i]], clock.day)]]
        /\ \E n \in Nat : DOMAIN cs = 1 .. n
        /\ \A i \in DOMAIN cs : cs[i] \in due /\ pass.items[cs[i]].cooling > 0
        /\ \A i, j \in DOMAIN cs : cs[i] = cs[j] => i = j
    BY <1>3, <2>1, EvaluateIs
  <2>3. due \subseteq DOMAIN pass.items
    BY DEF DueAt
  <2> HIDE DEF cs, due
  <2>4. /\ pass'.pc = "evaluated" /\ pass'.items = pass.items /\ pass'.todo = pass.todo /\ pass'.day = clock.day
        /\ pass'.bare = {Entry(c, pass.items[c], clock.day) : c \in {c \in due : pass.items[c].cooling = 0}}
        /\ pass'.entries = [i \in DOMAIN cs |-> Entry(cs[i], pass.items[cs[i]], clock.day)]
        /\ pass' = [pc |-> pass'.pc, items |-> pass'.items, bare |-> pass'.bare, entries |-> pass'.entries,
                    todo |-> pass'.todo, day |-> pass'.day]
    BY <2>2
  <2>5. FetchKnown'
    BY <1>1, <2>4 DEF TellInv, FetchKnown, Unmoved
  <2>6. pass'.todo = <<>>
    BY <1>1, <2>4 DEF TellInv, EntriesKnown
  <2>7. pass'.entries \in Seq(Range(pass'.entries))
    <3>1. PICK n \in Nat : DOMAIN cs = 1 .. n
      BY <2>2
    <3>2. pass'.entries \in [1 .. n -> Range(pass'.entries)]
      BY <2>4, <3>1 DEF Range
    <3> QED BY <3>2
  <2>8. ASSUME NEW i \in DOMAIN pass'.entries
        PROVE  /\ pass'.entries[i].c = cs[i] /\ cs[i] \in DOMAIN pass'.items
               /\ pass'.items[cs[i]].cooling > 0
               /\ pass'.entries[i] = Entry(cs[i], pass'.items[cs[i]], pass'.day)
    <3>1. i \in DOMAIN cs /\ pass'.entries[i] = Entry(cs[i], pass.items[cs[i]], clock.day)
      BY <2>4
    <3>2. pass'.entries[i].c = cs[i]
      BY <3>1, EntryIs
    <3> QED BY <2>2, <2>3, <2>4, <3>1, <3>2
  <2>9. \A i, j \in DOMAIN pass'.entries : pass'.entries[i].c = pass'.entries[j].c => i = j
    <3>1. DOMAIN pass'.entries = DOMAIN cs
      BY <2>4
    <3> QED BY <2>2, <2>8, <3>1
  <2>10. ASSUME NEW e \in pass'.bare
         PROVE  /\ e.c \in DOMAIN pass'.items /\ pass'.items[e.c].cooling = 0
                /\ e = Entry(e.c, pass'.items[e.c], pass'.day)
    <3>1. PICK c \in due : pass.items[c].cooling = 0 /\ e = Entry(c, pass.items[c], clock.day)
      BY <2>4
    <3>2. e.c = c
      BY <3>1, EntryIs
    <3> QED BY <2>3, <2>4, <3>1, <3>2
  <2>11. EntriesKnown'
    BY <2>4, <2>6, <2>7, <2>8, <2>9, <2>10 DEF EntriesKnown, Working
  <2> QED BY <1>1, <2>5, <2>6, <2>11, TellNothing
<1> QED BY <1>2, <1>3

\* Rows added to a day's log, under keys that are not in it yet.
LEMMA SentGrows ==
  ASSUME told \subseteq told', NEW d
  PROVE  Sent(d) \subseteq Sent(d)'
BY DEF Sent

LEMMA SentHas == ASSUME NEW n \in told PROVE n.key \in Sent(n.day)
BY DEF Sent

LEMMA SentIs == ASSUME NEW d, NEW k \in Sent(d) PROVE \E n \in told : n.day = d /\ n.key = k
BY DEF Sent

\* A step that logs rows about nobody, under keys of clawbacks without a cooling
\* period, leaves what the log says as it is.
BareRows == {[day |-> pass.day, key |-> BareKey(e), about |-> {}] :
               e \in {b \in pass.bare : b.recruiter # "none" /\ BareKey(b) \notin Sent(pass.day)}}
LEMMA BareRowIs ==
  ASSUME TellInv, NEW n \in BareRows
  PROVE  /\ n = [day |-> n.day, key |-> n.key, about |-> n.about]
         /\ n.day = pass.day /\ n.about = {} /\ n.key \notin Sent(pass.day)
         /\ \A r, p : n.key # BatchKey(r, p)
         /\ \A c \in DOMAIN pass.items : \A i, d : pass.items[c].cooling > 0 => n.key # Key(Entry(c, i, d))
<1>1. PICK e \in pass.bare : BareKey(e) \notin Sent(pass.day)
                             /\ n = [day |-> pass.day, key |-> BareKey(e), about |-> {}]
  BY DEF BareRows
<1>2. e.c \in DOMAIN pass.items /\ pass.items[e.c].cooling = 0
  BY DEF TellInv, EntriesKnown
<1>3. \A r, p : BareKey(e) # BatchKey(r, p)
  BY DEF BareKey, BatchKey
<1>4. ASSUME NEW c \in DOMAIN pass.items, NEW i, NEW d, pass.items[c].cooling > 0
      PROVE  BareKey(e) # Key(Entry(c, i, d))
  <2>1. e.c # c
    BY <1>2, <1>4
  <2>2. BareKey(e)[3] = e.c /\ Key(Entry(c, i, d))[3] = c
    BY EntryIs DEF BareKey, Key
  <2> QED BY <2>1, <2>2
<1> QED BY <1>1, <1>3, <1>4

LEMMA TellPlan == ASSUME TellInv, PassPlan PROVE TellInv'
<1> DEFINE P == Plan(Fresh(pass.entries, Sent(pass.day)))
           sent == Sent(pass.day)
<1>1. /\ UNCHANGED <<item, moved, dropped>> /\ pass.pc = "evaluated"
      /\ pass' = [pass EXCEPT !.pc = "sending", !.todo = P] /\ told' = told \cup BareRows
  BY DEF PassPlan, BareRows, worldVars
<1>2. /\ Different(pass.entries) /\ \A i \in DOMAIN pass.entries : pass.entries[i].recruiter \in Recruiters
      /\ \A i \in DOMAIN pass.entries :
           LET e == pass.entries[i] IN e.c \in Unmoved => e = Own(e.c, pass.day) /\ FirstItem[e.c].cooling > 0
  BY EntriesDiffer
<1>3. /\ P \in Seq(Range(P))
      /\ \A m \in Range(P) :
           \/ \E i \in DOMAIN pass.entries : Single(m, pass.entries[i]) /\ Untold(pass.entries[i], sent)
           \/ \E r \in Recruiters, p \in Nat :
                /\ PartOf(m, r, p, pass.entries) /\ BatchKey(r, 1) \notin sent
                /\ \A c \in m.about : \E i \in DOMAIN pass.entries :
                     pass.entries[i].c = c /\ Untold(pass.entries[i], sent)
      /\ \A m, n \in Range(P) : m.key = n.key \/ m.about \cap n.about # {} => m = n
      /\ \A r : \A k \in DOMAIN P :
           (\E p \in Nat : P[k].key = BatchKey(r, p)) => \E j \in 1 .. k : P[j].key = BatchKey(r, 1)
  BY <1>2, PlannedAre
<1> HIDE DEF P, sent
<1>4. /\ pass'.pc = "sending" /\ pass'.items = pass.items /\ pass'.bare = pass.bare
      /\ pass'.entries = pass.entries /\ pass'.todo = P /\ pass'.day = pass.day
      /\ pass' = [pc |-> pass'.pc, items |-> pass'.items, bare |-> pass'.bare, entries |-> pass'.entries,
                  todo |-> pass'.todo, day |-> pass'.day]
  BY <1>1 DEF TellInv, FetchKnown
<1>5. ItemsKnown'
  BY <1>1 DEF TellInv, ItemsKnown, Unmoved
<1>6. FetchKnown'
  BY <1>1, <1>4 DEF TellInv, FetchKnown, Unmoved
<1>7. EntriesKnown'
  BY <1>1, <1>4 DEF TellInv, EntriesKnown, Working
<1>8. TodoKnown'
  <2>1. \A m \in Range(P) :
          \/ \E i \in DOMAIN pass.entries : Single(m, pass.entries[i])
          \/ \E r \in Recruiters, p \in Nat : PartOf(m, r, p, pass.entries)
    BY <1>3
  <2> QED BY <1>3, <1>4, <2>1 DEF TodoKnown
<1>9. FirstPartFirst'
  BY <1>3, <1>4 DEF FirstPartFirst
<1>10. \A d : Sent(d) \subseteq Sent(d)'
  BY <1>1, SentGrows
<1>11. TodoUntold'
  <2>1. SUFFICES ASSUME NEW m \in Range(P), NEW n \in told', n.day = pass.day,
                        n.key = m.key \/ (n.about \cap m.about) \ moved # {}
                 PROVE  FALSE
    BY <1>1, <1>4 DEF TodoUntold
  <2>2. CASE n \in told
    <3>1. n.key \in sent
      BY <2>1, <2>2, SentHas DEF sent
    <3>2. ASSUME n.key = m.key PROVE FALSE
      <4>1. CASE \E i \in DOMAIN pass.entries : Single(m, pass.entries[i]) /\ Untold(pass.entries[i], sent)
        BY <3>1, <3>2, <4>1 DEF Single, Message, Untold
      <4>2. CASE \E r \in Recruiters, p \in Nat : PartOf(m, r, p, pass.entries) /\ BatchKey(r, 1) \notin sent
        <5>1. PICK r \in Recruiters, p \in Nat : PartOf(m, r, p, pass.entries) /\ BatchKey(r, 1) \notin sent
          BY <4>2
        <5>2. n.key = BatchKey(r, p)
          BY <3>2, <5>1 DEF PartOf, Message
        <5>3. BatchKey(r, 1) \in Sent(n.day)
          BY <2>2, <5>2 DEF TellInv, ToldToday, PartsFollowFirst
        <5> QED BY <2>1, <5>1, <5>3 DEF sent
      <4> QED BY <1>3, <2>1, <4>1, <4>2
    <3>3. ASSUME NEW c \in n.about, c \in m.about, c \notin moved PROVE FALSE
      <4>1. PICK i \in DOMAIN pass.entries : pass.entries[i].c = c /\ Untold(pass.entries[i], sent)
        <5>1. CASE \E i \in DOMAIN pass.entries : Single(m, pass.entries[i]) /\ Untold(pass.entries[i], sent)
          <6>1. PICK i \in DOMAIN pass.entries : Single(m, pass.entries[i]) /\ Untold(pass.entries[i], sent)
            BY <5>1
          <6>2. pass.entries[i].c = c
            BY <3>3, <6>1 DEF Single, Message
          <6> QED BY <6>1, <6>2
        <5> QED BY <1>3, <2>1, <3>3, <5>1
      <4>2. c \in Unmoved
        <5>1. c \in DOMAIN pass.items
          BY <4>1 DEF TellInv, EntriesKnown
        <5> QED BY <3>3, <5>1 DEF TellInv, FetchKnown, Unmoved
      <4>3. pass.entries[i] = Own(c, pass.day) /\ pass.entries[i].recruiter = FirstItem[c].recruiter
        <5>1. pass.entries[i] = Own(c, pass.day)
          BY <1>2, <4>1, <4>2
        <5> QED BY <5>1, EntryIs DEF Own
      <4>4. n.key = Key(Own(c, n.day)) \/ BatchKey(FirstItem[c].recruiter, 1) \in Sent(n.day)
        BY <2>2, <3>3, <4>2 DEF TellInv, ToldToday, ToldUnderOwnKey
      <4> QED BY <2>1, <3>1, <4>1, <4>3, <4>4 DEF Untold, sent
    <3>4. CASE n.key = m.key
      BY <3>2, <3>4
    <3>5. CASE (n.about \cap m.about) \ moved # {}
      BY <3>3, <3>5
    <3> QED BY <2>1, <3>4, <3>5
  <2>3. CASE n \in BareRows
    <3>1. /\ n.about = {} /\ n.key \notin sent /\ \A r, p : n.key # BatchKey(r, p)
          /\ \A c \in DOMAIN pass.items : \A i, d : pass.items[c].cooling > 0 => n.key # Key(Entry(c, i, d))
      BY <2>3, BareRowIs DEF sent
    <3>2. n.key = m.key
      BY <2>1, <3>1
    <3>3. CASE \E i \in DOMAIN pass.entries : Single(m, pass.entries[i]) /\ Untold(pass.entries[i], sent)
      <4>1. PICK i \in DOMAIN pass.entries : Single(m, pass.entries[i])
        BY <3>3
      <4>2. m.key = Key(pass.entries[i])
        BY <4>1 DEF Single, Message
      <4> DEFINE c == pass.entries[i].c
      <4>3. c \in DOMAIN pass.items /\ pass.items[c].cooling > 0
            /\ pass.entries[i] = Entry(c, pass.items[c], pass.day)
        BY DEF TellInv, EntriesKnown
      <4>4. n.key # Key(Entry(c, pass.items[c], pass.day))
        BY <3>1, <4>3
      <4> QED BY <3>2, <4>2, <4>3, <4>4
    <3>4. CASE \E r \in Recruiters, p \in Nat : PartOf(m, r, p, pass.entries) /\ BatchKey(r, 1) \notin sent
      BY <3>1, <3>2, <3>4 DEF PartOf, Message
    <3> QED BY <1>3, <2>1, <3>3, <3>4
  <2> QED BY <1>1, <2>1, <2>2, <2>3
<1>12. RowsTold'
  BY <1>1, BareRowIs DEF RowsTold, TellInv, ToldToday
<1>13. OneRowAKey'
  <2>1. SUFFICES ASSUME NEW m \in told', NEW n \in told', m.day = n.day, m.key = n.key PROVE m = n
    BY DEF OneRowAKey
  <2>2. CASE m \in told /\ n \in told
    BY <2>1, <2>2 DEF TellInv, ToldToday, OneRowAKey
  <2>3. CASE m \in BareRows /\ n \in BareRows
    <3>1. m = [day |-> m.day, key |-> m.key, about |-> m.about] /\ m.about = {}
      BY <2>3, BareRowIs
    <3>2. n = [day |-> n.day, key |-> n.key, about |-> n.about] /\ n.about = {}
      BY <2>3, BareRowIs
    <3> QED BY <2>1, <3>1, <3>2
  <2>4. CASE m \in told /\ n \in BareRows
    <3>1. n.day = pass.day /\ n.key \notin Sent(pass.day)
      BY <2>4, BareRowIs
    <3>2. m.key \in Sent(m.day)
      BY <2>4, SentHas
    <3> QED BY <2>1, <3>1, <3>2
  <2>5. CASE n \in told /\ m \in BareRows
    <3>1. m.day = pass.day /\ m.key \notin Sent(pass.day)
      BY <2>5, BareRowIs
    <3>2. n.key \in Sent(n.day)
      BY <2>5, SentHas
    <3> QED BY <2>1, <3>1, <3>2
  <2> QED BY <1>1, <2>1, <2>2, <2>3, <2>4, <2>5
<1>14. PartsFollowFirst'
  <2>1. SUFFICES ASSUME NEW n \in told', NEW r, NEW p \in Nat, n.key = BatchKey(r, p)
                 PROVE  BatchKey(r, 1) \in Sent(n.day)'
    BY DEF PartsFollowFirst
  <2>2. n \in told
    BY <1>1, <2>1, BareRowIs
  <2>3. BatchKey(r, 1) \in Sent(n.day)
    BY <2>1, <2>2 DEF TellInv, ToldToday, PartsFollowFirst
  <2>4. Sent(n.day) \subseteq {m.key : m \in {x \in told' : x.day = n.day}}
    BY <1>1 DEF Sent
  <2> QED BY <2>3, <2>4 DEF Sent
<1>15. ToldUnderOwnKey'
  <2>1. SUFFICES ASSUME NEW n \in told', NEW c \in n.about \cap Unmoved
                 PROVE  n.key = Key(Own(c, n.day)) \/ BatchKey(FirstItem[c].recruiter, 1) \in Sent(n.day)'
    BY <1>1 DEF ToldUnderOwnKey, Unmoved, Own, Entry, Key
  <2>2. n \in told
    BY <1>1, <2>1, BareRowIs
  <2>3. n.key = Key(Own(c, n.day)) \/ BatchKey(FirstItem[c].recruiter, 1) \in Sent(n.day)
    BY <2>1, <2>2 DEF TellInv, ToldToday, ToldUnderOwnKey
  <2>4. Sent(n.day) \subseteq Sent(n.day)'
    BY <1>1 DEF Sent
  <2> QED BY <2>3, <2>4
<1>16. OwnRowsTell'
  <2>1. SUFFICES ASSUME NEW n \in told', NEW c \in Unmoved, n.key = Key(Own(c, n.day)),
                        FirstItem[c].recruiter # "none", FirstItem[c].cooling > 0
                 PROVE  c \in n.about
    BY <1>1 DEF OwnRowsTell, Unmoved, Own, Entry, Key
  <2>2. CASE n \in told
    BY <2>1, <2>2 DEF TellInv, ToldToday, OwnRowsTell
  <2>3. CASE n \in BareRows
    <3>1. PICK e \in pass.bare : n.key = BareKey(e)
      BY <2>3 DEF BareRows
    <3>2. e.c \in DOMAIN pass.items /\ pass.items[e.c].cooling = 0
      BY DEF TellInv, EntriesKnown
    <3>3. BareKey(e)[3] = e.c /\ Key(Own(c, n.day))[3] = c
      BY EntryIs DEF BareKey, Key, Own
    <3>4. e.c = c
      BY <2>1, <3>1, <3>3
    <3>5. pass.items[c] = FirstItem[c]
      BY <2>1, <3>2, <3>4 DEF TellInv, FetchKnown
    <3> QED BY <2>1, <3>2, <3>4, <3>5
  <2> QED BY <1>1, <2>1, <2>2, <2>3
<1>17. TwiceOnlyIfMoved'
  <2>1. \A n \in BareRows : n.about = {}
    BY BareRowIs
  <2> QED BY <1>1, <2>1 DEF TellInv, ToldToday, TwiceOnlyIfMoved
<1> QED BY <1>5, <1>6, <1>7, <1>8, <1>9, <1>11, <1>12, <1>13, <1>14, <1>15, <1>16, <1>17 DEF TellInv, ToldToday

\* The first message of a pass goes out: what is known of it, and the row it leaves.
Now == Head(pass.todo)
Row == [day |-> pass.day, key |-> Now.key, about |-> Now.about]
LEMMA SendIs ==
  ASSUME TellInv, PassSend
  PROVE  /\ UNCHANGED <<item, moved, dropped>> /\ pass.pc = "sending"
         /\ pass' = [pc |-> pass.pc, items |-> pass.items, bare |-> pass.bare, entries |-> pass.entries,
                     todo |-> Tail(pass.todo), day |-> pass.day]
         /\ told' = IF Now.key \in Sent(pass.day) THEN told ELSE told \cup {Row}
         /\ Len(pass.todo) \in Nat /\ DOMAIN pass.todo = 1 .. Len(pass.todo) /\ 1 \in DOMAIN pass.todo
         /\ Now = pass.todo[1] /\ Now \in Range(pass.todo)
         /\ DOMAIN Tail(pass.todo) = 1 .. Len(pass.todo) - 1
         /\ \A k \in DOMAIN Tail(pass.todo) : k + 1 \in DOMAIN pass.todo /\ Tail(pass.todo)[k] = pass.todo[k + 1]
         /\ \A m \in Range(pass.todo) : m = Now \/ m \in Range(Tail(pass.todo))
         /\ Range(Tail(pass.todo)) \subseteq Range(pass.todo)
         /\ Tail(pass.todo) \in Seq(Range(Tail(pass.todo)))
<1>1. /\ UNCHANGED <<item, moved, dropped>> /\ pass.pc = "sending" /\ pass.todo # <<>>
      /\ pass' = [pass EXCEPT !.todo = Tail(pass.todo)]
      /\ told' = IF Now.key \in Sent(pass.day) THEN told ELSE told \cup {Row}
  BY DEF PassSend, worldVars, Now, Row
<1>2. pass' = [pc |-> pass.pc, items |-> pass.items, bare |-> pass.bare, entries |-> pass.entries,
               todo |-> Tail(pass.todo), day |-> pass.day]
  BY <1>1 DEF TellInv, FetchKnown
<1> DEFINE s == pass.todo
           t == Tail(s)
<1>3. s \in Seq(Range(s)) /\ s # <<>>
  BY <1>1 DEF TellInv, TodoKnown
<1> HIDE DEF s
<1>4. Len(s) \in Nat /\ Len(s) > 0 /\ DOMAIN s = 1 .. Len(s)
  BY <1>3, EmptySeq, LenProperties
<1>5. 1 \in DOMAIN s /\ Head(s) = s[1] /\ s[1] \in Range(s)
  BY <1>3, <1>4 DEF Range
<1>6. /\ t \in Seq(Range(s)) /\ Len(t) = Len(s) - 1 /\ \A i \in 1 .. Len(t) : t[i] = s[i + 1]
  BY <1>3, HeadTailProperties
<1>7. DOMAIN t = 1 .. Len(s) - 1
  BY <1>6, LenProperties
<1> HIDE DEF t
<1>8. \A k \in DOMAIN t : k + 1 \in DOMAIN s /\ t[k] = s[k + 1]
  BY <1>4, <1>6, <1>7
<1>9. \A m \in Range(s) : m = s[1] \/ m \in Range(t)
  <2>1. SUFFICES ASSUME NEW k \in DOMAIN s, k # 1 PROVE s[k] \in Range(t)
    BY DEF Range
  <2>2. k - 1 \in DOMAIN t /\ (k - 1) + 1 = k
    BY <1>4, <1>7, <2>1
  <2>3. t[k - 1] = s[k]
    BY <1>8, <2>2
  <2> QED BY <2>2, <2>3 DEF Range
<1>10. Range(t) \subseteq Range(s) /\ t \in Seq(Range(t))
  BY <1>6, SeqOfRange, RangeOfSeq
<1> QED BY <1>1, <1>2, <1>4, <1>5, <1>7, <1>8, <1>9, <1>10 DEF s, t, Now

LEMMA TellSend == ASSUME TellInv, PassSend PROVE TellInv'
<1> DEFINE t == Tail(pass.todo)
           sent == Sent(pass.day)
<1>1. /\ UNCHANGED <<item, moved, dropped>> /\ pass.pc = "sending"
      /\ pass' = [pc |-> pass.pc, items |-> pass.items, bare |-> pass.bare, entries |-> pass.entries,
                  todo |-> t, day |-> pass.day]
      /\ told' = IF Now.key \in sent THEN told ELSE told \cup {Row}
      /\ Len(pass.todo) \in Nat /\ DOMAIN pass.todo = 1 .. Len(pass.todo) /\ 1 \in DOMAIN pass.todo
      /\ Now = pass.todo[1] /\ Now \in Range(pass.todo)
      /\ DOMAIN t = 1 .. Len(pass.todo) - 1
      /\ \A k \in DOMAIN t : k + 1 \in DOMAIN pass.todo /\ t[k] = pass.todo[k + 1]
      /\ \A m \in Range(pass.todo) : m = Now \/ m \in Range(t)
      /\ Range(t) \subseteq Range(pass.todo) /\ t \in Seq(Range(t))
  BY SendIs
<1>2. /\ \A i \in DOMAIN pass.entries :
           LET e == pass.entries[i] IN e.c \in Unmoved => e = Own(e.c, pass.day) /\ FirstItem[e.c].cooling > 0
  BY EntriesDiffer
<1> HIDE DEF t, sent
<1>3. /\ pass'.pc = "sending" /\ pass'.items = pass.items /\ pass'.bare = pass.bare
      /\ pass'.entries = pass.entries /\ pass'.todo = t /\ pass'.day = pass.day
      /\ pass' = [pc |-> pass'.pc, items |-> pass'.items, bare |-> pass'.bare, entries |-> pass'.entries,
                  todo |-> pass'.todo, day |-> pass'.day]
      /\ Unmoved' = Unmoved
  BY <1>1 DEF Unmoved
<1>4. /\ \A n \in told' : n \in told \/ (n = Row /\ Now.key \notin sent)
      /\ Sent(pass.day) \subseteq Sent(pass.day)'
      /\ Row.day = pass.day /\ Row.key = Now.key /\ Row.about = Now.about
      /\ Now.key \in Sent(pass.day)'
  <2>1. Row.day = pass.day /\ Row.key = Now.key /\ Row.about = Now.about
    BY DEF Row
  <2>2. Sent(pass.day) \subseteq Sent(pass.day)'
    BY <1>1, <1>3 DEF Sent
  <2>3. Now.key \in Sent(pass.day)'
    <3>1. CASE Now.key \in sent
      BY <2>2, <3>1 DEF sent
    <3>2. CASE Now.key \notin sent
      <4>1. Row \in told'
        BY <1>1, <3>2
      <4> QED BY <1>3, <2>1, <4>1 DEF Sent
    <3> QED BY <3>1, <3>2
  <2> QED BY <1>1, <2>1, <2>2, <2>3
<1>5. /\ \/ \E i \in DOMAIN pass.entries : Single(Now, pass.entries[i])
         \/ \E r \in Recruiters, p \in Nat : PartOf(Now, r, p, pass.entries)
      /\ \A m, n \in Range(pass.todo) : m.key = n.key \/ m.about \cap n.about # {} => m = n
  BY <1>1 DEF TellInv, TodoKnown
<1>6. ItemsKnown'
  BY <1>1, <1>3 DEF TellInv, ItemsKnown
<1>7. FetchKnown'
  BY <1>1, <1>3 DEF TellInv, FetchKnown
<1>8. EntriesKnown'
  BY <1>1, <1>3 DEF TellInv, EntriesKnown, Working
<1>9. TodoKnown'
  <2>1. \A m \in Range(t) : \/ \E i \in DOMAIN pass.entries : Single(m, pass.entries[i])
                           \/ \E r \in Recruiters, p \in Nat : PartOf(m, r, p, pass.entries)
    BY <1>1 DEF TellInv, TodoKnown
  <2>2. \A m, n \in Range(t) : m.key = n.key \/ m.about \cap n.about # {} => m = n
    BY <1>1, <1>5
  <2> QED BY <1>1, <1>3, <2>1, <2>2 DEF TodoKnown
<1>10. FirstPartFirst'
  <2>1. SUFFICES ASSUME NEW r, NEW k \in DOMAIN t, NEW p \in Nat, t[k].key = BatchKey(r, p),
                        BatchKey(r, 1) \notin Sent(pass.day)'
                 PROVE  \E j \in 1 .. k : t[j].key = BatchKey(r, 1)
    BY <1>3 DEF FirstPartFirst, Sent
  <2>2. k + 1 \in DOMAIN pass.todo /\ pass.todo[k + 1].key = BatchKey(r, p)
    BY <1>1, <2>1
  <2>3. BatchKey(r, 1) \notin Sent(pass.day)
    BY <1>4, <2>1
  <2>4. PICK j \in 1 .. k + 1 : pass.todo[j].key = BatchKey(r, 1)
    BY <2>2, <2>3 DEF TellInv, FirstPartFirst
  <2>5. j # 1
    BY <1>1, <1>4, <2>1, <2>4
  <2>6. j - 1 \in 1 .. k /\ j - 1 \in DOMAIN t /\ (j - 1) + 1 = j
    BY <1>1, <2>1, <2>4, <2>5
  <2>7. t[j - 1] = pass.todo[j]
    BY <1>1, <2>6
  <2> QED BY <2>4, <2>6, <2>7
<1>11. TodoUntold'
  <2>1. SUFFICES ASSUME NEW m \in Range(t), NEW n \in told', n.day = pass.day,
                        n.key = m.key \/ (n.about \cap m.about) \ moved # {}
                 PROVE  n.key = m.key /\ n.about = m.about
    BY <1>1, <1>3 DEF TodoUntold
  <2>2. CASE n \in told
    BY <1>1, <2>1, <2>2 DEF TellInv, TodoUntold
  <2>3. CASE n = Row
    <3>1. m = Now
      BY <1>1, <1>4, <1>5, <2>1, <2>3
    <3> QED BY <1>4, <2>3, <3>1
  <2> QED BY <1>4, <2>1, <2>2, <2>3
<1>12. RowsTold'
  BY <1>1, <1>4 DEF RowsTold, TellInv, ToldToday, Row
<1>13. OneRowAKey'
  <2>1. SUFFICES ASSUME NEW m \in told', NEW n \in told', m.day = n.day, m.key = n.key PROVE m = n
    BY DEF OneRowAKey
  <2>2. \A x \in told : x.key \in Sent(x.day)
    BY SentHas
  <2>3. CASE m \in told /\ n \in told
    BY <2>1, <2>3 DEF TellInv, ToldToday, OneRowAKey
  <2>4. CASE m \in told /\ n = Row /\ Now.key \notin sent
    BY <1>4, <2>1, <2>2, <2>4 DEF sent
  <2>5. CASE n \in told /\ m = Row /\ Now.key \notin sent
    BY <1>4, <2>1, <2>2, <2>5 DEF sent
  <2> QED BY <1>4, <2>1, <2>3, <2>4, <2>5
<1>14. PartsFollowFirst'
  <2>1. SUFFICES ASSUME NEW n \in told', NEW r, NEW p \in Nat, n.key = BatchKey(r, p)
                 PROVE  BatchKey(r, 1) \in Sent(n.day)'
    BY DEF PartsFollowFirst
  <2>2. CASE n \in told
    <3>1. BatchKey(r, 1) \in Sent(n.day)
      BY <2>1, <2>2 DEF TellInv, ToldToday, PartsFollowFirst
    <3>2. Sent(n.day) \subseteq {m.key : m \in {x \in told' : x.day = n.day}}
      BY <1>1 DEF Sent
    <3> QED BY <3>1, <3>2 DEF Sent
  <2>3. CASE n = Row
    <3>1. pass.todo[1].key = BatchKey(r, p)
      BY <1>1, <1>4, <2>1, <2>3
    <3>2. BatchKey(r, 1) \in Sent(pass.day) \/ Now.key = BatchKey(r, 1)
      <4>1. BatchKey(r, 1) \in Sent(pass.day) \/ \E j \in 1 .. 1 : pass.todo[j].key = BatchKey(r, 1)
        BY <1>1, <3>1 DEF TellInv, FirstPartFirst
      <4> QED BY <1>1, <4>1
    <3>3. BatchKey(r, 1) \in Sent(pass.day)'
      BY <1>4, <3>2
    <3> QED BY <1>3, <1>4, <2>3, <3>3 DEF Sent
  <2> QED BY <1>4, <2>2, <2>3
<1>15. ToldUnderOwnKey'
  <2>1. SUFFICES ASSUME NEW n \in told', NEW c \in n.about \cap Unmoved
                 PROVE  n.key = Key(Own(c, n.day)) \/ BatchKey(FirstItem[c].recruiter, 1) \in Sent(n.day)'
    BY <1>3 DEF ToldUnderOwnKey, Own, Entry, Key
  <2>2. CASE n \in told
    <3>1. n.key = Key(Own(c, n.day)) \/ BatchKey(FirstItem[c].recruiter, 1) \in Sent(n.day)
      BY <2>1, <2>2 DEF TellInv, ToldToday, ToldUnderOwnKey
    <3>2. Sent(n.day) \subseteq Sent(n.day)'
      BY <1>1 DEF Sent
    <3> QED BY <3>1, <3>2
  <2>3. CASE n = Row
    <3>1. n.day = pass.day /\ n.key = Now.key /\ c \in Now.about /\ c \in Unmoved
      BY <1>4, <2>1, <2>3
    <3>2. CASE \E i \in DOMAIN pass.entries : Single(Now, pass.entries[i])
      <4>1. PICK i \in DOMAIN pass.entries : Single(Now, pass.entries[i])
        BY <3>2
      <4>2. Now.key = Key(pass.entries[i]) /\ pass.entries[i].c = c
        BY <3>1, <4>1 DEF Single, Message
      <4>3. pass.entries[i] = Own(c, pass.day)
        BY <1>2, <3>1, <4>2
      <4> QED BY <3>1, <4>2, <4>3
    <3>3. CASE \E r \in Recruiters, p \in Nat : PartOf(Now, r, p, pass.entries)
      <4>1. PICK r \in Recruiters, p \in Nat : PartOf(Now, r, p, pass.entries)
        BY <3>3
      <4>2. PICK i \in DOMAIN pass.entries : pass.entries[i].c = c /\ pass.entries[i].recruiter = r
        BY <3>1, <4>1 DEF PartOf
      <4>3. pass.entries[i] = Own(c, pass.day)
        BY <1>2, <3>1, <4>2
      <4>4. FirstItem[c].recruiter = r
        BY <4>2, <4>3, EntryIs DEF Own
      <4>5. n.key = BatchKey(r, p)
        BY <3>1, <4>1 DEF PartOf, Message
      <4>6. BatchKey(r, 1) \in Sent(n.day)'
        BY <1>14, <4>5 DEF PartsFollowFirst
      <4> QED BY <4>4, <4>6
    <3> QED BY <1>5, <3>2, <3>3
  <2> QED BY <1>4, <2>2, <2>3
<1>16. OwnRowsTell'
  <2>1. SUFFICES ASSUME NEW n \in told', NEW c \in Unmoved, n.key = Key(Own(c, n.day)),
                        FirstItem[c].recruiter # "none", FirstItem[c].cooling > 0
                 PROVE  c \in n.about
    BY <1>3 DEF OwnRowsTell, Own, Entry, Key
  <2>2. CASE n \in told
    BY <2>1, <2>2 DEF TellInv, ToldToday, OwnRowsTell
  <2>3. CASE n = Row
    <3>1. n.day = pass.day /\ n.about = Now.about /\ Now.key = Key(Own(c, pass.day))
      BY <1>4, <2>1, <2>3
    <3>2. Key(Own(c, pass.day))[3] = c /\ Key(Own(c, pass.day))[4] = FirstItem[c].recruiter
          /\ \A r, p : Key(Own(c, pass.day)) # BatchKey(r, p)
      BY EntryIs DEF Key, Own, BatchKey, Kinds
    <3>3. CASE \E i \in DOMAIN pass.entries : Single(Now, pass.entries[i])
      <4>1. PICK i \in DOMAIN pass.entries : Single(Now, pass.entries[i])
        BY <3>3
      <4> DEFINE e == pass.entries[i]
      <4>2. Now.key = Key(e) /\ Now.about = IF e.recruiter = "none" THEN {} ELSE {e.c}
        BY <4>1 DEF Single, Message
      <4> HIDE DEF e
      <4>3. Key(e)[3] = e.c /\ Key(e)[4] = e.recruiter
        BY DEF Key
      <4> QED BY <2>1, <3>1, <3>2, <4>2, <4>3
    <3>4. CASE \E r \in Recruiters, p \in Nat : PartOf(Now, r, p, pass.entries)
      BY <3>1, <3>2, <3>4 DEF PartOf, Message
    <3> QED BY <1>5, <3>3, <3>4
  <2> QED BY <1>4, <2>2, <2>3
<1>17. TwiceOnlyIfMoved'
  <2>1. SUFFICES ASSUME NEW m \in told', NEW n \in told', m # n, m.day = n.day,
                        NEW c \in m.about \cap n.about, c \notin moved
                 PROVE  FALSE
    BY <1>1 DEF TwiceOnlyIfMoved
  <2>2. CASE m \in told /\ n \in told
    BY <2>1, <2>2 DEF TellInv, ToldToday, TwiceOnlyIfMoved
  <2>3. ASSUME NEW x \in told, x.day = pass.day, c \in x.about, c \in Row.about, Now.key \notin sent PROVE FALSE
    <3>1. x.key = Now.key
      BY <1>1, <1>4, <2>1, <2>3 DEF TellInv, TodoUntold
    <3> QED BY <2>3, <3>1, SentHas DEF sent
  <2>4. CASE m \in told /\ n = Row /\ Now.key \notin sent
    BY <1>4, <2>1, <2>3, <2>4
  <2>5. CASE n \in told /\ m = Row /\ Now.key \notin sent
    BY <1>4, <2>1, <2>3, <2>5
  <2> QED BY <1>4, <2>1, <2>2, <2>4, <2>5
<1> QED BY <1>6, <1>7, <1>8, <1>9, <1>10, <1>11, <1>12, <1>13, <1>14, <1>15, <1>16, <1>17 DEF TellInv, ToldToday

LEMMA TellNext == TellInv /\ [ChecksNext]_checksVars => TellInv'
<1> SUFFICES ASSUME TellInv, [ChecksNext]_checksVars PROVE TellInv'
  OBVIOUS
<1>1. CASE UNCHANGED checksVars
  BY <1>1, TellQuiet DEF checksVars
<1>2. CASE ClockTicks \/ SettingToggles \/ MarkMissed \/ PageOpens \/ AnswerCommit \/ HandlerCommit
  <2>1. UNCHANGED <<pass, told, item, moved, dropped>>
    BY <1>2 DEF ClockTicks, SettingToggles, MarkMissed, PageOpens, AnswerCommit, HandlerCommit,
                rowVars, procVars, worldVars
  <2> QED BY <2>1, TellQuiet
<1>3. CASE PassFetch \/ PassEnd \/ PassCrash
  <2>1. /\ UNCHANGED <<told, item, moved, dropped>>
        /\ pass' = Idle \/ pass' = [Idle EXCEPT !.pc = "fetched", !.items = Fetched]
    BY <1>3 DEF PassFetch, PassEnd, PassCrash, rowVars, worldVars
  <2> QED BY <2>1, TellIdle
<1>4. CASE PassEvaluate
  BY <1>4, TellEvaluate
<1>5. CASE PassPlan
  BY <1>5, TellPlan
<1>6. CASE PassSend
  BY <1>6, TellSend
<1>7. ASSUME NEW c \in Range(Clawbacks), ItemDrops(c) PROVE TellInv'
  <2>1. UNCHANGED <<pass, told, item, moved>> /\ dropped \subseteq dropped'
    BY <1>7 DEF ItemDrops, rowVars, procVars
  <2> QED BY <2>1, TellQuiet
<1>8. ASSUME NEW c \in Range(Clawbacks), NEW d \in Days, AnswerLoad(c, d) PROVE TellInv'
  <2>1. UNCHANGED <<pass, told, item, moved, dropped>>
    BY <1>8 DEF AnswerLoad, rowVars, worldVars
  <2> QED BY <2>1, TellQuiet
<1>9. ASSUME NEW e \in events, HandlerLoad(e) PROVE TellInv'
  <2>1. UNCHANGED <<pass, told, item, moved, dropped>>
    BY <1>9 DEF HandlerLoad, rowVars
  <2> QED BY <2>1, TellQuiet
<1>10. ASSUME NEW c \in Range(Clawbacks), ItemMoves(c) PROVE TellInv'
  BY <1>10, TellMoves
<1> QED BY <1>1, <1>2, <1>3, <1>4, <1>5, <1>6, <1>7, <1>8, <1>9, <1>10 DEF ChecksNext

\* Nobody is told about one clawback twice a day unless it changed, however many
\* clawbacks, rules, passes, crashes and toggles there are (clawback_engine.py,
\* plan_recruiter_messages and create_log).
THEOREM ToldOnceADay == ChecksSpec => []TwiceOnlyIfMoved
<1>1. TellInv => TwiceOnlyIfMoved
  BY DEF TellInv, ToldToday
<1> QED BY <1>1, TellInit, TellNext, PTL DEF ChecksSpec

-----------------------------------------------------------------------------
(* Who is left out of a day's messages *)

\* A check cancelled because its clawback moved or ended says so truly, and so do the
\* events on their way and the one in hand.
Says(c, change) == IF change = "moved" THEN c \in moved ELSE c \in dropped
CancelsTrue ==
  /\ \A c \in Range(Clawbacks), d \in Days : check[c][d] \in Cancelled => Says(c, check[c][d])
  /\ \A e \in events : e.change \in Cancelled /\ Says(e.c, e.change)
  /\ handler # NoHandler => handler.change \in Cancelled /\ Says(handler.c, handler.change)
TimeKnown == /\ clock = [day |-> clock.day, hour |-> clock.hour]
             /\ clock.day \in Days /\ clock.hour \in Hours /\ (Working => pass.day \in Days)

\* A clawback that falls due on day d; one that has ended for this pass; one that falls
\* due later on the day than another rule's; and one that the messages of the day account
\* for: told, to be told, late, or lost with a pass that died.
InEntries(c) == \E i \in DOMAIN pass.entries : pass.entries[i].c = c
FallsDue(c, d) == /\ AnchorAndDay(FirstItem[c], d) # NoAnchor /\ DueRule[FirstItem[c]][d] # NoRule
                  /\ FirstItem[c].cooling > 0
Ended(c) == c \in dropped /\ IF Working THEN ~InEntries(c) ELSE c \notin DOMAIN pass.items
Late(c, d) == \E q \in Rules : q.send < DueRule[FirstItem[c]][d].send
ToldOn(c, d) == \E m \in told : m.day = d /\ c \in m.about
Queued(c) == \E k \in DOMAIN pass.todo : c \in pass.todo[k].about
Accounted(c, d) == ToldOn(c, d) \/ Late(c, d) \/ d \in crashed \/ (pass.day = d /\ Queued(c))

\* The entries of a pass are due, and are all that is due; a list that went out, and the
\* messages of a pass that has planned them, account for all of them.
DueEntries == Working => \A i \in DOMAIN pass.entries :
                pass.entries[i].c \in Unmoved => FallsDue(pass.entries[i].c, pass.day)
EntriesComplete ==
  Working /\ pass.entries # <<>> =>
    \A c \in Unmoved : FallsDue(c, pass.day) => InEntries(c) \/ Ended(c) \/ Late(c, pass.day)
ListsComplete ==
  \A c \in Unmoved, d \in Days :
    BatchKey(FirstItem[c].recruiter, 1) \in Sent(d) /\ FallsDue(c, d) => Accounted(c, d) \/ Ended(c)
EntriesTold ==
  pass.pc = "sending" => \A i \in DOMAIN pass.entries :
    LET e == pass.entries[i] IN
    e.recruiter = "none" \/ e.c \in moved \/ Accounted(e.c, pass.day)
TodoOfEntries == pass.todo # <<>> => pass.entries # <<>>
SilentInv == /\ CancelsTrue /\ TimeKnown /\ DueEntries /\ EntriesComplete /\ ListsComplete
             /\ EntriesTold /\ TodoOfEntries

\* The rows that are cancelled after a step were cancelled before, or the handler says so.
LEMMA CancelledBefore ==
  ASSUME RowsThere, [ChecksNext]_checksVars, NEW c \in Range(Clawbacks), NEW d \in Days,
         check'[c][d] \in Cancelled
  PROVE  \/ check'[c][d] = check[c][d]
         \/ c = handler.c /\ check'[c][d] = handler.change /\ handler # NoHandler
<1>1. CASE Answers
  BY <1>1 DEF Answers, RowsThere, Cancelled
<1>2. CASE HandlerCommit
  <2>1. PICK found \in BOOLEAN :
          check' = [check EXCEPT ![handler.c] =
                      [e \in Days |-> IF e \in Withdrawn(found) THEN handler.change ELSE @[e]]]
    BY <1>2 DEF HandlerCommit
  <2>2. handler # NoHandler
    BY <1>2 DEF HandlerCommit
  <2> QED BY <2>1, <2>2 DEF RowsThere
<1>3. CASE Adds
  <2>1. PICK S, items, day : check' = Ensure(check, S, items, day)
    BY <1>3 DEF Adds
  <2>2. check'[c][d] = check[c][d] \/ check'[c][d] = "pending"
    BY <2>1 DEF Ensure, RowsThere
  <2> QED BY <2>2 DEF Cancelled
<1>4. CASE Misses
  BY <1>4 DEF Misses, RowsThere, Cancelled
<1>5. CASE check' = check
  BY <1>5
<1>6. ~HandlerCommit => Answers \/ Adds \/ Misses \/ check' = check
  <2>1. CASE PassEvaluate
    BY <2>1 DEF PassEvaluate, Adds
  <2>2. CASE PageOpens
    BY <2>2 DEF PageOpens, Adds, procVars
  <2>3. CASE AnswerCommit
    BY <2>3 DEF AnswerCommit, Answers
  <2>4. CASE MarkMissed
    BY <2>4 DEF MarkMissed, Misses, procVars
  <2>5. CASE UNCHANGED checksVars
    BY <2>5 DEF checksVars
  <2>6. CASE \E x \in Range(Clawbacks), e \in Days : AnswerLoad(x, e)
    BY <2>6 DEF AnswerLoad, rowVars
  <2>7. CASE ClockTicks \/ SettingToggles \/ PassFetch \/ PassPlan \/ PassSend \/ PassEnd \/ PassCrash
    BY <2>7 DEF ClockTicks, SettingToggles, PassFetch, PassPlan, PassSend, PassEnd, PassCrash, rowVars
  <2>8. CASE \/ \E x \in Range(Clawbacks) : ItemMoves(x) \/ ItemDrops(x)
             \/ \E e \in events : HandlerLoad(e)
    BY <2>8 DEF ItemMoves, ItemDrops, HandlerLoad, rowVars
  <2> QED BY <2>1, <2>2, <2>3, <2>4, <2>5, <2>6, <2>7, <2>8 DEF ChecksNext
<1> QED BY <1>1, <1>2, <1>3, <1>4, <1>5, <1>6

\* What a step does to the world: clawbacks only ever move and end.
LEMMA WorldGrows ==
  ASSUME [ChecksNext]_checksVars
  PROVE  /\ moved \subseteq moved' /\ dropped \subseteq dropped' /\ crashed \subseteq crashed'
         /\ told \subseteq told'
<1>1. CASE UNCHANGED checksVars
  BY <1>1 DEF checksVars
<1>2. CASE ClockTicks \/ MarkMissed \/ PageOpens \/ AnswerCommit \/ HandlerCommit \/ PassFetch \/ PassEvaluate
           \/ PassPlan
  BY <1>2 DEF ClockTicks, MarkMissed, PageOpens, AnswerCommit, HandlerCommit, PassFetch, PassEvaluate,
              PassPlan, rowVars, worldVars
<1>3. CASE PassSend \/ PassEnd \/ PassCrash \/ SettingToggles
  BY <1>3 DEF PassSend, PassEnd, PassCrash, SettingToggles, rowVars, worldVars
<1>4. CASE \E c \in Range(Clawbacks) : ItemMoves(c) \/ ItemDrops(c) \/ (\E d \in Days : AnswerLoad(c, d))
  BY <1>4 DEF ItemMoves, ItemDrops, AnswerLoad, rowVars, worldVars
<1>5. CASE \E e \in events : HandlerLoad(e)
  BY <1>5 DEF HandlerLoad, rowVars
<1> QED BY <1>1, <1>2, <1>3, <1>4, <1>5 DEF ChecksNext

LEMMA CancelsStayTrue ==
  ASSUME RowsThere, CancelsTrue, [ChecksNext]_checksVars
  PROVE  CancelsTrue'
<1>1. moved \subseteq moved' /\ dropped \subseteq dropped'
  BY WorldGrows
<1>2. ASSUME NEW c \in Range(Clawbacks), NEW d \in Days, check'[c][d] \in Cancelled
      PROVE  Says(c, check[c][d])'
  <2>1. CASE check'[c][d] = check[c][d]
    <3>1. Says(c, check[c][d])
      BY <1>2, <2>1 DEF CancelsTrue
    <3> QED BY <1>1, <2>1, <3>1 DEF Says
  <2>2. CASE c = handler.c /\ check'[c][d] = handler.change /\ handler # NoHandler
    <3>1. Says(handler.c, handler.change)
      BY <2>2 DEF CancelsTrue
    <3> QED BY <1>1, <2>2, <3>1 DEF Says
  <2> QED BY <1>2, <2>1, <2>2, CancelledBefore
<1>3. ASSUME NEW e \in events' PROVE e.change \in Cancelled /\ Says(e.c, e.change)'
  <2>1. CASE e \in events
    <3>1. e.change \in Cancelled /\ Says(e.c, e.change)
      BY <2>1 DEF CancelsTrue
    <3> QED BY <1>1, <3>1 DEF Says
  <2>2. ASSUME NEW c \in Range(Clawbacks), ItemMoves(c), e \notin events
        PROVE  e.change \in Cancelled /\ Says(e.c, e.change)'
    <3>1. e = [c |-> c, change |-> "moved"] /\ c \in moved'
      BY <1>3, <2>2 DEF ItemMoves
    <3> QED BY <3>1 DEF Says, Cancelled
  <2>3. ASSUME NEW c \in Range(Clawbacks), ItemDrops(c), e \notin events
        PROVE  e.change \in Cancelled /\ Says(e.c, e.change)'
    <3>1. e = [c |-> c, change |-> "dropped"] /\ c \in dropped'
      BY <1>3, <2>3 DEF ItemDrops
    <3> QED BY <3>1 DEF Says, Cancelled
  <2>4. CASE events' \subseteq events
    BY <1>3, <2>1, <2>4
  <2>5. \/ events' \subseteq events
        \/ \E c \in Range(Clawbacks) : ItemMoves(c) \/ ItemDrops(c)
    <3>1. CASE UNCHANGED checksVars
      BY <3>1 DEF checksVars
    <3>2. CASE ClockTicks \/ MarkMissed \/ PageOpens \/ AnswerCommit \/ HandlerCommit \/ PassFetch
               \/ PassEvaluate \/ PassPlan
      BY <3>2 DEF ClockTicks, MarkMissed, PageOpens, AnswerCommit, HandlerCommit, PassFetch, PassEvaluate,
                  PassPlan, worldVars
    <3>3. CASE PassSend \/ PassEnd \/ PassCrash \/ SettingToggles
      BY <3>3 DEF PassSend, PassEnd, PassCrash, SettingToggles, worldVars
    <3>4. CASE \E c \in Range(Clawbacks), d \in Days : AnswerLoad(c, d)
      BY <3>4 DEF AnswerLoad, worldVars
    <3>5. CASE \E x \in events : HandlerLoad(x)
      BY <3>5 DEF HandlerLoad
    <3> QED BY <3>1, <3>2, <3>3, <3>4, <3>5 DEF ChecksNext
  <2> QED BY <1>3, <2>1, <2>2, <2>3, <2>4, <2>5
<1>4. ASSUME handler' # NoHandler PROVE handler'.change \in Cancelled /\ Says(handler.c, handler.change)'
  <2>1. CASE handler' = handler
    <3>1. handler.change \in Cancelled /\ Says(handler.c, handler.change)
      BY <1>4, <2>1 DEF CancelsTrue
    <3> QED BY <1>1, <2>1, <3>1 DEF Says
  <2>2. ASSUME NEW e \in events, HandlerLoad(e)
        PROVE  handler'.change \in Cancelled /\ Says(handler.c, handler.change)'
    <3>1. handler'.c = e.c /\ handler'.change = e.change
      BY <2>2 DEF HandlerLoad
    <3>2. e.change \in Cancelled /\ Says(e.c, e.change)
      BY DEF CancelsTrue
    <3> QED BY <1>1, <3>1, <3>2 DEF Says
  <2>3. handler' = handler \/ handler' = NoHandler \/ \E e \in events : HandlerLoad(e)
    <3>1. CASE UNCHANGED checksVars
      BY <3>1 DEF checksVars
    <3>2. CASE ClockTicks \/ MarkMissed \/ PageOpens \/ AnswerCommit \/ HandlerCommit \/ PassFetch
               \/ PassEvaluate \/ PassPlan
      BY <3>2 DEF ClockTicks, MarkMissed, PageOpens, AnswerCommit, HandlerCommit, PassFetch, PassEvaluate,
                  PassPlan, procVars
    <3>3. CASE PassSend \/ PassEnd \/ PassCrash \/ SettingToggles
      BY <3>3 DEF PassSend, PassEnd, PassCrash, SettingToggles, procVars
    <3>4. CASE \E c \in Range(Clawbacks) : ItemMoves(c) \/ ItemDrops(c) \/ (\E d \in Days : AnswerLoad(c, d))
      BY <3>4 DEF ItemMoves, ItemDrops, AnswerLoad, procVars
    <3> QED BY <3>1, <3>2, <3>3, <3>4 DEF ChecksNext
  <2> QED BY <1>4, <2>1, <2>2, <2>3
<1>5. \A e \in events' : e.change \in Cancelled /\ Says(e.c, e.change)'
  BY <1>3
<1> QED BY <1>2, <1>4, <1>5 DEF CancelsTrue

LEMMA ChoiceOfHours == Min(Hours) \in Hours /\ Min(Days) \in Days /\ Days \subseteq Nat /\ Hours \subseteq Nat
<1>1. Hours # {} /\ Hours \subseteq Nat /\ Days \subseteq Nat
  BY ChecksAssumption
<1>2. PICK first \in Days, last \in Days : Days = first .. last
  BY ChecksAssumption
<1>3. \E h \in Hours : \A g \in Hours : h <= g
  BY <1>1, LeastNat
<1>4. \E d \in Days : \A g \in Days : d <= g
  BY <1>1, <1>2
<1> QED BY <1>1, <1>3, <1>4 DEF Min

LEMMA NextDay == ASSUME NEW d \in Days, d # Max(Days) PROVE d + 1 \in Days
<1>1. PICK first \in Days, last \in Days : Days = first .. last
  BY ChecksAssumption
<1>2. first \in Nat /\ last \in Nat
  BY ChecksAssumption
<1>3. /\ last \in Days /\ \A g \in Days : last >= g
  BY <1>1, <1>2
<1>4. Max(Days) \in Days /\ \A g \in Days : Max(Days) >= g
  BY <1>3 DEF Max
<1> QED BY <1>1, <1>2, <1>3, <1>4

\* Days are the model's, and a pass keeps the day it found its entries on.
LEMMA TimeStays ==
  ASSUME FetchKnown, TimeKnown, [ChecksNext]_checksVars
  PROVE  TimeKnown'
<1>1. CASE clock' = clock
  <2>1. ASSUME Working' PROVE (Working /\ pass'.day = pass.day) \/ pass'.day = clock.day
    <3>1. CASE pass' = pass
      BY <2>1, <3>1 DEF Working
    <3>2. CASE PassEvaluate
      <4>1. CASE CanSend(clock)
        BY <3>2, <4>1, EvaluateIs
      <4>2. CASE ~CanSend(clock)
        BY <2>1, <3>2, <4>2 DEF PassEvaluate, Idle, Working
      <4> QED BY <4>1, <4>2
    <3>3. CASE PassPlan \/ PassSend
      <4>1. pass = [pc |-> pass.pc, items |-> pass.items, bare |-> pass.bare, entries |-> pass.entries,
                    todo |-> pass.todo, day |-> pass.day]
        BY DEF FetchKnown
      <4>2. pass'.day = pass.day
        BY <3>3, <4>1 DEF PassPlan, PassSend
      <4>3. Working
        BY <3>3 DEF PassPlan, PassSend, Working
      <4> QED BY <4>2, <4>3
    <3>4. CASE PassFetch \/ PassEnd \/ PassCrash
      <4>1. Idle.pc = "idle" /\ [Idle EXCEPT !.pc = "fetched", !.items = Fetched].pc = "fetched"
        BY DEF Idle
      <4> QED BY <2>1, <3>4, <4>1 DEF PassFetch, PassEnd, PassCrash, Working
    <3>5. CASE ClockTicks \/ SettingToggles \/ MarkMissed \/ PageOpens \/ AnswerCommit \/ HandlerCommit
      BY <3>1, <3>5 DEF ClockTicks, SettingToggles, MarkMissed, PageOpens, AnswerCommit, HandlerCommit, procVars
    <3>6. CASE \/ \E c \in Range(Clawbacks) : ItemMoves(c) \/ ItemDrops(c) \/ (\E d \in Days : AnswerLoad(c, d))
               \/ \E e \in events : HandlerLoad(e)
      BY <3>1, <3>6 DEF ItemMoves, ItemDrops, AnswerLoad, HandlerLoad, procVars
    <3>7. CASE UNCHANGED checksVars
      BY <3>1, <3>7 DEF checksVars
    <3> QED BY <3>2, <3>3, <3>4, <3>5, <3>6, <3>7 DEF ChecksNext
  <2> QED BY <1>1, <2>1 DEF TimeKnown
<1>2. CASE ClockTicks
  <2>1. pass' = pass
    BY <1>2 DEF ClockTicks, procVars
  <2>2. /\ clock'.day \in Days /\ clock'.hour \in Hours
        /\ clock' = [day |-> clock'.day, hour |-> clock'.hour]
    <3>1. CASE \E h \in Hours : clock' = [clock EXCEPT !.hour = h]
      BY <3>1 DEF TimeKnown
    <3>2. CASE clock.day # Max(Days) /\ clock' = [day |-> clock.day + 1, hour |-> Min(Hours)]
      BY <3>2, ChoiceOfHours, NextDay DEF TimeKnown
    <3> QED BY <1>2, <3>1, <3>2 DEF ClockTicks
  <2> QED BY <2>1, <2>2 DEF TimeKnown, Working
<1>3. clock' = clock \/ ClockTicks
  <2>1. CASE SettingToggles \/ MarkMissed \/ PageOpens \/ AnswerCommit \/ HandlerCommit
    BY <2>1 DEF SettingToggles, MarkMissed, PageOpens, AnswerCommit, HandlerCommit
  <2>2. CASE PassFetch \/ PassEvaluate \/ PassPlan \/ PassSend \/ PassEnd \/ PassCrash
    BY <2>2 DEF PassFetch, PassEvaluate, PassPlan, PassSend, PassEnd, PassCrash
  <2>3. CASE \/ \E c \in Range(Clawbacks) : ItemMoves(c) \/ ItemDrops(c) \/ (\E d \in Days : AnswerLoad(c, d))
             \/ \E e \in events : HandlerLoad(e)
    BY <2>3 DEF ItemMoves, ItemDrops, AnswerLoad, HandlerLoad
  <2>4. CASE UNCHANGED checksVars
    BY <2>4 DEF checksVars
  <2> QED BY <2>1, <2>2, <2>3, <2>4 DEF ChecksNext
<1> QED BY <1>1, <1>2, <1>3

\* The ways a step may change the pass.
Begins == /\ pass' = [Idle EXCEPT !.pc = "fetched", !.items = Fetched] /\ pass.pc = "idle"
          /\ UNCHANGED <<told, crashed, dropped, moved>>
Stops == /\ pass' = Idle /\ UNCHANGED <<told, dropped, moved>>
         /\ pass.todo = <<>> \/ pass.day \in crashed'
Stays == UNCHANGED <<pass, told>>
LEMMA PassSteps ==
  ASSUME TellInv, [ChecksNext]_checksVars
  PROVE  Begins \/ Stops \/ Stays \/ PassPlan \/ PassSend \/ (PassEvaluate /\ CanSend(clock))
<1>1. CASE PassFetch
  BY <1>1 DEF PassFetch, Begins, rowVars, worldVars
<1>2. CASE PassEnd
  BY <1>2 DEF PassEnd, Stops, rowVars, worldVars
<1>3. CASE PassCrash
  <2>1. pass.pc = "fetched" => pass.todo = <<>>
    BY DEF TellInv, EntriesKnown
  <2> QED BY <1>3, <2>1 DEF PassCrash, Stops, rowVars, worldVars
<1>4. CASE PassEvaluate /\ ~CanSend(clock)
  <2>1. pass.todo = <<>>
    BY <1>4 DEF PassEvaluate, TellInv, EntriesKnown
  <2> QED BY <1>4, <2>1 DEF PassEvaluate, Stops, worldVars
<1>5. CASE ClockTicks \/ SettingToggles \/ MarkMissed \/ PageOpens \/ AnswerCommit \/ HandlerCommit
  BY <1>5 DEF ClockTicks, SettingToggles, MarkMissed, PageOpens, AnswerCommit, HandlerCommit,
              Stays, rowVars, procVars
<1>6. CASE \/ \E c \in Range(Clawbacks) : ItemMoves(c) \/ ItemDrops(c) \/ (\E d \in Days : AnswerLoad(c, d))
           \/ \E e \in events : HandlerLoad(e)
  BY <1>6 DEF ItemMoves, ItemDrops, AnswerLoad, HandlerLoad, Stays, rowVars, procVars
<1>7. CASE UNCHANGED checksVars
  BY <1>7 DEF checksVars, Stays
<1> QED BY <1>1, <1>2, <1>3, <1>4, <1>5, <1>6, <1>7 DEF ChecksNext

\* What is told stays told, and what goes out of the list of messages is told or lost.
LEMMA AccountedStays ==
  ASSUME TellInv, [ChecksNext]_checksVars, NEW c, NEW d, Accounted(c, d)
  PROVE  Accounted(c, d)'
<1>1. told \subseteq told' /\ crashed \subseteq crashed'
  BY WorldGrows
<1>2. CASE ToldOn(c, d)
  BY <1>1, <1>2 DEF Accounted, ToldOn
<1>3. CASE Late(c, d) \/ d \in crashed
  BY <1>1, <1>3 DEF Accounted, Late
<1>4. CASE pass.day = d /\ Queued(c)
  <2>1. PICK k \in DOMAIN pass.todo : c \in pass.todo[k].about
    BY <1>4 DEF Queued
  <2>2. pass.todo # <<>>
    BY <2>1
  <2>3. pass.pc = "sending"
    BY <2>2 DEF TellInv, EntriesKnown
  <2>4. CASE Stays
    BY <1>4, <2>4 DEF Stays, Accounted, Queued
  <2>5. CASE Stops
    BY <1>4, <2>2, <2>5 DEF Stops, Accounted
  <2>6. CASE PassSend
    <3>1. /\ pass' = [pc |-> pass.pc, items |-> pass.items, bare |-> pass.bare, entries |-> pass.entries,
                      todo |-> Tail(pass.todo), day |-> pass.day]
          /\ told' = IF Now.key \in Sent(pass.day) THEN told ELSE told \cup {Row}
          /\ \A m \in Range(pass.todo) : m = Now \/ m \in Range(Tail(pass.todo))
          /\ Now \in Range(pass.todo)
      BY <2>6, SendIs
    <3>2. pass'.todo = Tail(pass.todo) /\ pass'.day = pass.day
      BY <3>1
    <3>3. pass.todo[k] \in Range(pass.todo)
      BY <2>1 DEF Range
    <3>4. CASE pass.todo[k] \in Range(Tail(pass.todo))
      <4>1. PICK j \in DOMAIN Tail(pass.todo) : Tail(pass.todo)[j] = pass.todo[k]
        BY <3>4 DEF Range
      <4>2. Queued(c)'
        BY <2>1, <3>2, <4>1 DEF Queued
      <4> QED BY <1>4, <3>2, <4>2 DEF Accounted
    <3>5. CASE pass.todo[k] = Now /\ Now.key \in Sent(pass.day)
      <4>1. PICK n \in told : n.day = pass.day /\ n.key = Now.key
        BY <3>5, SentIs
      <4>2. n.about = Now.about
        BY <3>1, <4>1 DEF TellInv, TodoUntold
      <4>3. n \in told' /\ n.day = d /\ c \in n.about
        BY <1>1, <1>4, <2>1, <3>5, <4>1, <4>2
      <4> QED BY <4>3 DEF Accounted, ToldOn
    <3>6. CASE pass.todo[k] = Now /\ Now.key \notin Sent(pass.day)
      <4>1. Row \in told' /\ Row.day = d /\ c \in Row.about
        BY <1>4, <2>1, <3>1, <3>6 DEF Row
      <4> QED BY <4>1 DEF Accounted, ToldOn
    <3> QED BY <3>1, <3>3, <3>4, <3>5, <3>6
  <2>7. ~Begins /\ ~PassPlan /\ ~PassEvaluate
    BY <2>3 DEF Begins, PassPlan, PassEvaluate
  <2> QED BY <2>4, <2>5, <2>6, <2>7, PassSteps
<1> QED BY <1>2, <1>3, <1>4 DEF Accounted

\* A clawback that has ended for a pass has ended for the passes after it.
LEMMA EndedStays ==
  ASSUME TellInv, [ChecksNext]_checksVars, NEW c, Ended(c)
  PROVE  Ended(c)'
<1>1. dropped \subseteq dropped' /\ c \in dropped
  BY WorldGrows DEF Ended
<1>2. CASE Stays
  BY <1>1, <1>2 DEF Stays, Ended, Working, InEntries
<1>3. CASE Begins
  <2>1. pass' = [pc |-> "fetched", items |-> Fetched, bare |-> {}, entries |-> <<>>, todo |-> <<>>, day |-> 0]
    BY <1>3 DEF Begins, Idle
  <2>2. c \notin DOMAIN Fetched
    BY <1>1 DEF Fetched
  <2> QED BY <1>1, <2>1, <2>2 DEF Ended, Working
<1>4. CASE Stops
  BY <1>1, <1>4 DEF Stops, Ended, Working, Idle
<1>5. CASE PassEvaluate /\ CanSend(clock)
  <2> DEFINE cs == Pick(Clawbacks, Entered(check'))
  <2>1. /\ pass' = [pc |-> "evaluated", items |-> pass.items, todo |-> pass.todo, day |-> clock.day,
                   bare |-> {Entry(x, pass.items[x], clock.day) :
                               x \in {x \in DueAt(pass.items, clock) : pass.items[x].cooling = 0}},
                   entries |-> [i \in DOMAIN cs |-> Entry(cs[i], pass.items[cs[i]], clock.day)]]
        /\ \A i \in DOMAIN cs : cs[i] \in DueAt(pass.items, clock)
    BY <1>5, EvaluateIs DEF TellInv
  <2>2. c \notin DOMAIN pass.items
    BY <1>5 DEF Ended, Working, PassEvaluate
  <2> HIDE DEF cs
  <2>3. \A i \in DOMAIN cs : Entry(cs[i], pass.items[cs[i]], clock.day).c # c
    BY <2>1, <2>2, EntryIs DEF DueAt
  <2>4. pass'.entries = [i \in DOMAIN cs |-> Entry(cs[i], pass.items[cs[i]], clock.day)]
    BY <2>1
  <2>5. ~InEntries(c)'
    BY <2>3, <2>4 DEF InEntries
  <2>6. Working'
    BY <2>1 DEF Working
  <2> QED BY <1>1, <2>5, <2>6 DEF Ended
<1>6. CASE PassPlan \/ PassSend
  <2>1. pass = [pc |-> pass.pc, items |-> pass.items, bare |-> pass.bare, entries |-> pass.entries,
                todo |-> pass.todo, day |-> pass.day]
    BY DEF TellInv, FetchKnown
  <2>2. pass'.entries = pass.entries /\ pass'.pc = "sending" /\ Working
    BY <1>6, <2>1 DEF PassPlan, PassSend, Working
  <2> QED BY <1>1, <2>2 DEF Ended, Working, InEntries
<1> QED BY <1>2, <1>3, <1>4, <1>5, <1>6, PassSteps

\* Entries are found whole: whoever is due and left out has ended or is late.
LEMMA EvaluatedWhole ==
  ASSUME TellInv, RowsThere, CancelsTrue, TimeKnown, PassEvaluate, CanSend(clock)
  PROVE  DueEntries' /\ EntriesComplete'
<1> DEFINE due == DueAt(pass.items, clock)
           cs == Pick(Clawbacks, Entered(check'))
<1>1. /\ pass' = [pc |-> "evaluated", items |-> pass.items, todo |-> pass.todo, day |-> clock.day,
                  bare |-> {Entry(x, pass.items[x], clock.day) : x \in {x \in due : pass.items[x].cooling = 0}},
                  entries |-> [i \in DOMAIN cs |-> Entry(cs[i], pass.items[cs[i]], clock.day)]]
      /\ \A i \in DOMAIN cs : /\ cs[i] \in due /\ pass.items[cs[i]].cooling > 0
                              /\ check'[cs[i]][clock.day] \notin Cancelled
      /\ \A c \in Range(Clawbacks) :
           c \in due /\ pass.items[c].cooling > 0 /\ check'[c][clock.day] \notin Cancelled =>
             \E i \in DOMAIN cs : cs[i] = c
  BY EvaluateIs DEF TellInv
<1>2. \A c \in due : /\ c \in DOMAIN pass.items /\ AnchorAndDay(pass.items[c], clock.day) # NoAnchor
                     /\ DueRule[pass.items[c]][clock.day] # NoRule
                     /\ clock.hour >= DueRule[pass.items[c]][clock.day].send
  BY DEF DueAt
<1>3. \A c \in DOMAIN pass.items :
        AnchorAndDay(pass.items[c], clock.day) # NoAnchor /\ DueRule[pass.items[c]][clock.day] # NoRule
          /\ clock.hour >= DueRule[pass.items[c]][clock.day].send => c \in due
  BY DEF DueAt
<1> HIDE DEF due, cs
<1>4. /\ pass'.pc = "evaluated" /\ pass'.day = clock.day
      /\ pass'.entries = [i \in DOMAIN cs |-> Entry(cs[i], pass.items[cs[i]], clock.day)]
  BY <1>1
<1>5. /\ Unmoved' = Unmoved /\ moved' = moved /\ dropped' = dropped /\ pass.pc = "fetched"
      /\ clock.day \in Days /\ clock.hour \in Hours
  BY DEF PassEvaluate, worldVars, Unmoved, TimeKnown
<1>6. \A c \in DOMAIN pass.items : pass.items[c] \in Items /\ (c \in Unmoved => pass.items[c] = FirstItem[c])
  BY DEF TellInv, FetchKnown
<1>7. \A i \in DOMAIN pass'.entries : i \in DOMAIN cs /\ pass'.entries[i].c = cs[i]
  BY <1>4, EntryIs
<1>8. \A i \in DOMAIN cs : i \in DOMAIN pass'.entries /\ pass'.entries[i].c = cs[i]
  BY <1>4, EntryIs
<1>9. DueEntries'
  <2>1. SUFFICES ASSUME NEW i \in DOMAIN pass'.entries, pass'.entries[i].c \in Unmoved
                 PROVE  FallsDue(pass'.entries[i].c, clock.day)
    BY <1>4, <1>5 DEF DueEntries, FallsDue
  <2>2. cs[i] \in due /\ pass.items[cs[i]].cooling > 0 /\ cs[i] \in Unmoved /\ pass'.entries[i].c = cs[i]
    BY <1>1, <1>7, <2>1
  <2>3. pass.items[cs[i]] = FirstItem[cs[i]]
    BY <1>2, <1>6, <2>2
  <2> QED BY <1>2, <2>2, <2>3 DEF FallsDue
<1>10. EntriesComplete'
  <2>1. SUFFICES ASSUME pass'.entries # <<>>, NEW c \in Unmoved, FallsDue(c, clock.day),
                        ~Late(c, clock.day), ~InEntries(c)'
                 PROVE  Ended(c)'
    BY <1>4, <1>5 DEF EntriesComplete, FallsDue, Late
  <2>2. c \in Range(Clawbacks) /\ Working'
    BY <1>4 DEF Unmoved, Working
  <2>3. CASE c \notin DOMAIN pass.items
    <3>1. c \in dropped
      BY <1>5, <2>2, <2>3 DEF TellInv, FetchKnown
    <3> QED BY <1>5, <2>1, <2>2, <3>1 DEF Ended
  <2>4. CASE c \in DOMAIN pass.items /\ c \notin due
    <3>1. pass.items[c] = FirstItem[c] /\ pass.items[c] \in Items
      BY <1>6, <2>4
    <3>2. ~(clock.hour >= DueRule[FirstItem[c]][clock.day].send)
      BY <1>3, <2>1, <2>4, <3>1 DEF FallsDue
    <3>3. DueRule[FirstItem[c]][clock.day] \in Rules
      BY <1>5, <2>1, <3>1, DueIsARule DEF FallsDue
    <3>4. PICK i \in DOMAIN cs : TRUE
      <4>1. pass'.entries \in Seq(Range(pass'.entries)) /\ pass'.entries # <<>>
        BY <2>1, TellEvaluate DEF TellInv, EntriesKnown
      <4>2. Len(pass'.entries) \in Nat /\ Len(pass'.entries) > 0
            /\ DOMAIN pass'.entries = 1 .. Len(pass'.entries)
        BY <4>1, EmptySeq, LenProperties
      <4>3. 1 \in DOMAIN pass'.entries
        BY <4>2
      <4> QED BY <1>7, <4>3
    <3>5. /\ cs[i] \in DOMAIN pass.items /\ DueRule[pass.items[cs[i]]][clock.day] # NoRule
          /\ clock.hour >= DueRule[pass.items[cs[i]]][clock.day].send
      BY <1>1, <1>2, <3>4
    <3>6. DueRule[pass.items[cs[i]]][clock.day] \in Rules
      BY <1>5, <1>6, <3>5, DueIsARule
    <3> DEFINE q == DueRule[pass.items[cs[i]]][clock.day]
               r == DueRule[FirstItem[c]][clock.day]
    <3>7. q \in Rules /\ r \in Rules /\ clock.hour >= q.send /\ ~(clock.hour >= r.send)
      BY <3>2, <3>3, <3>5, <3>6
    <3> HIDE DEF q, r
    <3>8. q.send \in Int /\ r.send \in Int /\ clock.hour \in Int
      <4>1. \A x \in Rules : x.send \in Int
        <5>1. \A x \in Rules : {x.id, x.priority, x.send} \subseteq Int
          BY ChecksAssumption
        <5> QED BY <5>1
      <4>2. clock.hour \in Int
        <5>1. clock.hour \in Hours
          BY <1>5
        <5>2. Hours \subseteq Nat
          BY ChoiceOfHours
        <5>3. clock.hour \in Nat
          BY <5>1, <5>2
        <5> QED BY <5>3
      <4> QED BY <3>7, <4>1, <4>2
    <3>9. q.send < r.send
      BY <3>7, <3>8
    <3> QED BY <2>1, <3>7, <3>9 DEF Late, r
  <2>5. CASE c \in due
    <3>1. c \in DOMAIN pass.items
      BY <1>2, <2>5
    <3>2. pass.items[c].cooling > 0
      BY <1>6, <2>1, <3>1 DEF FallsDue
    <3>3. check'[c][clock.day] \in Cancelled
      <4>1. SUFFICES ASSUME check'[c][clock.day] \notin Cancelled PROVE FALSE
        OBVIOUS
      <4>2. PICK i \in DOMAIN cs : cs[i] = c
        BY <1>1, <2>2, <2>5, <3>2, <4>1
      <4> QED BY <1>8, <2>1, <4>2 DEF InEntries
    <3>4. check[c][clock.day] \in Cancelled
      <4>1. check' = Ensure(check, DueAt(pass.items, clock), pass.items, clock.day)
        BY DEF PassEvaluate
      <4>2. check'[c][clock.day] = check[c][clock.day] \/ check'[c][clock.day] = "pending"
        BY <1>5, <2>2, <4>1 DEF Ensure, RowsThere
      <4> QED BY <3>3, <4>2 DEF Cancelled
    <3>5. Says(c, check[c][clock.day])
      BY <1>5, <2>2, <3>4 DEF CancelsTrue
    <3>6. c \in dropped
      BY <2>1, <3>5 DEF Says, Unmoved
    <3> QED BY <1>5, <2>1, <2>2, <3>6 DEF Ended
  <2> QED BY <2>3, <2>4, <2>5
<1> QED BY <1>9, <1>10

LEMMA DueEntriesStay ==
  ASSUME TellInv, RowsThere, SilentInv, [ChecksNext]_checksVars
  PROVE  DueEntries' /\ EntriesComplete'
<1>1. Unmoved' \subseteq Unmoved
  BY WorldGrows DEF Unmoved
<1>2. CASE PassEvaluate /\ CanSend(clock)
  BY <1>2, EvaluatedWhole DEF SilentInv
<1>3. CASE Begins \/ Stops
  <2>1. Idle.pc = "idle" /\ [Idle EXCEPT !.pc = "fetched", !.items = Fetched].pc = "fetched"
    BY DEF Idle
  <2>2. ~Working'
    BY <1>3, <2>1 DEF Begins, Stops, Working
  <2> QED BY <2>2 DEF DueEntries, EntriesComplete
<1>4. CASE Stays \/ PassPlan \/ PassSend
  <2>1. /\ pass'.entries = pass.entries /\ pass'.day = pass.day
        /\ Working' => Working
    <3>1. CASE Stays
      BY <3>1 DEF Stays, Working
    <3>2. CASE PassPlan \/ PassSend
      <4>1. pass = [pc |-> pass.pc, items |-> pass.items, bare |-> pass.bare, entries |-> pass.entries,
                    todo |-> pass.todo, day |-> pass.day]
        BY DEF TellInv, FetchKnown
      <4> QED BY <3>2, <4>1 DEF PassPlan, PassSend, Working
    <3> QED BY <1>4, <3>1, <3>2
  <2>2. DueEntries'
    <3>1. SUFFICES ASSUME Working, NEW i \in DOMAIN pass.entries, pass.entries[i].c \in Unmoved
                   PROVE  FallsDue(pass.entries[i].c, pass.day)
      BY <1>1, <2>1 DEF DueEntries, FallsDue
    <3> QED BY <3>1 DEF SilentInv, DueEntries
  <2>3. EntriesComplete'
    <3>1. SUFFICES ASSUME Working, pass.entries # <<>>, NEW c \in Unmoved, FallsDue(c, pass.day)
                   PROVE  InEntries(c) \/ Ended(c)' \/ Late(c, pass.day)
      BY <1>1, <2>1 DEF EntriesComplete, FallsDue, Late, InEntries
    <3>2. InEntries(c) \/ Ended(c) \/ Late(c, pass.day)
      BY <3>1 DEF SilentInv, EntriesComplete
    <3> QED BY <3>2, EndedStays
  <2> QED BY <2>2, <2>3
<1> QED BY <1>2, <1>3, <1>4, PassSteps

\* A pass without entries has no messages.
LEMMA TodoNeedsEntries ==
  ASSUME TellInv, TodoOfEntries, [ChecksNext]_checksVars
  PROVE  TodoOfEntries'
<1>1. CASE Begins \/ Stops
  <2>1. Idle.todo = <<>> /\ [Idle EXCEPT !.pc = "fetched", !.items = Fetched].todo = <<>>
    BY DEF Idle
  <2> QED BY <1>1, <2>1 DEF Begins, Stops, TodoOfEntries
<1>2. CASE Stays
  BY <1>2 DEF Stays, TodoOfEntries
<1>3. CASE PassEvaluate /\ CanSend(clock)
  <2>1. pass.todo = <<>>
    BY <1>3 DEF PassEvaluate, TellInv, EntriesKnown
  <2>2. pass'.todo = pass.todo
    BY <1>3, EvaluateIs DEF TellInv
  <2> QED BY <2>1, <2>2 DEF TodoOfEntries
<1>4. CASE PassSend
  <2>1. pass'.entries = pass.entries /\ pass.todo # <<>>
    BY <1>4, SendIs DEF PassSend
  <2> QED BY <2>1 DEF TodoOfEntries
<1>5. CASE PassPlan
  <2> DEFINE F == Fresh(pass.entries, Sent(pass.day))
             P == Plan(F)
  <2>1. pass = [pc |-> pass.pc, items |-> pass.items, bare |-> pass.bare, entries |-> pass.entries,
                todo |-> pass.todo, day |-> pass.day]
    BY DEF TellInv, FetchKnown
  <2>2. pass'.entries = pass.entries /\ pass'.todo = P
    BY <1>5, <2>1 DEF PassPlan
  <2>3. Different(pass.entries)
    BY EntriesDiffer
  <2>4. Different(F) /\ \A k \in DOMAIN F : \E i \in DOMAIN pass.entries : TRUE
    BY <2>3, FreshAre
  <2> HIDE DEF F
  <2>5. P \in Seq(Range(P)) /\ \A m \in Range(P) : \E r \in Recruiters : m \in Range(MessagesFor(F, r))
    BY <2>4, PlanIs
  <2> HIDE DEF P
  <2>6. ASSUME P # <<>> PROVE pass.entries # <<>>
    <3>1. Len(P) \in Nat /\ Len(P) > 0 /\ DOMAIN P = 1 .. Len(P)
      BY <2>5, <2>6, EmptySeq, LenProperties
    <3>2. P[1] \in Range(P)
      BY <3>1 DEF Range
    <3>3. PICK r \in Recruiters : P[1] \in Range(MessagesFor(F, r))
      BY <2>5, <3>2
    <3>4. PICK k \in DOMAIN MessagesFor(F, r) : TRUE
      BY <3>3 DEF Range
    <3>5. \E i \in DOMAIN F : F[i].recruiter = r
      BY <2>4, <3>4, MessagesAre
    <3>6. \E i \in DOMAIN pass.entries : TRUE
      BY <2>4, <3>5
    <3> QED BY <3>6
  <2> QED BY <2>2, <2>6 DEF TodoOfEntries
<1> QED BY <1>1, <1>2, <1>3, <1>4, <1>5, PassSteps

\* The messages of a pass are planned for all its entries: whoever gets none was told
\* before, or belongs to a list that went out and accounts for them.
LEMMA PlannedWhole ==
  ASSUME TellInv, SilentInv, [ChecksNext]_checksVars, PassPlan
  PROVE  EntriesTold'
<1> DEFINE P == Plan(Fresh(pass.entries, Sent(pass.day)))
           sent == Sent(pass.day)
<1>1. /\ UNCHANGED <<item, moved, dropped>> /\ pass.pc = "evaluated" /\ pass' = [pass EXCEPT !.pc = "sending", !.todo = P]
  BY DEF PassPlan, worldVars
<1>2. /\ Different(pass.entries) /\ \A i \in DOMAIN pass.entries : pass.entries[i].recruiter \in Recruiters
      /\ \A i \in DOMAIN pass.entries :
           LET e == pass.entries[i] IN e.c \in Unmoved => e = Own(e.c, pass.day) /\ FirstItem[e.c].cooling > 0
  BY EntriesDiffer
<1>3. \A i \in DOMAIN pass.entries :
        Untold(pass.entries[i], sent) /\ pass.entries[i].recruiter # "none" =>
          \E m \in Range(P) : pass.entries[i].c \in m.about
  BY <1>2, PlannedAre
<1> HIDE DEF P, sent
<1>4. pass'.entries = pass.entries /\ pass'.todo = P /\ pass'.day = pass.day
  BY <1>1 DEF TellInv, FetchKnown
<1>5. Working /\ pass.day \in Days
  BY <1>1 DEF Working, SilentInv, TimeKnown
<1>6. SUFFICES ASSUME NEW i \in DOMAIN pass.entries, pass.entries[i].recruiter # "none",
                      pass.entries[i].c \notin moved
               PROVE  Accounted(pass.entries[i].c, pass.day)'
  BY <1>1, <1>4 DEF EntriesTold
<1> DEFINE e == pass.entries[i]
           c == e.c
<1>7. c \in Unmoved
  BY <1>6 DEF TellInv, EntriesKnown, FetchKnown, Unmoved
<1>8. e = Own(c, pass.day) /\ FirstItem[c].cooling > 0
  BY <1>2, <1>7
<1>9. e.recruiter = FirstItem[c].recruiter
  BY <1>8, EntryIs DEF Own
<1>10. CASE Untold(e, sent)
  <2>1. PICK m \in Range(P) : c \in m.about
    BY <1>3, <1>6, <1>10
  <2>2. \E k \in DOMAIN P : c \in P[k].about
    BY <2>1 DEF Range
  <2>3. Queued(c)'
    BY <1>4, <2>2 DEF Queued
  <2> QED BY <1>4, <2>3 DEF Accounted
<1>11. CASE Key(e) \in sent
  <2>1. PICK n \in told : n.day = pass.day /\ n.key = Key(e)
    BY <1>11, SentIs DEF sent
  <2>2. n.key = Key(Own(c, n.day)) /\ FirstItem[c].recruiter # "none"
    BY <1>6, <1>8, <1>9, <2>1
  <2>3. c \in n.about
    BY <1>7, <1>8, <2>2 DEF TellInv, ToldToday, OwnRowsTell
  <2>4. Accounted(c, pass.day)
    BY <2>1, <2>3 DEF Accounted, ToldOn
  <2> QED BY <1>4, <2>4, AccountedStays DEF Accounted
<1>12. CASE BatchKey(e.recruiter, 1) \in sent
  <2>1. FallsDue(c, pass.day)
    BY <1>5, <1>7 DEF SilentInv, DueEntries
  <2>2. BatchKey(FirstItem[c].recruiter, 1) \in Sent(pass.day)
    BY <1>9, <1>12 DEF sent
  <2>3. Accounted(c, pass.day) \/ Ended(c)
    BY <1>5, <1>7, <2>1, <2>2 DEF SilentInv, ListsComplete
  <2>4. ~Ended(c)
    BY <1>5 DEF Ended, InEntries
  <2> QED BY <1>4, <2>3, <2>4, AccountedStays DEF Accounted
<1> QED BY <1>10, <1>11, <1>12 DEF Untold

LEMMA EntriesToldStay ==
  ASSUME TellInv, SilentInv, [ChecksNext]_checksVars
  PROVE  EntriesTold'
<1>1. CASE Begins \/ Stops
  <2>1. Idle.pc # "sending" /\ [Idle EXCEPT !.pc = "fetched", !.items = Fetched].pc # "sending"
    BY DEF Idle
  <2> QED BY <1>1, <2>1 DEF Begins, Stops, EntriesTold
<1>2. CASE PassEvaluate /\ CanSend(clock)
  <2>1. pass'.pc = "evaluated"
    BY <1>2, EvaluateIs DEF TellInv
  <2> QED BY <2>1 DEF EntriesTold
<1>3. CASE PassPlan
  BY <1>3, PlannedWhole
<1>4. CASE Stays \/ PassSend
  <2>1. pass'.entries = pass.entries /\ pass'.day = pass.day /\ (pass'.pc = "sending" => pass.pc = "sending")
    <3>1. CASE Stays
      BY <3>1 DEF Stays
    <3>2. CASE PassSend
      BY <3>2, SendIs
    <3> QED BY <1>4, <3>1, <3>2
  <2>2. SUFFICES ASSUME pass.pc = "sending", NEW i \in DOMAIN pass.entries,
                        pass.entries[i].recruiter # "none", pass.entries[i].c \notin moved'
                 PROVE  Accounted(pass.entries[i].c, pass.day)'
    BY <2>1 DEF EntriesTold
  <2>3. pass.entries[i].c \notin moved
    BY <2>2, WorldGrows
  <2>4. Accounted(pass.entries[i].c, pass.day)
    BY <2>2, <2>3 DEF SilentInv, EntriesTold
  <2> DEFINE d == pass.day
  <2> HIDE DEF d
  <2>5. ASSUME NEW c, NEW x, Accounted(c, x) PROVE Accounted(c, x)'
    BY <2>5, AccountedStays
  <2>6. \A c, x : Accounted(c, x) => Accounted(c, x)'
    BY <2>5
  <2> QED BY <2>1, <2>4, <2>6 DEF Accounted
<1> QED BY <1>1, <1>2, <1>3, <1>4, PassSteps

\* The first part of a list that goes out belongs to a pass that accounts for everybody.
LEMMA ListsCompleteStay ==
  ASSUME TellInv, SilentInv, [ChecksNext]_checksVars, EntriesTold'
  PROVE  ListsComplete'
<1>1. moved \subseteq moved' /\ Unmoved' \subseteq Unmoved
  BY WorldGrows DEF Unmoved
<1>2. SUFFICES ASSUME NEW c \in Unmoved', NEW d \in Days, FallsDue(c, d),
                      BatchKey(FirstItem[c].recruiter, 1) \in Sent(d)'
               PROVE  Accounted(c, d)' \/ Ended(c)'
  BY DEF ListsComplete, FallsDue, BatchKey
<1> DEFINE key == BatchKey(FirstItem[c].recruiter, 1)
<1>3. c \in Unmoved
  BY <1>1
<1>4. CASE key \in Sent(d)
  <2>1. Accounted(c, d) \/ Ended(c)
    BY <1>2, <1>3, <1>4 DEF SilentInv, ListsComplete
  <2> QED BY <2>1, AccountedStays, EndedStays
<1>5. CASE key \notin Sent(d)
  <2>1. PICK n \in told' : n.day = d /\ n.key = key /\ n \notin told
    <3>1. PICK n \in told' : n.day = d /\ n.key = key
      BY <1>2 DEF Sent
    <3> QED BY <1>5, <3>1, SentHas
  <2>2. ~PassPlan
    <3>1. SUFFICES ASSUME PassPlan PROVE FALSE
      OBVIOUS
    <3>2. n \in BareRows
      BY <2>1, <3>1 DEF PassPlan, BareRows
    <3> QED BY <2>1, <3>2, BareRowIs
  <2>3. PassSend
    <3>1. ~Begins /\ ~Stops /\ ~Stays /\ ~PassEvaluate
      BY <2>1 DEF Begins, Stops, Stays, PassEvaluate
    <3> QED BY <2>2, <3>1, PassSteps
  <2>4. /\ n = Row /\ pass.pc = "sending" /\ UNCHANGED <<moved, dropped>>
        /\ pass'.entries = pass.entries /\ pass'.day = pass.day /\ pass'.pc = "sending"
        /\ Now \in Range(pass.todo)
    BY <2>1, <2>3, SendIs
  <2>5. pass.day = d /\ Now.key = key
    BY <2>1, <2>4 DEF Row
  <2>6. PICK r \in Recruiters, p \in Nat : PartOf(Now, r, p, pass.entries)
    <3>1. \A e : Key(e) # key \/ e.kind \notin Kinds
      BY DEF Key, BatchKey, Kinds
    <3>2. \A i \in DOMAIN pass.entries : pass.entries[i].kind \in Kinds
      <4>1. ASSUME NEW i \in DOMAIN pass.entries PROVE pass.entries[i].kind \in Kinds
        <5>1. \E x, y : pass.entries[i] = Entry(x, y, pass.day)
          BY DEF TellInv, EntriesKnown
        <5> QED BY <5>1, EntryIs
      <4> QED BY <4>1
    <3>3. ASSUME NEW i \in DOMAIN pass.entries, Single(Now, pass.entries[i]) PROVE FALSE
      <4>1. Now.key = Key(pass.entries[i])
        BY <3>3 DEF Single, Message
      <4> QED BY <2>5, <3>1, <3>2, <4>1
    <3> QED BY <2>4, <3>3 DEF TellInv, TodoKnown
  <2>7. r = FirstItem[c].recruiter /\ r # "none"
    <3>1. BatchKey(r, p) = key /\ r # "none"
      BY <2>5, <2>6 DEF PartOf, Message
    <3>2. BatchKey(r, p)[4] = r /\ key[4] = FirstItem[c].recruiter
      BY DEF BatchKey
    <3> QED BY <3>1, <3>2
  <2>8. Working /\ pass.entries # <<>>
    <3>1. pass.todo # <<>>
      BY <2>3 DEF PassSend
    <3> QED BY <2>4, <3>1 DEF Working, SilentInv, TodoOfEntries
  <2>9. InEntries(c) \/ Ended(c) \/ Late(c, d)
    BY <1>2, <1>3, <2>5, <2>8 DEF SilentInv, EntriesComplete
  <2>10. CASE InEntries(c)
    <3>1. PICK i \in DOMAIN pass.entries : pass.entries[i].c = c
      BY <2>10 DEF InEntries
    <3>2. pass.entries[i] = Own(c, pass.day)
      BY <1>3, <3>1, EntriesDiffer
    <3>3. pass.entries[i].recruiter # "none"
      BY <2>7, <3>2, EntryIs DEF Own
    <3>4. c \notin moved'
      BY <1>2 DEF Unmoved
    <3>5. i \in DOMAIN pass'.entries /\ pass'.entries[i] = pass.entries[i]
      BY <2>4
    <3>6. Accounted(c, pass.day)'
      BY <2>4, <3>1, <3>3, <3>4, <3>5 DEF EntriesTold
    <3> QED BY <2>4, <2>5, <3>6 DEF Accounted
  <2>11. CASE Ended(c)
    BY <2>11, EndedStays
  <2>12. CASE Late(c, d)
    BY <2>12 DEF Accounted, Late
  <2> QED BY <2>9, <2>10, <2>11, <2>12
<1> QED BY <1>4, <1>5

LEMMA SilentInit == ChecksInit => RowsThere /\ SilentInv
<1> SUFFICES ASSUME ChecksInit PROVE RowsThere /\ SilentInv
  OBVIOUS
<1>1. /\ clock = [day |-> Min(Days), hour |-> Min(Hours)] /\ events = {} /\ told = {}
      /\ check = [c \in Range(Clawbacks) |-> [d \in Days |-> "none"]]
      /\ pass = Idle /\ handler = NoHandler /\ answer = NoAnswer
  BY DEF ChecksInit
<1>2. pass.pc = "idle" /\ pass.todo = <<>>
  BY <1>1 DEF Idle
<1>3. RowsThere
  BY <1>1 DEF RowsThere, NoAnswer
<1>4. CancelsTrue
  BY <1>1 DEF CancelsTrue, Cancelled
<1>5. TimeKnown
  BY <1>1, <1>2, ChoiceOfHours DEF TimeKnown, Working
<1>6. DueEntries /\ EntriesComplete /\ EntriesTold /\ TodoOfEntries
  BY <1>2 DEF DueEntries, EntriesComplete, EntriesTold, TodoOfEntries, Working
<1>7. ListsComplete
  BY <1>1 DEF ListsComplete, Sent
<1> QED BY <1>3, <1>4, <1>5, <1>6, <1>7 DEF SilentInv

LEMMA SilentNext ==
  TellInv /\ RowsThere /\ SilentInv /\ [ChecksNext]_checksVars => TellInv' /\ RowsThere' /\ SilentInv'
<1> SUFFICES ASSUME TellInv, RowsThere, SilentInv, [ChecksNext]_checksVars
             PROVE  TellInv' /\ RowsThere' /\ SilentInv'
  OBVIOUS
<1>1. TellInv' /\ RowsThere'
  BY TellNext, RowsStay
<1>2. CancelsTrue' /\ TimeKnown'
  BY CancelsStayTrue, TimeStays DEF SilentInv, TellInv
<1>3. DueEntries' /\ EntriesComplete'
  BY DueEntriesStay
<1>4. EntriesTold' /\ TodoOfEntries'
  BY EntriesToldStay, TodoNeedsEntries DEF SilentInv
<1>5. ListsComplete'
  BY <1>4, ListsCompleteStay
<1> QED BY <1>1, <1>2, <1>3, <1>4, <1>5 DEF SilentInv

\* When a pass has sent its last message, every due clawback of a recruiter has been told
\* about today, except after a move, a pass that died, or under a rule with a later
\* send time than another's (clawback_engine.py, evaluate_org_reminders).
THEOREM NobodyDueIsLeftOut == ChecksSpec => []SilentOnlyIfLate
<1>1. ASSUME TellInv, SilentInv PROVE SilentOnlyIfLate
  <2>1. SUFFICES ASSUME pass.pc = "sending", pass.todo = <<>>, NEW i \in DOMAIN pass.entries
                 PROVE  LET e == pass.entries[i] IN
                        \/ e.recruiter = "none"
                        \/ \E m \in told : m.day = pass.day /\ e.c \in m.about
                        \/ pass.day \in crashed \/ e.c \in moved
                        \/ \E r, q \in Rules : r.id = e.rule /\ q.send < r.send
    BY DEF SilentOnlyIfLate, Range
  <2> DEFINE e == pass.entries[i]
             c == e.c
  <2>2. e.recruiter = "none" \/ c \in moved \/ Accounted(c, pass.day)
    BY <1>1, <2>1 DEF SilentInv, EntriesTold
  <2>3. ~Queued(c)
    BY <2>1 DEF Queued
  <2>4. CASE Late(c, pass.day) /\ c \notin moved
    <3>1. c \in Unmoved
      BY <1>1, <2>4 DEF TellInv, EntriesKnown, FetchKnown, Unmoved
    <3>2. Working /\ pass.day \in Days
      BY <1>1, <2>1 DEF Working, SilentInv, TimeKnown
    <3>3. FallsDue(c, pass.day)
      BY <1>1, <3>1, <3>2 DEF SilentInv, DueEntries
    <3> DEFINE r == DueRule[FirstItem[c]][pass.day]
    <3>4. FirstItem[c] \in Items
      BY <3>1 DEF Items, Unmoved
    <3>5. r \in Rules
      BY <3>2, <3>3, <3>4, DueIsARule DEF FallsDue
    <3>6. e.rule = r.id
      <4>1. e = Own(c, pass.day)
        BY <1>1, <3>1, EntriesDiffer
      <4> QED BY <4>1 DEF Own, Entry
    <3>7. PICK q \in Rules : q.send < r.send
      BY <2>4 DEF Late
    <3> HIDE DEF r
    <3> QED BY <3>5, <3>6, <3>7
  <2> QED BY <2>2, <2>3, <2>4 DEF Accounted, ToldOn
<1>2. ChecksSpec => [](TellInv /\ RowsThere /\ SilentInv)
  BY TellInit, SilentInit, SilentNext, PTL DEF ChecksSpec
<1>3. TellInv /\ RowsThere /\ SilentInv => SilentOnlyIfLate
  BY <1>1
<1> QED BY <1>2, <1>3, PTL

=============================================================================
