--------------------------- MODULE AssistantProofs ---------------------------
(* What holds of the assistant for every set of jobs, turns and items: its  *)
(* replies carry the cards of all calls in order, its scope implements the  *)
(* bounded view of the assignments and no tool shows more than it, the      *)
(* token counters are exact, its schedules fire once and only when they are *)
(* approved.                                                                *)
EXTENDS AiTools, AiAgent, AiQuota, AiSchedules, FiniteSetTheorems, SequenceTheorems, FoldLemmas, TLAPS

(* The cards of a turn (AiAgent) *)

Cards == UNION {Range(CardsOf[t]) : t \in Tools}
Distinct(refs) == \A a, b \in DOMAIN refs : a # b => refs[a].key # refs[b].key
Continues(refs, old) == Len(old) <= Len(refs) /\ \A i \in DOMAIN old : refs[i] = old[i]

LEMMA AddCard ==
  ASSUME NEW refs \in Seq(Cards), NEW card \in Cards
  PROVE  /\ add_output_ref(refs, card) \in Seq(Cards)
         /\ Keys(add_output_ref(refs, card)) = Keys(refs) \cup {card.key}
         /\ Continues(add_output_ref(refs, card), refs)
         /\ Distinct(refs) => Distinct(add_output_ref(refs, card))
<1>1. CASE card.key \in Keys(refs)
  BY <1>1 DEF add_output_ref, Continues
<1>2. CASE card.key \notin Keys(refs)
  <2> DEFINE r == Append(refs, card)
  <2>1. /\ r \in Seq(Cards) /\ Len(r) = Len(refs) + 1 /\ r[Len(refs) + 1] = card
        /\ \A i \in 1..Len(refs) : r[i] = refs[i]
    BY AppendProperties
  <2>2. Len(refs) \in Nat /\ DOMAIN refs = 1..Len(refs) /\ DOMAIN r = 1..(Len(refs) + 1)
    BY <2>1, LenProperties
  <2>3. add_output_ref(refs, card) = r
    BY <1>2 DEF add_output_ref
  <2> HIDE DEF r
  <2>4. Keys(r) = Keys(refs) \cup {card.key}
    BY <2>1, <2>2 DEF Keys
  <2>5. ASSUME Distinct(refs) PROVE Distinct(r)
    <3>1. ASSUME NEW a \in DOMAIN r, NEW b \in DOMAIN r, a < b PROVE r[a].key # r[b].key
      <4>1. a \in DOMAIN refs /\ r[a] = refs[a]
        BY <2>1, <2>2, <3>1
      <4>2. CASE b = Len(refs) + 1
        BY <1>2, <2>1, <4>1, <4>2 DEF Keys
      <4>3. CASE b \in DOMAIN refs
        BY <2>1, <2>2, <2>5, <3>1, <4>1, <4>3 DEF Distinct
      <4> QED BY <2>2, <4>2, <4>3
    <3>2. \A a, b \in DOMAIN r : a # b => a < b \/ b < a
      BY <2>2
    <3> QED BY <3>1, <3>2 DEF Distinct
  <2> QED BY <2>1, <2>2, <2>3, <2>4, <2>5 DEF Continues
<1> QED BY <1>1, <1>2

LEMMA MergeCards ==
  ASSUME NEW refs \in Seq(Cards), NEW cards \in Seq(Cards)
  PROVE  /\ _merge_sub_ctx(refs, cards) \in Seq(Cards)
         /\ Keys(_merge_sub_ctx(refs, cards)) = Keys(refs) \cup Keys(cards)
         /\ Continues(_merge_sub_ctx(refs, cards), refs)
         /\ Distinct(refs) => Distinct(_merge_sub_ctx(refs, cards))
<1> DEFINE
  n == Len(cards)
  F == [x \in Seq(Cards) \X (1..n) |-> add_output_ref(x[1], cards[x[2]])]
  Folded(g) == g = [s \in SUBSET (1..n) |-> IF s = {} THEN refs
                                            ELSE add_output_ref(g[s \ {Greatest(s)}], cards[Greatest(s)])]
  h == CHOOSE g : Folded(g)
<1>1. n \in Nat /\ DOMAIN cards = 1..n /\ \A i \in 1..n : cards[i] \in Cards
  BY LenProperties
<1> HIDE DEF n
<1>2. \A s \in (SUBSET (1..n)) \ {{}} : Greatest(s) \in s
  BY <1>1, GreatestIs
<1>3. PICK g \in [SUBSET (1..n) -> Seq(Cards)] :
        /\ g[{}] = refs
        /\ \A s \in (SUBSET (1..n)) \ {{}} : g[s] = F[<<g[s \ {Greatest(s)}], Greatest(s)>>]
  <2>1. ASSUME NEW x \in Seq(Cards) \X (1..n) PROVE add_output_ref(x[1], cards[x[2]]) \in Seq(Cards)
    <3>1. x[1] \in Seq(Cards) /\ cards[x[2]] \in Cards
      BY <1>1
    <3> QED BY <3>1, AddCard
  <2>2. Step(F, Seq(Cards), 1..n)
    BY <2>1 DEF Step
  <2> HIDE DEF F
  <2>3. PICK g : FoldsLeft(g, n, Seq(Cards), refs, F)
    BY <1>1, <2>2, LeftFold
  <2> QED BY <2>3 DEF FoldsLeft
<1>4. Folded(g)
  <2>1. ASSUME NEW s \in SUBSET (1..n), s # {}
        PROVE  g[s] = add_output_ref(g[s \ {Greatest(s)}], cards[Greatest(s)])
    <3>1. Greatest(s) \in 1..n /\ s \ {Greatest(s)} \in SUBSET (1..n)
      BY <1>2, <2>1
    <3>2. <<g[s \ {Greatest(s)}], Greatest(s)>> \in Seq(Cards) \X (1..n)
      BY <3>1
    <3>3. g[s] = F[<<g[s \ {Greatest(s)}], Greatest(s)>>]
      BY <1>3, <2>1
    <3> QED BY <3>2, <3>3
  <2>2. g[{}] = refs
    BY <1>3
  <2> HIDE DEF F
  <2> QED BY <2>1, <2>2
<1> HIDE DEF F
<1>5. Folded(h)
  <2> HIDE DEF Folded
  <2> QED BY <1>4
<1>6. _merge_sub_ctx(refs, cards) = h[1..n]
  BY <1>1 DEF _merge_sub_ctx, FoldLeft, MapThenFoldSet, Max, Greatest
<1> HIDE DEF h
<1>7. /\ h[{}] = refs
      /\ \A k \in 1..n : h[1..k] = add_output_ref(h[1..(k - 1)], cards[k])
  <2>1. h[{}] = refs
    <3>1. {} \in SUBSET (1..n)
      OBVIOUS
    <3> QED BY <1>5, <3>1
  <2>2. ASSUME NEW k \in 1..n PROVE h[1..k] = add_output_ref(h[1..(k - 1)], cards[k])
    <3>1. 1..k \in SUBSET (1..n) /\ 1..k # {}
      <4>1. k \in Nat /\ 1 <= k /\ k <= n /\ k \in 1..k
        BY <1>1
      <4>2. \A i \in 1..k : i \in 1..n
        BY <1>1, <4>1
      <4> QED BY <4>1, <4>2
    <3>2. Greatest(1..k) = k /\ (1..k) \ {Greatest(1..k)} = 1..(k - 1)
      BY <1>1, GreatestIs
    <3>3. h[1..k] = add_output_ref(h[(1..k) \ {Greatest(1..k)}], cards[Greatest(1..k)])
      BY <1>5, <3>1
    <3> QED BY <3>2, <3>3
  <2> QED BY <2>1, <2>2
<1> DEFINE
  Good(k) == LET r == h[1..k] IN
             /\ r \in Seq(Cards) /\ Keys(r) = Keys(refs) \cup {cards[i].key : i \in 1..k}
             /\ Continues(r, refs) /\ (Distinct(refs) => Distinct(r))
  T == {k \in Nat : k <= n => Good(k)}
<1>8. 0 \in T
  <2>1. 1..0 = {}
    OBVIOUS
  <2> QED BY <1>7, <2>1 DEF Continues
<1>9. ASSUME NEW k \in Nat, k \in T PROVE k + 1 \in T
  <2>1. SUFFICES ASSUME k + 1 <= n PROVE Good(k + 1)
    OBVIOUS
  <2> DEFINE r == h[1..k]
             q == h[1..(k + 1)]
  <2>2. Good(k)
    BY <1>1, <1>9, <2>1
  <2>3. q = add_output_ref(r, cards[k + 1]) /\ cards[k + 1] \in Cards
    <3>1. k + 1 \in 1..n /\ (k + 1) - 1 = k
      BY <1>1, <2>1
    <3> QED BY <1>1, <1>7, <3>1
  <2> HIDE DEF r, q
  <2>4. r \in Seq(Cards) /\ Keys(r) = Keys(refs) \cup {cards[i].key : i \in 1..k}
        /\ Continues(r, refs) /\ (Distinct(refs) => Distinct(r))
    BY <2>2 DEF r
  <2>5. /\ q \in Seq(Cards) /\ Keys(q) = Keys(r) \cup {cards[k + 1].key}
        /\ Continues(q, r) /\ (Distinct(r) => Distinct(q))
    BY <2>3, <2>4, AddCard
  <2>6. {cards[i].key : i \in 1..(k + 1)} = {cards[i].key : i \in 1..k} \cup {cards[k + 1].key}
    <3>1. 1..(k + 1) = (1..k) \cup {k + 1}
      OBVIOUS
    <3> QED BY <3>1
  <2>7. Continues(q, refs)
    <3>1. Len(r) \in Nat /\ DOMAIN r = 1..Len(r) /\ Len(q) \in Nat /\ Len(refs) \in Nat /\ DOMAIN refs = 1..Len(refs)
      BY <2>4, <2>5, LenProperties
    <3> QED BY <2>4, <2>5, <3>1 DEF Continues
  <2>8. Keys(q) = Keys(refs) \cup {cards[i].key : i \in 1..(k + 1)}
    BY <2>4, <2>5, <2>6
  <2> QED BY <2>4, <2>5, <2>7, <2>8 DEF q
<1> HIDE DEF T, Good
<1>10. n \in T
  BY <1>1, <1>8, <1>9, SetInduction
<1>11. Good(n)
  BY <1>1, <1>10 DEF T
<1>12. Keys(cards) = {cards[i].key : i \in 1..n}
  BY <1>1 DEF Keys
<1> QED BY <1>6, <1>11, <1>12 DEF Good

\* refs are the cards of the first n calls of the conversation, each key once,
\* in the order of the calls that show them.
CardsTo(refs, n) ==
  /\ refs \in Seq(Cards) /\ Distinct(refs)
  /\ \A k \in 1..n : \A key : Shows(k, key) => key \in Keys(refs)
  /\ \A key \in Keys(refs) : \E k \in 1..n : Shows(k, key)
  /\ \A b \in DOMAIN refs : \A a \in 1..(b - 1), l \in 1..n :
       Shows(l, refs[b].key) => \E k \in 1..l : Shows(k, refs[a].key)
ShownBy(k, cards) == cards \in Seq(Cards) /\ \A key : key \in Keys(cards) <=> Shows(k, key)

LEMMA MergeOne ==
  ASSUME NEW n \in Nat, NEW refs, CardsTo(refs, n), NEW cards, ShownBy(n + 1, cards)
  PROVE  CardsTo(_merge_sub_ctx(refs, cards), n + 1) /\ Continues(_merge_sub_ctx(refs, cards), refs)
<1> DEFINE r == _merge_sub_ctx(refs, cards)
<1>1. /\ r \in Seq(Cards) /\ Keys(r) = Keys(refs) \cup Keys(cards)
      /\ Continues(r, refs) /\ Distinct(r)
  BY MergeCards DEF CardsTo, ShownBy
<1> HIDE DEF r
<1>2. /\ Len(r) \in Nat /\ DOMAIN r = 1..Len(r) /\ Len(refs) \in Nat /\ DOMAIN refs = 1..Len(refs)
  BY <1>1, LenProperties DEF CardsTo
<1>3. ASSUME NEW k \in 1..(n + 1), NEW key, Shows(k, key) PROVE key \in Keys(r)
  <2>1. CASE k = n + 1
    BY <1>1, <1>3, <2>1 DEF ShownBy
  <2>2. CASE k \in 1..n
    BY <1>1, <1>3, <2>2 DEF CardsTo
  <2> QED BY <2>1, <2>2
<1>4. ASSUME NEW key \in Keys(r) PROVE \E k \in 1..(n + 1) : Shows(k, key)
  <2>1. CASE key \in Keys(cards)
    BY <2>1 DEF ShownBy
  <2>2. CASE key \in Keys(refs)
    <3>1. PICK k \in 1..n : Shows(k, key)
      BY <2>2 DEF CardsTo
    <3>2. k \in 1..(n + 1)
      OBVIOUS
    <3> QED BY <3>1, <3>2
  <2> QED BY <1>1, <2>1, <2>2
<1>5. ASSUME NEW b \in DOMAIN r, NEW a \in 1..(b - 1), NEW l \in 1..(n + 1), Shows(l, r[b].key)
      PROVE  \E k \in 1..l : Shows(k, r[a].key)
  <2>1. a \in DOMAIN r /\ r[a].key \in Keys(r)
    BY <1>2 DEF Keys
  <2>2. PICK k \in 1..(n + 1) : Shows(k, r[a].key)
    BY <1>4, <2>1
  <2>3. CASE l = n + 1
    BY <2>2, <2>3
  <2>4. CASE l \in 1..n
    <3>1. r[b].key \in Keys(refs)
      BY <1>5, <2>4 DEF CardsTo
    <3>2. PICK c \in DOMAIN refs : refs[c].key = r[b].key
      BY <3>1 DEF Keys
    <3>3. c \in DOMAIN r /\ r[c].key = r[b].key
      BY <1>1, <1>2, <3>2 DEF Continues
    <3>4. c = b
      BY <1>1, <3>3 DEF Distinct
    <3>5. a \in DOMAIN refs /\ refs[a] = r[a] /\ refs[b] = r[b] /\ b \in DOMAIN refs
      BY <1>1, <1>2, <3>2, <3>4 DEF Continues
    <3> QED BY <1>5, <2>4, <3>5 DEF CardsTo
  <2> QED BY <2>3, <2>4
<1>6. CardsTo(r, n + 1)
  BY <1>1, <1>3, <1>4, <1>5 DEF CardsTo
<1> QED BY <1>1, <1>6 DEF r

\* The batch that is dispatched follows the first m calls of the conversation.
LEMMA MergeBatch ==
  ASSUME NEW m \in Nat, CardsTo(output_refs, m), NEW n \in Nat, DOMAIN calls = 1..n,
         \A i \in 1..n : ShownBy(m + i, results[i])
  PROVE  CardsTo(MergedRefs, m + n) /\ Continues(MergedRefs, output_refs)
<1> DEFINE
  F == [x \in Seq(Cards) \X (1..n) |-> _merge_sub_ctx(x[1], results[x[2]])]
  Folded(g) == g = [s \in SUBSET (1..n) |-> IF s = {} THEN output_refs
                                            ELSE _merge_sub_ctx(g[s \ {Greatest(s)}], results[MergeOrder[Greatest(s)]])]
  h == CHOOSE g : Folded(g)
<1>1. output_refs \in Seq(Cards) /\ \A i \in 1..n : results[i] \in Seq(Cards)
  BY DEF CardsTo, ShownBy
<1>2. \A s \in (SUBSET (1..n)) \ {{}} : Greatest(s) \in s
  BY GreatestIs
<1>3. DOMAIN MergeOrder = 1..n /\ \A i \in 1..n : MergeOrder[i] = i
  BY DEF MergeOrder
<1>4. PICK g : FoldsLeft(g, n, Seq(Cards), output_refs, F)
  <2>1. ASSUME NEW x \in Seq(Cards) \X (1..n) PROVE _merge_sub_ctx(x[1], results[x[2]]) \in Seq(Cards)
    <3>1. x[1] \in Seq(Cards) /\ results[x[2]] \in Seq(Cards)
      BY <1>1
    <3> QED BY <3>1, MergeCards
  <2>2. Step(F, Seq(Cards), 1..n)
    BY <2>1 DEF Step
  <2> HIDE DEF F
  <2> QED BY <1>1, <2>2, LeftFold
<1>5. Folded(g)
  <2>1. ASSUME NEW s \in SUBSET (1..n), s # {}
        PROVE  g[s] = _merge_sub_ctx(g[s \ {Greatest(s)}], results[MergeOrder[Greatest(s)]])
    <3>1. Greatest(s) \in 1..n /\ s \ {Greatest(s)} \in SUBSET (1..n)
      BY <1>2, <2>1
    <3>2. <<g[s \ {Greatest(s)}], Greatest(s)>> \in Seq(Cards) \X (1..n)
      BY <1>4, <3>1 DEF FoldsLeft
    <3>3. g[s] = F[<<g[s \ {Greatest(s)}], Greatest(s)>>]
      BY <1>4, <2>1 DEF FoldsLeft
    <3>4. MergeOrder[Greatest(s)] = Greatest(s)
      BY <1>3, <3>1
    <3> QED BY <3>2, <3>3, <3>4
  <2>2. g[{}] = output_refs /\ g \in [SUBSET (1..n) -> Seq(Cards)]
    BY <1>4 DEF FoldsLeft
  <2> HIDE DEF F
  <2> QED BY <2>1, <2>2
<1> HIDE DEF F
<1>6. Folded(h)
  <2> HIDE DEF Folded
  <2> QED BY <1>5
<1>7. MergedRefs = h[1..n]
  BY <1>3 DEF MergedRefs, FoldLeft, MapThenFoldSet, Max, Greatest
<1> HIDE DEF h
<1>8. h[{}] = output_refs
  <2>1. {} \in SUBSET (1..n)
    OBVIOUS
  <2> QED BY <1>6, <2>1
<1>9. ASSUME NEW k \in 1..n PROVE h[1..k] = _merge_sub_ctx(h[1..(k - 1)], results[k])
  <2>1. k \in Nat /\ 1 <= k /\ k <= n /\ k \in 1..k
    OBVIOUS
  <2>2. \A i \in 1..k : i \in 1..n
    BY <2>1
  <2>3. 1..k \in SUBSET (1..n) /\ 1..k # {}
    BY <2>1, <2>2
  <2>4. Greatest(1..k) = k /\ (1..k) \ {Greatest(1..k)} = 1..(k - 1)
    BY GreatestIs
  <2>5. h[1..k] = _merge_sub_ctx(h[(1..k) \ {Greatest(1..k)}], results[MergeOrder[Greatest(1..k)]])
    BY <1>6, <2>3
  <2> QED BY <1>3, <2>4, <2>5
<1> DEFINE
  Good(k) == CardsTo(h[1..k], m + k) /\ Continues(h[1..k], output_refs)
  T == {k \in Nat : k <= n => Good(k)}
<1>10. 0 \in T
  <2>1. 1..0 = {} /\ m + 0 = m
    OBVIOUS
  <2> QED BY <1>8, <2>1 DEF Continues
<1>11. ASSUME NEW k \in Nat, k \in T PROVE k + 1 \in T
  <2>1. SUFFICES ASSUME k + 1 <= n PROVE Good(k + 1)
    OBVIOUS
  <2> DEFINE r == h[1..k]
             q == h[1..(k + 1)]
  <2>2. CardsTo(r, m + k) /\ Continues(r, output_refs)
    BY <1>11, <2>1
  <2>3. q = _merge_sub_ctx(r, results[k + 1])
    <3>1. k + 1 \in 1..n /\ (k + 1) - 1 = k
      BY <2>1
    <3> QED BY <1>9, <3>1
  <2> HIDE DEF r, q
  <2>4. m + k \in Nat /\ (m + k) + 1 = m + (k + 1) /\ k + 1 \in 1..n
    BY <2>1
  <2>5. ShownBy((m + k) + 1, results[k + 1])
    BY <2>4
  <2>6. CardsTo(q, m + (k + 1)) /\ Continues(q, r)
    BY <2>2, <2>3, <2>4, <2>5, MergeOne
  <2>7. Continues(q, output_refs)
    <3>1. Len(r) \in Nat /\ DOMAIN r = 1..Len(r) /\ Len(q) \in Nat
          /\ Len(output_refs) \in Nat /\ DOMAIN output_refs = 1..Len(output_refs)
      BY <1>1, <2>2, <2>6, LenProperties DEF CardsTo
    <3> QED BY <2>2, <2>6, <3>1 DEF Continues
  <2> QED BY <2>6, <2>7 DEF q
<1> HIDE DEF T, Good
<1>12. n \in T
  BY <1>10, <1>11, SetInduction
<1>13. Good(n)
  BY <1>12 DEF T
<1> QED BY <1>7, <1>13 DEF Good

\* What is streamed comes from the cards known so far, in their order.
InOrder(seq, refs) ==
  \A a, b \in DOMAIN seq : \E i, j \in DOMAIN refs :
    seq[a] = refs[i] /\ seq[b] = refs[j] /\ (a < b => i < j)
AllCalls == UNION {Range(b) : b \in Batches}
Taken == Len(messages) - Len(calls)
BatchInFlight ==
  /\ calls \in Seq(AllCalls) /\ messages \in Seq(AllCalls) /\ Len(calls) <= Len(messages)
  /\ \A i \in DOMAIN calls : messages[Taken + i] = calls[i]
  /\ turn \in {"asked", "prompted", "model", "replied"} => calls = <<>>
  /\ DOMAIN results = DOMAIN calls
  /\ \A i \in Range(finished) \cap DOMAIN calls :
       results[i] = IF calls[i] \in Tools THEN CardsOf[calls[i]] ELSE <<>>
AgentInv ==
  /\ BatchInFlight
  /\ CardsTo(output_refs, Taken)
  /\ refs_pushed = Len(output_refs) /\ streamed \in Seq(Cards) /\ InOrder(streamed, output_refs)
  /\ finished \in Seq(Nat)
  /\ turn \in {"asked", "prompted", "model", "tools"} => reply = NoReply
  /\ turn = "replied" => reply = NoReply \/ reply.refs = output_refs

LEMMA AgentInitInv == AgentInit => AgentInv
<1> SUFFICES ASSUME AgentInit PROVE AgentInv
  OBVIOUS
<1>1. \A S : <<>> \in Seq(S) /\ Len(<<>>) = 0 /\ DOMAIN <<>> = {}
  BY EmptySeq
<1>2. BatchInFlight
  BY <1>1 DEF AgentInit, BatchInFlight, Taken
<1>3. CardsTo(output_refs, Taken)
  <2>1. Taken = 0 /\ output_refs = <<>>
    BY <1>1 DEF AgentInit, Taken
  <2> QED BY <1>1, <2>1 DEF CardsTo, Distinct, Keys
<1> QED BY <1>1, <1>2, <1>3 DEF AgentInit, AgentInv, InOrder

\* Steps that leave the batch alone.
LEMMA BatchAlone ==
  ASSUME AgentInv, UNCHANGED batchVars,
         turn' = turn \/ turn' = "over" \/ (turn # "tools" /\ turn' # "tools"),
         turn' \in {"asked", "prompted", "model", "tools"} => reply' = NoReply,
         turn' = "replied" => reply' = NoReply \/ reply'.refs = output_refs,
         turn \in {"asked", "prompted", "model", "tools", "replied"} \/ turn' = turn
  PROVE  AgentInv'
<1>1. BatchInFlight'
  BY DEF AgentInv, BatchInFlight, batchVars, Taken
<1>2. CardsTo(output_refs, Taken)'
  BY DEF AgentInv, batchVars, Taken, CardsTo, Shows
<1>3. refs_pushed' = Len(output_refs') /\ streamed' \in Seq(Cards) /\ finished' \in Seq(Nat)
  BY DEF AgentInv, batchVars
<1>4. InOrder(streamed, output_refs)'
  BY DEF AgentInv, batchVars, InOrder
<1>5. turn' = "replied" => reply' = NoReply \/ reply'.refs = output_refs'
  BY DEF batchVars
<1> QED BY <1>1, <1>2, <1>3, <1>4, <1>5 DEF AgentInv

LEMMA CallsInv == ASSUME AgentInv, NEW b \in Batches, ModelCalls(b) PROVE AgentInv'
<1>1. /\ turn = "model" /\ turn' = "tools" /\ calls' = b /\ messages' = messages \o b
      /\ results' = [i \in DOMAIN b |-> <<>>] /\ finished' = <<>> /\ reply' = reply
      /\ output_refs' = output_refs /\ refs_pushed' = refs_pushed /\ streamed' = streamed
  BY DEF ModelCalls
<1>2. calls = <<>> /\ messages \in Seq(AllCalls) /\ reply = NoReply /\ Taken = Len(messages)
  <2>1. Len(<<>>) = 0
    BY EmptySeq
  <2>2. messages \in Seq(AllCalls) /\ Len(messages) \in Nat
    BY LenProperties DEF AgentInv, BatchInFlight
  <2> QED BY <1>1, <2>1, <2>2 DEF AgentInv, BatchInFlight, Taken
<1>3. b \in Seq(AllCalls)
  <2>1. b \in Seq(Range(b)) /\ Range(b) \subseteq AllCalls
    BY AgentAssumption DEF AllCalls
  <2> HIDE DEF AllCalls
  <2> QED BY <2>1, SeqMonotonic
<1>4. /\ Len(messages) \in Nat /\ Len(b) \in Nat /\ DOMAIN b = 1..Len(b) /\ messages' \in Seq(AllCalls)
      /\ Len(messages') = Len(messages) + Len(b)
      /\ \A i \in 1..Len(messages) : messages'[i] = messages[i]
      /\ \A i \in 1..Len(b) : messages'[Len(messages) + i] = b[i]
  <2>1. messages \o b \in Seq(AllCalls) /\ Len(messages \o b) = Len(messages) + Len(b)
        /\ \A i \in 1..(Len(messages) + Len(b)) :
             (messages \o b)[i] = IF i <= Len(messages) THEN messages[i] ELSE b[i - Len(messages)]
    BY <1>2, <1>3, ConcatProperties
  <2>2. Len(messages) \in Nat /\ Len(b) \in Nat /\ DOMAIN b = 1..Len(b)
    BY <1>2, <1>3, LenProperties
  <2> QED BY <1>1, <2>1, <2>2
<1>5. Taken' = Len(messages)
  BY <1>1, <1>4 DEF Taken
<1>6. BatchInFlight'
  <2>1. Range(<<>>) = {}
    BY DEF Range
  <2> QED BY <1>1, <1>3, <1>4, <1>5, <2>1 DEF BatchInFlight
<1>7. CardsTo(output_refs, Taken)'
  <2>1. \A k \in 1..Len(messages) : \A key : Shows(k, key)' <=> Shows(k, key)
    BY <1>4 DEF Shows
  <2>2. CardsTo(output_refs, Len(messages))
    BY <1>2 DEF AgentInv
  <2>3. \A b1 \in DOMAIN output_refs : \A a \in 1..(b1 - 1), l \in 1..Len(messages) :
          Shows(l, output_refs[b1].key)' => \E k \in 1..l : Shows(k, output_refs[a].key)'
    <3>1. SUFFICES ASSUME NEW b1 \in DOMAIN output_refs, NEW a \in 1..(b1 - 1), NEW l \in 1..Len(messages),
                          Shows(l, output_refs[b1].key)'
                   PROVE  \E k \in 1..l : Shows(k, output_refs[a].key)'
      OBVIOUS
    <3>2. Shows(l, output_refs[b1].key)
      BY <1>1, <2>1, <3>1
    <3>3. PICK k \in 1..l : Shows(k, output_refs[a].key)
      BY <2>2, <3>2 DEF CardsTo
    <3>4. k \in 1..Len(messages)
      BY <1>4
    <3> QED BY <1>1, <2>1, <3>3, <3>4
  <2> QED BY <1>1, <1>5, <2>1, <2>2, <2>3 DEF CardsTo
<1>8. refs_pushed' = Len(output_refs') /\ streamed' \in Seq(Cards) /\ finished' \in Seq(Nat)
  BY <1>1, EmptySeq DEF AgentInv
<1>9. InOrder(streamed, output_refs)'
  BY <1>1 DEF AgentInv, InOrder
<1> QED BY <1>1, <1>2, <1>6, <1>7, <1>8, <1>9 DEF AgentInv

LEMMA ExecuteInv == ASSUME AgentInv, NEW i \in DOMAIN calls, _execute_tool_call(i) PROVE AgentInv'
<1>1. /\ turn = "tools" /\ turn' = "tools" /\ finished' = Append(finished, i)
      /\ results' = [results EXCEPT ![i] = IF calls[i] \in Tools THEN CardsOf[calls[i]] ELSE <<>>]
      /\ UNCHANGED <<calls, messages, output_refs, refs_pushed, streamed, reply>>
  BY DEF _execute_tool_call
<1>2. i \in Nat /\ finished \in Seq(Nat)
  <2>1. DOMAIN calls = 1..Len(calls) /\ Len(calls) \in Nat
    BY LenProperties DEF AgentInv, BatchInFlight
  <2> QED BY <2>1 DEF AgentInv
<1>3. finished' \in Seq(Nat) /\ Range(finished') = Range(finished) \cup {i}
  <2>1. Append(finished, i) \in Seq(Nat) /\ Len(Append(finished, i)) = Len(finished) + 1
        /\ \A j \in 1..Len(finished) : Append(finished, i)[j] = finished[j]
        /\ Append(finished, i)[Len(finished) + 1] = i
    BY <1>2, AppendProperties
  <2>2. Len(finished) \in Nat /\ DOMAIN finished = 1..Len(finished)
        /\ DOMAIN Append(finished, i) = 1..(Len(finished) + 1)
    BY <1>2, <2>1, LenProperties
  <2> QED BY <1>1, <2>1, <2>2 DEF Range
<1>4. BatchInFlight'
  <2>1. DOMAIN results' = DOMAIN calls'
    BY <1>1 DEF AgentInv, BatchInFlight
  <2>2. \A j \in Range(finished') \cap DOMAIN calls' :
          results'[j] = IF calls'[j] \in Tools THEN CardsOf[calls'[j]] ELSE <<>>
    BY <1>1, <1>3 DEF AgentInv, BatchInFlight
  <2>3. Taken' = Taken
    BY <1>1 DEF Taken
  <2> QED BY <1>1, <2>1, <2>2, <2>3 DEF AgentInv, BatchInFlight
<1>5. CardsTo(output_refs, Taken)'
  BY <1>1 DEF AgentInv, Taken, CardsTo, Shows
<1>6. InOrder(streamed, output_refs)'
  BY <1>1 DEF AgentInv, InOrder
<1> QED BY <1>1, <1>3, <1>4, <1>5, <1>6 DEF AgentInv

LEMMA DispatchInv == ASSUME AgentInv, _dispatch_tool_calls PROVE AgentInv'
<1>1. /\ turn = "tools" /\ Unfinished = {} /\ turn' = "model"
      /\ output_refs' = MergedRefs /\ refs_pushed' = Len(MergedRefs)
      /\ streamed' \in {streamed \o SubSeq(MergedRefs, refs_pushed + 1, Len(MergedRefs)), streamed}
      /\ calls' = <<>> /\ results' = <<>> /\ finished' = <<>>
      /\ messages' = messages /\ reply' = reply
  BY DEF _dispatch_tool_calls
<1> DEFINE n == Len(calls)
           m == Len(messages) - n
<1>2. /\ n \in Nat /\ DOMAIN calls = 1..n /\ Len(messages) \in Nat /\ m \in Nat /\ m + n = Len(messages)
      /\ Taken = m
  <2>1. n \in Nat /\ DOMAIN calls = 1..n /\ Len(messages) \in Nat /\ n <= Len(messages)
    BY LenProperties DEF AgentInv, BatchInFlight
  <2> QED BY <2>1 DEF Taken
<1>3. \A i \in 1..n : messages[m + i] = calls[i]
  BY <1>2 DEF AgentInv, BatchInFlight
<1>4. \A i \in 1..n : results[i] = IF calls[i] \in Tools THEN CardsOf[calls[i]] ELSE <<>>
  BY <1>1, <1>2 DEF AgentInv, BatchInFlight, Unfinished
<1>5. CardsTo(output_refs, m)
  BY <1>2 DEF AgentInv
<1> HIDE DEF n, m
<1>6. ASSUME NEW i \in 1..n PROVE ShownBy(m + i, results[i])
  <2>1. CASE calls[i] \in Tools
    <3>1. CardsOf[calls[i]] \in Seq(Cards)
      <4>1. CardsOf[calls[i]] \in Seq(Range(CardsOf[calls[i]])) /\ Range(CardsOf[calls[i]]) \subseteq Cards
        BY <2>1, AgentAssumption DEF Cards
      <4> HIDE DEF Cards
      <4> QED BY <4>1, SeqMonotonic
    <3> QED BY <1>3, <1>4, <2>1, <3>1 DEF ShownBy, Shows
  <2>2. CASE calls[i] \notin Tools
    <3>1. <<>> \in Seq(Cards) /\ Keys(<<>>) = {}
      BY EmptySeq DEF Keys
    <3> QED BY <1>3, <1>4, <2>2, <3>1 DEF ShownBy, Shows
  <2> QED BY <2>1, <2>2
<1>7. CardsTo(MergedRefs, m + n) /\ Continues(MergedRefs, output_refs)
  BY <1>2, <1>5, <1>6, MergeBatch
<1>8. Taken' = Len(messages) /\ Len(calls') = 0
  BY <1>1, <1>2, EmptySeq DEF Taken
<1>9. CardsTo(output_refs, Taken)'
  BY <1>1, <1>2, <1>7, <1>8 DEF CardsTo, Shows
<1>10. BatchInFlight'
  <2>1. DOMAIN <<>> = {} /\ <<>> \in Seq(AllCalls)
    BY EmptySeq
  <2> QED BY <1>1, <1>2, <1>8, <2>1 DEF AgentInv, BatchInFlight
<1> DEFINE r == MergedRefs
           k == Len(output_refs)
           new == SubSeq(r, k + 1, Len(r))
<1>11. /\ k \in Nat /\ DOMAIN output_refs = 1..k /\ Len(r) \in Nat /\ DOMAIN r = 1..Len(r) /\ k <= Len(r)
       /\ \A i \in 1..k : r[i] = output_refs[i]
       /\ r \in Seq(Cards) /\ output_refs \in Seq(Cards)
  <2>1. r \in Seq(Cards) /\ output_refs \in Seq(Cards)
    BY <1>5, <1>7 DEF CardsTo
  <2> QED BY <1>7, <2>1, LenProperties DEF Continues
<1>12. refs_pushed = k /\ streamed \in Seq(Cards) /\ InOrder(streamed, output_refs) /\ reply = NoReply
  BY <1>1 DEF AgentInv
<1> HIDE DEF r, k
<1>13. /\ new \in Seq(Cards) /\ Len(new) = Len(r) - k
       /\ \A i \in 1..(Len(r) - k) : new[i] = r[k + i]
  <2>1. k + 1 \in Int /\ Len(r) \in Int /\ \A i \in (k + 1)..Len(r) : r[i] \in Cards
    BY <1>11
  <2>2. /\ new \in Seq(Cards) /\ Len(new) = IF k + 1 <= Len(r) THEN Len(r) - (k + 1) + 1 ELSE 0
        /\ \A i \in 1..(Len(r) - (k + 1) + 1) : new[i] = r[(k + 1) + i - 1]
    BY <2>1, SubSeqProperties
  <2> HIDE DEF new
  <2>3. Len(new) = Len(r) - k
    <3>1. k \in Nat /\ Len(r) \in Nat /\ k <= Len(r)
      BY <1>11
    <3>2. Len(new) = IF k + 1 <= Len(r) THEN Len(r) - (k + 1) + 1 ELSE 0
      BY <2>2
    <3> QED BY <3>1, <3>2
  <2>4. ASSUME NEW i \in 1..(Len(r) - k) PROVE new[i] = r[k + i]
    <3>1. (k + 1) + i - 1 = k + i /\ i \in 1..(Len(r) - (k + 1) + 1)
      BY <1>11
    <3> QED BY <2>2, <3>1
  <2> QED BY <2>2, <2>3, <2>4
<1> HIDE DEF new
<1>14. InOrder(streamed, r)
  <2>1. ASSUME NEW a \in DOMAIN streamed, NEW b \in DOMAIN streamed
        PROVE  \E i, j \in DOMAIN r : streamed[a] = r[i] /\ streamed[b] = r[j] /\ (a < b => i < j)
    <3>1. PICK i, j \in DOMAIN output_refs :
            streamed[a] = output_refs[i] /\ streamed[b] = output_refs[j] /\ (a < b => i < j)
      BY <1>12 DEF InOrder
    <3>2. i \in DOMAIN r /\ j \in DOMAIN r /\ r[i] = output_refs[i] /\ r[j] = output_refs[j]
      BY <1>11
    <3> QED BY <3>1, <3>2
  <2> QED BY <2>1 DEF InOrder
<1>15. InOrder(streamed \o new, r) /\ streamed \o new \in Seq(Cards)
  <2> DEFINE s == streamed \o new
  <2>1. /\ s \in Seq(Cards) /\ Len(s) = Len(streamed) + Len(new)
        /\ \A i \in 1..(Len(streamed) + Len(new)) :
             s[i] = IF i <= Len(streamed) THEN streamed[i] ELSE new[i - Len(streamed)]
    BY <1>12, <1>13, ConcatProperties
  <2>2. /\ Len(streamed) \in Nat /\ DOMAIN streamed = 1..Len(streamed) /\ DOMAIN s = 1..(Len(streamed) + Len(new))
    BY <1>12, <2>1, LenProperties
  <2> HIDE DEF s
  <2>3. ASSUME NEW a \in DOMAIN s, a <= Len(streamed)
        PROVE  \E i \in 1..k : s[a] = r[i]
    <3>1. a \in DOMAIN streamed /\ s[a] = streamed[a]
      BY <2>1, <2>2, <2>3
    <3>2. PICK i \in DOMAIN output_refs : streamed[a] = output_refs[i]
      BY <1>12, <3>1 DEF InOrder
    <3> QED BY <1>11, <3>1, <3>2
  <2>4. ASSUME NEW a \in DOMAIN s, a > Len(streamed)
        PROVE  /\ k + (a - Len(streamed)) \in DOMAIN r /\ s[a] = r[k + (a - Len(streamed))]
               /\ k + (a - Len(streamed)) > k
    <3> DEFINE i == a - Len(streamed)
    <3>1. a \in Nat /\ a <= Len(streamed) + Len(new) /\ Len(new) \in Nat
      BY <1>13, <2>2, LenProperties
    <3>2. i \in 1..(Len(r) - k)
      BY <1>11, <1>13, <2>2, <2>4, <3>1
    <3>3. s[a] = new[i]
      BY <2>1, <2>2, <2>4
    <3>4. k + (a - Len(streamed)) \in 1..Len(r) /\ k + (a - Len(streamed)) > k
      BY <1>11, <3>2
    <3> HIDE DEF i
    <3> QED BY <1>11, <1>13, <3>2, <3>4, <3>3 DEF i
  <2>5. ASSUME NEW a \in DOMAIN s, NEW b \in DOMAIN s
        PROVE  \E i, j \in DOMAIN r : s[a] = r[i] /\ s[b] = r[j] /\ (a < b => i < j)
    <3>1. a \in Nat /\ b \in Nat
      BY <2>2
    <3>2. CASE a <= Len(streamed) /\ b <= Len(streamed)
      <4>1. a \in DOMAIN streamed /\ b \in DOMAIN streamed /\ s[a] = streamed[a] /\ s[b] = streamed[b]
        BY <2>1, <2>2, <3>2
      <4> QED BY <1>14, <4>1 DEF InOrder
    <3>3. CASE a <= Len(streamed) /\ b > Len(streamed)
      <4>1. PICK i \in 1..k : s[a] = r[i]
        BY <2>3, <3>3
      <4>2. i \in DOMAIN r /\ i < k + (b - Len(streamed))
        BY <1>11, <2>4, <3>3
      <4> QED BY <2>4, <3>3, <4>1, <4>2
    <3>4. CASE a > Len(streamed) /\ b <= Len(streamed)
      <4>1. PICK j \in 1..k : s[b] = r[j]
        BY <2>3, <3>4
      <4>2. j \in DOMAIN r /\ ~ (a < b)
        BY <1>11, <2>2, <3>1, <3>4
      <4> QED BY <2>4, <3>4, <4>1, <4>2
    <3>5. CASE a > Len(streamed) /\ b > Len(streamed)
      <4>1. a < b => k + (a - Len(streamed)) < k + (b - Len(streamed))
        BY <1>11, <2>2, <3>1
      <4> QED BY <2>4, <3>5, <4>1
    <3> QED BY <2>2, <3>1, <3>2, <3>3, <3>4, <3>5
  <2>6. InOrder(s, r)
    BY <2>5 DEF InOrder
  <2> QED BY <2>1, <2>6 DEF s
<1>16. streamed' \in Seq(Cards) /\ InOrder(streamed, output_refs)'
  <2>1. output_refs' = r /\ (streamed' = streamed \o new \/ streamed' = streamed)
    BY <1>1, <1>12 DEF r, new
  <2>2. InOrder(streamed', output_refs')
    BY <1>14, <1>15, <2>1
  <2> QED BY <1>12, <1>15, <2>1, <2>2 DEF InOrder
<1>17. finished' \in Seq(Nat)
  BY <1>1, EmptySeq
<1> QED BY <1>1, <1>9, <1>10, <1>12, <1>16, <1>17 DEF AgentInv

LEMMA AgentNextInv == AgentInv /\ [AgentNext]_agentVars => AgentInv'
<1> SUFFICES ASSUME AgentInv, [AgentNext]_agentVars PROVE AgentInv'
  OBVIOUS
<1>1. CASE _post_user_message
  BY <1>1, BatchAlone DEF _post_user_message, AgentInv
<1>2. CASE Reject
  BY <1>2, BatchAlone DEF Reject
<1>3. CASE Admit
  BY <1>3, BatchAlone DEF Admit, AgentInv
<1>4. ASSUME NEW b \in Batches, ModelCalls(b) PROVE AgentInv'
  BY <1>4, CallsInv
<1>5. ASSUME NEW text \in {"answer", "error", "narrow"}, ModelAnswers(text) PROVE AgentInv'
  <2>1. reply' = NoReply \/ reply'.refs = output_refs
    BY <1>5 DEF ModelAnswers, _post_reply
  <2> QED BY <1>5, <2>1, BatchAlone DEF ModelAnswers
<1>6. ASSUME NEW i \in DOMAIN calls, _execute_tool_call(i) PROVE AgentInv'
  BY <1>6, ExecuteInv
<1>7. CASE _dispatch_tool_calls
  BY <1>7, DispatchInv
<1>8. CASE Finish
  BY <1>8, BatchAlone DEF Finish
<1>9. CASE Killed
  <2>1. UNCHANGED batchVars /\ turn' = "over"
    BY <1>9 DEF Killed
  <2>2. BatchInFlight'
    BY <2>1 DEF AgentInv, BatchInFlight, batchVars, Taken
  <2>3. CardsTo(output_refs, Taken)'
    BY <2>1 DEF AgentInv, batchVars, Taken, CardsTo, Shows
  <2>4. refs_pushed' = Len(output_refs') /\ streamed' \in Seq(Cards) /\ finished' \in Seq(Nat)
    BY <2>1 DEF AgentInv, batchVars
  <2>5. InOrder(streamed, output_refs)'
    BY <2>1 DEF AgentInv, batchVars, InOrder
  <2> QED BY <2>1, <2>2, <2>3, <2>4, <2>5 DEF AgentInv
<1>10. CASE UNCHANGED agentVars
  <2>1. UNCHANGED batchVars /\ turn' = turn /\ reply' = reply
    BY <1>10 DEF agentVars, batchVars
  <2>2. turn' = "replied" => reply' = NoReply \/ reply'.refs = output_refs
    BY <2>1 DEF AgentInv
  <2>3. turn' \in {"asked", "prompted", "model", "tools"} => reply' = NoReply
    BY <2>1 DEF AgentInv
  <2> QED BY <2>1, <2>2, <2>3, BatchAlone
<1> QED BY <1>1, <1>2, <1>3, <1>4, <1>5, <1>6, <1>7, <1>8, <1>9, <1>10 DEF AgentNext

LEMMA ShownFirst ==
  ASSUME AgentInv, NEW key, \E k \in DOMAIN messages : Shows(k, key)
  PROVE  /\ FirstShown(key) \in DOMAIN messages /\ Shows(FirstShown(key), key)
         /\ \A l \in 1..(FirstShown(key) - 1) : ~Shows(l, key)
<1> DEFINE T == {k \in DOMAIN messages : Shows(k, key)}
<1>1. DOMAIN messages = 1..Len(messages) /\ Len(messages) \in Nat
  BY LenProperties DEF AgentInv, BatchInFlight
<1>2. T \in SUBSET Nat /\ T # {}
  BY <1>1
<1>3. PICK k \in T : \A l \in T : k <= l
  BY <1>2, LeastNat
<1>4. k \in DOMAIN messages /\ Shows(k, key) /\ \A l \in 1..(k - 1) : ~Shows(l, key)
  <2>1. ASSUME NEW l \in 1..(k - 1), Shows(l, key) PROVE FALSE
    <3>1. l \in T /\ ~ (k <= l)
      BY <1>1, <2>1
    <3> QED BY <1>3, <3>1
  <2> QED BY <2>1
<1> QED BY <1>4 DEF FirstShown

LEMMA AgentInvCards == AgentInv => CardsInOrder
<1> SUFFICES ASSUME AgentInv, turn \in {"model", "replied"} PROVE CardsInOrder
  BY DEF CardsInOrder
<1>1. DOMAIN messages = 1..Len(messages) /\ Len(messages) \in Nat /\ Taken = Len(messages)
  <2>1. DOMAIN messages = 1..Len(messages) /\ Len(messages) \in Nat
    BY LenProperties DEF AgentInv, BatchInFlight
  <2>2. calls = <<>> /\ Len(<<>>) = 0
    BY EmptySeq DEF AgentInv, BatchInFlight
  <2> QED BY <2>1, <2>2 DEF Taken
<1>2. CardsTo(output_refs, Len(messages))
  BY <1>1 DEF AgentInv
<1>3. DOMAIN output_refs = 1..Len(output_refs) /\ Len(output_refs) \in Nat
  BY <1>2, LenProperties DEF CardsTo
<1>4. Keys(output_refs) = UNION {Keys(CardsOf[messages[k]]) : k \in {l \in DOMAIN messages : messages[l] \in Tools}}
  BY <1>1, <1>2 DEF CardsTo, Shows
<1>5. ASSUME NEW a \in DOMAIN output_refs, NEW b \in DOMAIN output_refs, a < b
      PROVE  /\ output_refs[a].key # output_refs[b].key
             /\ FirstShown(output_refs[a].key) <= FirstShown(output_refs[b].key)
  <2>1. output_refs[a].key # output_refs[b].key
    BY <1>2, <1>3, <1>5 DEF CardsTo, Distinct
  <2> DEFINE ka == output_refs[a].key
             kb == output_refs[b].key
  <2>2. /\ \E k \in DOMAIN messages : Shows(k, ka)
        /\ \E k \in DOMAIN messages : Shows(k, kb)
    BY <1>1, <1>2 DEF CardsTo, Keys
  <2>3. a \in 1..(b - 1) /\ a \in Nat /\ b \in Nat
    BY <1>3, <1>5
  <2> DEFINE fa == FirstShown(ka)
             fb == FirstShown(kb)
  <2> HIDE DEF ka, kb
  <2>4. fa \in DOMAIN messages /\ Shows(fa, ka) /\ \A l \in 1..(fa - 1) : ~Shows(l, ka)
    BY <2>2, ShownFirst
  <2>5. fb \in DOMAIN messages /\ Shows(fb, kb)
    BY <2>2, ShownFirst
  <2> HIDE DEF fa, fb
  <2>6. PICK k \in 1..fb : Shows(k, ka)
    BY <1>1, <1>2, <2>3, <2>5 DEF CardsTo, ka, kb
  <2>7. k \notin 1..(fa - 1)
    BY <2>4, <2>6
  <2>8. fa <= fb
    BY <1>1, <2>4, <2>5, <2>7
  <2> QED BY <2>1, <2>8 DEF fa, fb, ka, kb
<1>6. reply # NoReply => reply.refs = output_refs
  BY DEF AgentInv
<1> QED BY <1>4, <1>5, <1>6 DEF AgentInv, InOrder, CardsInOrder

\* However the tools of a batch interleave, a reply carries the cards of all calls
\* of all rounds, each key once, in the order in which the model first called
\* for them, and the stream shows them in that order (_dispatch_tool_calls).
THEOREM CardsKeepOrder == AgentSpec => []CardsInOrder
BY AgentInitInv, AgentNextInv, AgentInvCards, PTL DEF AgentSpec

-----------------------------------------------------------------------------
(* The scope of a recruiter (AiScope) *)
USE AiScopeAssumption

Scopes == [all : BOOLEAN, jobs : SUBSET Jobs, cands : SUBSET Cands, firms : SUBSET Firms]
ScopeTypeOK == /\ myJobs \subseteq Jobs /\ keptFor \in [Jobs -> 0..Lag]
               /\ scopeCache \in Scopes \cup {NoScope} /\ scopeTtl \in 0..ScopeTTL
               /\ scope \in Scopes \cup {NoScope} /\ turnAge \in 0..LongestTurn
\* Where the jobs of a scope differ from the assignments, the change is recent.
Differs(s, j) == (j \in s.jobs) # (j \in myJobs)
CacheFresh == scopeTtl > 0 => /\ scopeCache \in Scopes /\ ~scopeCache.all
                              /\ \A j \in Jobs : Differs(scopeCache, j) => keptFor[j] + scopeTtl <= ScopeTTL
TurnFresh == Scoped =>
               \A j \in Jobs : Differs(scope, j) => keptFor[j] + 1 <= ScopeTTL + turnAge
ScopeInv == ScopeTypeOK /\ CacheFresh /\ TurnFresh

LEMMA LagType == Lag \in Nat /\ Lag > 0
BY DEF Lag

LEMMA LoadedScope == ASSUME NEW J \in SUBSET Jobs
                     PROVE /\ _load_recruiter_scope(J) \in Scopes
                           /\ ~_load_recruiter_scope(J).all /\ _load_recruiter_scope(J).jobs = J
BY DEF _load_recruiter_scope, Scopes, Applicants, FirmsOf

LEMMA ScopeInitInv == ScopeInit => ScopeInv
BY LagType DEF ScopeInit, ScopeInv, ScopeTypeOK, CacheFresh, TurnFresh, Scoped

LEMMA ChangeInv == ASSUME ScopeInv, NEW j \in Jobs, ChangeAssignment(j) PROVE ScopeInv'
<1>1. ScopeTypeOK'
  BY LagType DEF ScopeInv, ScopeTypeOK, ChangeAssignment
<1>2. CacheFresh'
  BY DEF ScopeInv, ScopeTypeOK, CacheFresh, Differs, ChangeAssignment
<1>3. TurnFresh'
  BY DEF ScopeInv, ScopeTypeOK, TurnFresh, Scoped, Differs, ChangeAssignment
<1> QED BY <1>1, <1>2, <1>3 DEF ScopeInv

LEMMA BeginInv == ASSUME ScopeInv, apply_scope PROVE ScopeInv'
<1>1. CASE asker = "admin" /\ scope' = Unscoped /\ UNCHANGED <<scopeCache, scopeTtl>>
  BY <1>1 DEF ScopeInv, ScopeTypeOK, CacheFresh, TurnFresh, Scoped, Differs, apply_scope, Unscoped, Scopes
<1>2. CASE Reuses
  BY <1>2 DEF ScopeInv, ScopeTypeOK, CacheFresh, TurnFresh, Scoped, Differs, apply_scope, Reuses
<1>3. CASE Loads
  <2>1. scope' \in Scopes /\ ~scope'.all /\ scope'.jobs = myJobs
    BY <1>3, LoadedScope DEF ScopeInv, ScopeTypeOK, Loads
  <2>2. ScopeTypeOK'
    BY <1>3, <2>1 DEF ScopeInv, ScopeTypeOK, apply_scope, Loads
  <2>3. CacheFresh' /\ TurnFresh'
    BY <1>3, <2>1 DEF ScopeInv, ScopeTypeOK, CacheFresh, TurnFresh, Scoped, Differs, apply_scope, Loads
  <2> QED BY <2>2, <2>3 DEF ScopeInv
<1> QED BY <1>1, <1>2, <1>3 DEF apply_scope

LEMMA EndInv == ASSUME ScopeInv, EndTurn PROVE ScopeInv'
BY DEF ScopeInv, ScopeTypeOK, CacheFresh, TurnFresh, Scoped, Differs, EndTurn

LEMMA ScopeTickInv == ASSUME ScopeInv, Tick PROVE ScopeInv'
<1>1. \A j \in Jobs : keptFor'[j] \in 0..Lag /\ keptFor'[j] <= keptFor[j] + 1
  BY LagType DEF ScopeInv, ScopeTypeOK, Tick
<1>2. ScopeTypeOK'
  BY <1>1, LagType DEF ScopeInv, ScopeTypeOK, Tick
<1>3. CacheFresh'
  BY <1>1 DEF ScopeInv, ScopeTypeOK, CacheFresh, Differs, Tick
<1>4. TurnFresh'
  BY <1>1 DEF ScopeInv, ScopeTypeOK, TurnFresh, Scoped, Differs, Tick
<1> QED BY <1>2, <1>3, <1>4 DEF ScopeInv

LEMMA ScopeNextInv == ScopeInv /\ [ScopeNext]_scopeVars => ScopeInv'
<1> SUFFICES ASSUME ScopeInv, [ScopeNext]_scopeVars PROVE ScopeInv'
  OBVIOUS
<1>1. CASE UNCHANGED scopeVars
  BY <1>1 DEF ScopeInv, ScopeTypeOK, CacheFresh, TurnFresh, Scoped, Differs, scopeVars
<1> QED BY <1>1, ChangeInv, BeginInv, EndInv, ScopeTickInv DEF ScopeNext

(* The jobs of a scope and the recruiter's assignments differ only where an *)
(* assignment changed within _SCOPE_TTL plus the age of the turn.           *)
THEOREM ScopeInvariant == ScopeSpec => []ScopeInv
BY ScopeInitInv, ScopeNextInv, PTL DEF ScopeSpec

LEMMA RefinesInit == ScopeInit => View!Init
BY DEF ScopeInit, View!Init, Scoped

LEMMA RefinesStep == ScopeInv /\ ScopeInv' /\ [ScopeNext]_scopeVars => [View!Next]_View!vars
<1> SUFFICES ASSUME ScopeInv, ScopeInv', [ScopeNext]_scopeVars PROVE [View!Next]_View!vars
  OBVIOUS
<1>1. CASE UNCHANGED scopeVars
  BY <1>1 DEF scopeVars, View!vars, Scoped
<1>2. ASSUME NEW j \in Jobs, ChangeAssignment(j) PROVE View!Change(j)
  BY <1>2 DEF ChangeAssignment, View!Change, Scoped
<1>3. CASE apply_scope
  <2>1. ~Scoped /\ UNCHANGED <<myJobs, keptFor>>
    BY <1>3 DEF apply_scope, Scoped
  <2>2. CASE ~Scoped'
    BY <2>1, <2>2 DEF View!vars
  <2>3. CASE Scoped'
    <3>1. scope'.jobs \in SUBSET Jobs
      BY <2>3 DEF Scoped, ScopeInv, ScopeTypeOK, Scopes
    <3>2. View!Within(scope'.jobs)
      BY <2>1, <2>3, LagType DEF ScopeInv, ScopeTypeOK, TurnFresh, Differs, View!Within, Scopes, Scoped, Lag
    <3>3. View!Open
      BY <2>1, <2>3, <3>1, <3>2 DEF View!Open
    <3> QED BY <3>3 DEF View!Next
  <2> QED BY <2>2, <2>3
<1>4. CASE EndTurn
  BY <1>4 DEF EndTurn, View!Next, View!Close, Scoped
<1>5. CASE Tick
  <2>1. UNCHANGED <<myJobs, scope>> /\ Scoped' = Scoped
    BY <1>5 DEF Tick, Scoped
  <2>2. Scoped => View!Within(scope.jobs)'
    BY <2>1, LagType DEF ScopeInv, ScopeTypeOK, TurnFresh, Differs, View!Within, Scopes, Scoped, Lag
  <2> QED BY <1>5, <2>1, <2>2 DEF Tick, View!Tick, View!Next, View!Within
<1> QED BY <1>1, <1>2, <1>3, <1>4, <1>5 DEF ScopeNext, View!Next

(* The scope of a turn implements the bounded view of the assignments.      *)
THEOREM ScopeRefinesView == ScopeSpec => ScopeIsBoundedView
<1>1. ScopeInit => View!Init
  BY RefinesInit
<1>2. ScopeInv /\ ScopeInv' /\ [ScopeNext]_scopeVars => [View!Next]_View!vars
  BY RefinesStep
<1> QED BY <1>1, <1>2, ScopeInvariant, PTL DEF ScopeSpec, ScopeIsBoundedView, View!Spec

\* A recruiter's scope is what the jobs it was loaded with lead to.
Loaded(s) == ~s.all /\ s.cands = Applicants(s.jobs) /\ s.firms = FirmsOf(s.jobs)
ScopesLoaded == (scopeTtl > 0 => Loaded(scopeCache)) /\ (Scoped => Loaded(scope))

LEMMA ScopesLoadedStep == ScopeInv /\ ScopesLoaded /\ [ScopeNext]_scopeVars => ScopesLoaded'
<1> SUFFICES ASSUME ScopeInv, ScopesLoaded, [ScopeNext]_scopeVars PROVE ScopesLoaded'
  OBVIOUS
<1>1. CASE UNCHANGED <<scopeCache, scopeTtl, scope>>
  BY <1>1 DEF ScopesLoaded, Scoped, Loaded
<1>2. CASE apply_scope
  <2>1. CASE asker = "admin" /\ scope' = Unscoped /\ UNCHANGED <<scopeCache, scopeTtl>>
    BY <2>1 DEF ScopesLoaded, Scoped, Loaded, Unscoped
  <2>2. CASE Reuses
    BY <2>2 DEF Reuses, ScopesLoaded, Scoped, Loaded
  <2>3. CASE Loads
    <3>1. Loaded(_load_recruiter_scope(myJobs))
      BY DEF Loaded, _load_recruiter_scope
    <3> QED BY <2>3, <3>1 DEF Loads, ScopesLoaded, Scoped, Loaded
  <2> QED BY <1>2, <2>1, <2>2, <2>3 DEF apply_scope
<1>3. CASE EndTurn
  BY <1>3 DEF EndTurn, ScopesLoaded, Scoped, Loaded
<1>4. CASE Tick
  BY <1>4 DEF Tick, ScopesLoaded, Scoped, Loaded, ScopeInv, ScopeTypeOK
<1> QED BY <1>1, <1>2, <1>3, <1>4 DEF ScopeNext, ChangeAssignment, scopeVars

\* What jobs lead to grows with them.
LEMMA Reaches == ASSUME NEW J, NEW K, J \subseteq K
                 PROVE  /\ Applicants(J) \subseteq Applicants(K) /\ FirmsOf(J) \subseteq FirmsOf(K)
                        /\ WithFirms(J) \subseteq TiedTo(K) /\ TiedTo(J) \subseteq TiedTo(K)
                        /\ FunnelOf(J) \subseteq TiedTo(K)
<1>1. Applicants(J) \subseteq Applicants(K) /\ FirmsOf(J) \subseteq FirmsOf(K)
  BY DEF Applicants, FirmsOf
<1>2. FunnelOf(J) \subseteq Applicants(J) \cup J
  BY DEF FunnelOf
<1> QED BY <1>1, <1>2 DEF TiedTo, WithFirms

\* The tools, one group after the other, under the scope s of a recruiter.
LEMMA FunnelShows == ASSUME NEW s, Loaded(s), NEW x
  PROVE  /\ _pipeline_funnel(s, "job", x) \subseteq If(x \in s.jobs, TiedTo({x}))
         /\ _pipeline_funnel(s, "company", x) \subseteq If(x \in s.firms, {x} \cup TiedTo(JobsOfFirm(x)))
         /\ _pipeline_funnel(s, "user", x) \subseteq TiedTo(myJobs)
         /\ _pipeline_funnel(s, "team", x) \subseteq TiedTo(TeamJobs(x))
         /\ _pipeline_funnel(s, "global", x) \subseteq TiedTo(s.jobs)
<1>1. /\ FunnelOf({x}) \subseteq TiedTo({x}) /\ FunnelOf(JobsOfFirm(x)) \subseteq TiedTo(JobsOfFirm(x))
      /\ FunnelOf(myJobs) \subseteq TiedTo(myJobs) /\ FunnelOf(TeamJobs(x)) \subseteq TiedTo(TeamJobs(x))
      /\ FunnelOf(s.jobs) \subseteq TiedTo(s.jobs) /\ x \in TiedTo({x})
  BY Reaches DEF TiedTo, WithFirms
<1>2. /\ _pipeline_funnel(s, "job", x) = If(has_job(s, x), {x} \cup FunnelOf({x}))
      /\ _pipeline_funnel(s, "company", x) = If(has_company(s, x), {x} \cup FunnelOf(JobsOfFirm(x)))
      /\ _pipeline_funnel(s, "user", x) = FunnelOf(myJobs)
      /\ _pipeline_funnel(s, "team", x) = FunnelOf(TeamJobs(x))
      /\ _pipeline_funnel(s, "global", x) = If(ListsBind(s), FunnelOf(_scope_job_filter(s)))
  BY DEF _pipeline_funnel
<1>3. (has_job(s, x) <=> x \in s.jobs) /\ (has_company(s, x) <=> x \in s.firms) /\ _scope_job_filter(s) = s.jobs
  BY DEF Loaded, has_job, has_company, _scope_job_filter
<1> QED BY <1>1, <1>2, <1>3 DEF If

LEMMA FeedShows == ASSUME NEW s, Loaded(s), NEW x
  PROVE  /\ _recent_activity_feed(s, "candidate", x) \subseteq If(x \in s.cands, {x})
         /\ _recent_activity_feed(s, "job", x) \subseteq If(x \in s.jobs, TiedTo({x}))
         /\ _recent_activity_feed(s, "company", x) \subseteq If(x \in s.firms, TiedTo(JobsOfFirm(x)))
         /\ _recent_activity_feed(s, "recruiter", x) \subseteq TiedTo(myJobs)
         /\ _recent_activity_feed(s, "team", x) \subseteq If(x \in MySquads, TiedTo(TeamJobs(x)))
         /\ _recent_activity_feed(s, "global", x) \subseteq s.cands
<1>1. /\ _recent_activity_feed(s, "candidate", x) = If(has_candidate(s, x), {x})
      /\ _recent_activity_feed(s, "job", x) = If(has_job(s, x), Applicants({x}))
      /\ _recent_activity_feed(s, "company", x) = If(has_company(s, x), Applicants(JobsOfFirm(x)))
      /\ _recent_activity_feed(s, "recruiter", x) = Applicants(myJobs)
      /\ _recent_activity_feed(s, "team", x) = If(MayCompare(s, x), Applicants(TeamJobs(x)))
      /\ _recent_activity_feed(s, "global", x) = _scope_candidate_filter(s)
  BY DEF _recent_activity_feed
<1>2. /\ has_candidate(s, x) <=> x \in s.cands
      /\ has_job(s, x) <=> x \in s.jobs
      /\ has_company(s, x) <=> x \in s.firms
      /\ MayCompare(s, x) <=> x \in MySquads
      /\ _scope_candidate_filter(s) = s.cands
  BY DEF Loaded, has_candidate, has_job, has_company, MayCompare, _scope_candidate_filter
<1>3. \A J : Applicants(J) \subseteq TiedTo(J)
  BY DEF TiedTo
<1> QED BY <1>1, <1>2, <1>3 DEF If

LEMMA ScopeShows == ASSUME NEW s, Loaded(s), s.jobs \subseteq Jobs
                    PROVE  AboutScope(s) \subseteq TiedTo(s.jobs) /\ TiedTo(s.jobs) \subseteq AboutScope(s)
<1> DEFINE S == s.jobs
           OfJob(j) == _job_detail(s, j) \cup _pipeline_status_for_job(s, j) \cup _users_for_job(s, j)
                       \cup _pipeline_stages_for_job(s, j) \cup ListCandidatesOf(s, j) \cup LatestResumesOf(s, j)
                       \cup _recent_activity_feed(s, "job", j)
           OfCand(c) == _candidate_resume_detail(s, c) \cup _candidate_activity_timeline(s, c)
                        \cup _recent_activity_feed(s, "candidate", c)
           OfFirm(f) == _company_detail(s, f) \cup _company_jobs(s, f)
<1>1. /\ _scope_job_filter(s) = S /\ _scope_candidate_filter(s) = Applicants(S)
      /\ \A j : has_job(s, j) <=> j \in S
      /\ \A c : has_candidate(s, c) <=> c \in Applicants(S)
      /\ \A f : has_company(s, f) <=> f \in FirmsOf(S)
  BY DEF Loaded, _scope_job_filter, _scope_candidate_filter, has_job, has_candidate, has_company
<1>2. TiedTo(S) = S \cup FirmsOf(S) \cup Applicants(S)
  BY DEF TiedTo, WithFirms
<1>3. _list_jobs(s) = S \cup FirmsOf(S) /\ _latest_resumes(s) = Applicants(S) /\ _company_jobs_summary(s) = FirmsOf(S)
  BY <1>1 DEF _list_jobs, WithFirms, _latest_resumes, _company_jobs_summary
<1>4. _count_candidates_by_stage(s, Jobs) \subseteq TiedTo(S)
  <2>1. S \cap Jobs = S
    OBVIOUS
  <2> QED BY <1>1, <1>2, <2>1 DEF _count_candidates_by_stage
<1>5. _pipeline_funnel(s, "global", NoScope) \subseteq TiedTo(S) /\ _recent_activity_feed(s, "global", NoScope) \subseteq TiedTo(S)
  <2>1. _pipeline_funnel(s, "global", NoScope) \subseteq TiedTo(S)
    BY FunnelShows
  <2>2. _recent_activity_feed(s, "global", NoScope) \subseteq s.cands
    BY FeedShows
  <2>3. s.cands = Applicants(S)
    BY DEF Loaded
  <2> QED BY <1>2, <2>1, <2>2, <2>3
<1>6. \A j \in S : WithFirms({j}) \subseteq TiedTo(S) /\ Applicants({j}) \subseteq TiedTo(S) /\ TiedTo({j}) \subseteq TiedTo(S)
  <2> SUFFICES ASSUME NEW j \in S
               PROVE  WithFirms({j}) \subseteq TiedTo(S) /\ Applicants({j}) \subseteq TiedTo(S) /\ TiedTo({j}) \subseteq TiedTo(S)
    OBVIOUS
  <2>1. {j} \subseteq S
    OBVIOUS
  <2>2. Applicants({j}) \subseteq Applicants(S) /\ WithFirms({j}) \subseteq TiedTo(S) /\ TiedTo({j}) \subseteq TiedTo(S)
    BY <2>1, Reaches
  <2> QED BY <1>2, <2>2
<1>7. ASSUME NEW j \in Jobs PROVE OfJob(j) \subseteq TiedTo(S)
  <2>1. _job_detail(s, j) \subseteq TiedTo(S)
    BY <1>1, <1>6 DEF _job_detail, If
  <2>2. _pipeline_status_for_job(s, j) \subseteq TiedTo(S)
    BY <1>1, <1>2, <1>6 DEF _pipeline_status_for_job, If
  <2>3. _users_for_job(s, j) \subseteq TiedTo(S) /\ _pipeline_stages_for_job(s, j) \subseteq TiedTo(S)
    BY <1>1, <1>2 DEF _users_for_job, _pipeline_stages_for_job, If
  <2>4. ListCandidatesOf(s, j) \subseteq TiedTo(S)
    BY <1>1, <1>2 DEF ListCandidatesOf, If
  <2>5. LatestResumesOf(s, j) \subseteq TiedTo(S)
    BY <1>1, <1>2 DEF LatestResumesOf, If
  <2>6. _recent_activity_feed(s, "job", j) \subseteq TiedTo(S)
    BY <1>6, FeedShows DEF If
  <2> QED BY <2>1, <2>2, <2>3, <2>4, <2>5, <2>6
<1>8. ASSUME NEW c \in Cands PROVE OfCand(c) \subseteq TiedTo(S)
  <2>1. _candidate_resume_detail(s, c) \subseteq TiedTo(S) /\ _candidate_activity_timeline(s, c) \subseteq TiedTo(S)
    BY <1>1, <1>2 DEF _candidate_resume_detail, _candidate_activity_timeline, If
  <2>2. _recent_activity_feed(s, "candidate", c) \subseteq TiedTo(S)
    <3>1. _recent_activity_feed(s, "candidate", c) \subseteq If(c \in s.cands, {c})
      BY FeedShows
    <3>2. s.cands = Applicants(S)
      BY DEF Loaded
    <3> QED BY <1>2, <3>1, <3>2 DEF If
  <2> QED BY <2>1, <2>2
<1>9. ASSUME NEW f \in Firms PROVE OfFirm(f) \subseteq TiedTo(S)
  <2>1. _company_detail(s, f) \subseteq TiedTo(S)
    BY <1>1, <1>2 DEF _company_detail, If
  <2>2. _company_jobs(s, f) \subseteq TiedTo(S)
    <3>1. {j \in S : FirmOf[j] = f} \subseteq S
      OBVIOUS
    <3> QED BY <1>1, <3>1, Reaches DEF _company_jobs
  <2> QED BY <2>1, <2>2
<1>10. _compare_jobs(s, Jobs) \subseteq TiedTo(S)
  <2>1. ASSUME NEW j \in Jobs, has_job(s, j) PROVE _job_detail(s, j) \cup _pipeline_funnel(s, "job", j) \subseteq TiedTo(S)
    <3>1. _job_detail(s, j) \subseteq TiedTo(S)
      BY <1>7
    <3>2. _pipeline_funnel(s, "job", j) \subseteq TiedTo(S)
      BY <1>6, FunnelShows DEF If
    <3> QED BY <3>1, <3>2
  <2> QED BY <2>1 DEF _compare_jobs
<1>11. AboutScope(s) = _list_jobs(s) \cup _company_jobs_summary(s) \cup _latest_resumes(s)
          \cup _count_candidates_by_stage(s, Jobs)
          \cup _pipeline_funnel(s, "global", NoScope) \cup _recent_activity_feed(s, "global", NoScope)
          \cup (UNION {OfJob(j) : j \in Jobs}) \cup (UNION {OfCand(c) : c \in Cands}) \cup (UNION {OfFirm(f) : f \in Firms})
          \cup _compare_jobs(s, Jobs)
  BY DEF AboutScope
<1> HIDE DEF OfJob, OfCand, OfFirm, S
<1>12. /\ UNION {OfJob(j) : j \in Jobs} \subseteq TiedTo(S) /\ UNION {OfCand(c) : c \in Cands} \subseteq TiedTo(S)
       /\ UNION {OfFirm(f) : f \in Firms} \subseteq TiedTo(S)
  BY <1>7, <1>8, <1>9
<1>13. AboutScope(s) \subseteq TiedTo(S)
  <2>1. _list_jobs(s) \cup _company_jobs_summary(s) \cup _latest_resumes(s) \subseteq TiedTo(S)
    BY <1>2, <1>3
  <2> DEFINE A == _list_jobs(s) \cup _company_jobs_summary(s) \cup _latest_resumes(s)
             B == UNION {OfJob(j) : j \in Jobs}
             C == UNION {OfCand(c) : c \in Cands}
             F == UNION {OfFirm(f) : f \in Firms}
  <2>2. AboutScope(s) = A \cup _count_candidates_by_stage(s, Jobs) \cup _pipeline_funnel(s, "global", NoScope)
          \cup _recent_activity_feed(s, "global", NoScope) \cup B \cup C \cup F \cup _compare_jobs(s, Jobs)
    BY <1>11
  <2>3. A \subseteq TiedTo(S) /\ B \subseteq TiedTo(S) /\ C \subseteq TiedTo(S) /\ F \subseteq TiedTo(S)
    BY <1>12, <2>1
  <2> HIDE DEF A, B, C, F
  <2> QED BY <1>4, <1>5, <1>10, <2>2, <2>3
<1>14. TiedTo(S) \subseteq AboutScope(s)
  BY <1>2, <1>3, <1>11
<1> QED BY <1>13, <1>14 DEF S

LEMMA CandidatesShow == ASSUME NEW s, Loaded(s) PROVE AboutCandidates(s) \subseteq LedByCandidates(s.jobs)
<1> DEFINE C == Applicants(s.jobs)
           Led == TiedTo(s.jobs) \cup WithFirms(UNION {AppliedTo[c] : c \in C})
<1>1. _scope_candidate_filter(s) = C /\ \A c : has_candidate(s, c) <=> c \in C
  BY DEF Loaded, _scope_candidate_filter, has_candidate
<1>2. C \subseteq Led
  BY DEF TiedTo
<1>3. UNION {AppliedTo[c] : c \in C} \subseteq Led
  BY DEF WithFirms
<1>4. ASSUME NEW c \in C PROVE {c} \cup WithFirms(AppliedTo[c]) \subseteq Led
  <2>1. AppliedTo[c] \subseteq UNION {AppliedTo[d] : d \in C}
    OBVIOUS
  <2>2. FirmsOf(AppliedTo[c]) \subseteq FirmsOf(UNION {AppliedTo[d] : d \in C})
    BY <2>1 DEF FirmsOf
  <2> QED BY <1>2, <2>1, <2>2 DEF WithFirms
<1>5. _list_candidates(s) \subseteq Led
  BY <1>1, <1>2, <1>3 DEF _list_candidates
<1> HIDE DEF C, Led
<1>6. ASSUME NEW c \in Cands PROVE _candidate_detail(s, c) \subseteq Led /\ _candidate_stage_history(s, c) \subseteq Led
  BY <1>1, <1>4 DEF _candidate_detail, _candidate_stage_history, If
<1>7. _compare_candidates(s, Cands) \subseteq Led
  BY <1>6 DEF _compare_candidates
<1>8. UNION {_candidate_stage_history(s, c) : c \in Cands} \subseteq Led
  BY <1>6
<1> QED BY <1>5, <1>7, <1>8 DEF AboutCandidates, LedByCandidates, Led, C

LEMMA CompaniesShow == ASSUME NEW s, Loaded(s), s.jobs \subseteq Jobs PROVE AboutCompanies(s) \subseteq LedByCompanies(s.jobs)
<1> DEFINE J == {j \in Jobs : FirmOf[j] \in FirmsOf(s.jobs)}
<1>1. \A f : has_company(s, f) <=> f \in FirmsOf(s.jobs)
  BY DEF Loaded, has_company
<1>2. ASSUME NEW f, f \in FirmsOf(s.jobs) PROVE {f} \cup TiedTo(JobsOfFirm(f)) \subseteq TiedTo(J)
  <2>1. JobsOfFirm(f) \subseteq J
    BY <1>2 DEF JobsOfFirm
  <2>2. f \in FirmsOf(JobsOfFirm(f))
    BY <1>2 DEF FirmsOf, JobsOfFirm
  <2>3. TiedTo(JobsOfFirm(f)) \subseteq TiedTo(J) /\ f \in TiedTo(JobsOfFirm(f))
    BY <2>1, <2>2, Reaches DEF TiedTo, WithFirms
  <2> QED BY <2>3
<1> HIDE DEF J
<1>3. ASSUME NEW f PROVE /\ _company_detail(s, f) \subseteq TiedTo(J)
                         /\ _pipeline_funnel(s, "company", f) \subseteq TiedTo(J)
                         /\ _company_performance(s, f) \subseteq TiedTo(J)
                         /\ _recent_activity_feed(s, "company", f) \subseteq TiedTo(J)
  <2>1. _company_detail(s, f) \subseteq TiedTo(J)
    BY <1>1, <1>2 DEF _company_detail, If
  <2>2. s.firms = FirmsOf(s.jobs)
    BY DEF Loaded
  <2>3. _pipeline_funnel(s, "company", f) \subseteq TiedTo(J)
    BY <1>2, <2>2, FunnelShows DEF If
  <2>4. _recent_activity_feed(s, "company", f) \subseteq TiedTo(J)
    <3>1. _recent_activity_feed(s, "company", f) \subseteq If(f \in s.firms, TiedTo(JobsOfFirm(f)))
      BY FeedShows
    <3> QED BY <1>2, <2>2, <3>1 DEF If
  <2> QED BY <2>1, <2>3, <2>4 DEF _company_performance
<1>4. _compare_companies(s, Firms) \subseteq TiedTo(J)
  BY <1>3 DEF _compare_companies
<1>5. UNION {_company_performance(s, f) \cup _recent_activity_feed(s, "company", f) : f \in Firms} \subseteq TiedTo(J)
  BY <1>3
<1> QED BY <1>4, <1>5 DEF AboutCompanies, LedByCompanies, J

LEMMA MineShows == ASSUME NEW s, Loaded(s) PROVE AboutMe(s) \subseteq TiedTo(myJobs)
<1>1. _recruiter_metrics(s) \subseteq TiedTo(myJobs) /\ _user_detail(s) \subseteq TiedTo(myJobs)
  BY DEF _recruiter_metrics, _user_detail, TiedTo, WithFirms
<1>2. _user_sourcing(s) \subseteq TiedTo(myJobs)
  BY Reaches DEF _user_sourcing
<1>3. _pipeline_funnel(s, "user", NoScope) \subseteq TiedTo(myJobs) /\ _recent_activity_feed(s, "recruiter", NoScope) \subseteq TiedTo(myJobs)
  BY FunnelShows, FeedShows
<1> QED BY <1>1, <1>2, <1>3 DEF AboutMe

LEMMA TeamsShow == ASSUME NEW s, Loaded(s)
                   PROVE  AboutTeams(s) \subseteq LedByTeams /\ AboutAnyTeam(s) \subseteq LedByAnyTeam
                          /\ _list_teams(s) \subseteq LedByTeams
<1>1. \A t : MayCompare(s, t) <=> t \in MySquads
  BY DEF Loaded, MayCompare
<1>2. \A t \in MySquads : t \in LedByTeams /\ TiedTo(TeamJobs(t)) \subseteq LedByTeams
  BY DEF LedByTeams
<1>3. _list_teams(s) \subseteq LedByTeams
  BY <1>1, <1>2 DEF _list_teams
<1>4. _compare_teams(s, Squads) \subseteq LedByTeams
  <2>1. ASSUME NEW t \in Squads, MayCompare(s, t) PROVE _pipeline_funnel(s, "team", t) \subseteq LedByTeams
    BY <1>1, <1>2, <2>1, FunnelShows
  <2> QED BY <2>1 DEF _compare_teams
<1>5. UNION {_recent_activity_feed(s, "team", t) : t \in Squads} \subseteq LedByTeams
  <2>1. ASSUME NEW t \in Squads PROVE _recent_activity_feed(s, "team", t) \subseteq LedByTeams
    BY <1>2, FeedShows DEF If
  <2> QED BY <2>1
<1>6. AboutAnyTeam(s) \subseteq LedByAnyTeam
  <2>1. ASSUME NEW t \in Squads PROVE _team_detail(s, t) \cup _team_performance(s, t) \subseteq TiedTo(TeamJobs(t) \cup SquadJobs[t])
    <3>1. WithFirms(SquadJobs[t]) \subseteq TiedTo(TeamJobs(t) \cup SquadJobs[t])
      BY Reaches
    <3>2. TiedTo(TeamJobs(t)) \subseteq TiedTo(TeamJobs(t) \cup SquadJobs[t])
      BY Reaches
    <3>3. _pipeline_funnel(s, "team", t) \subseteq TiedTo(TeamJobs(t))
      BY FunnelShows
    <3> QED BY <3>1, <3>2, <3>3 DEF _team_detail, _team_performance
  <2> QED BY <2>1 DEF AboutAnyTeam, LedByAnyTeam
<1> QED BY <1>3, <1>4, <1>5, <1>6 DEF AboutTeams

LEMMA PipesShow == ASSUME NEW s, Loaded(s)
                   PROVE  AboutPipes(s) \subseteq LedByPipes(s.jobs) /\ _list_pipelines(s) \subseteq LedByPipes(s.jobs)
<1>1. \A p : UsesPipe(s, p) <=> \E k \in s.jobs : PipeOf[k] = p
  BY DEF Loaded, UsesPipe
<1>2. _list_pipelines(s) \subseteq LedByPipes(s.jobs)
  BY <1>1 DEF _list_pipelines, LedByPipes
<1>3. ASSUME NEW p \in Pipes PROVE _pipeline_detail(s, p) \subseteq LedByPipes(s.jobs)
  <2> DEFINE J == {j \in Jobs : \E k \in s.jobs : PipeOf[j] = PipeOf[k]}
  <2>1. CASE UsesPipe(s, p)
    <3>1. JobsOnPipe(p) \subseteq J
      BY <1>1, <2>1 DEF JobsOnPipe
    <3>2. WithFirms(JobsOnPipe(p)) \subseteq WithFirms(J)
      BY <3>1, Reaches DEF WithFirms
    <3> QED BY <2>1, <3>2 DEF _pipeline_detail, LedByPipes, If
  <2>2. CASE ~UsesPipe(s, p)
    BY <2>2 DEF _pipeline_detail, If
  <2> QED BY <2>1, <2>2
<1> QED BY <1>2, <1>3 DEF AboutPipes

LEMMA LedGrows == ASSUME NEW J, NEW K, J \subseteq K
  PROVE  /\ LedByCandidates(J) \subseteq LedByCandidates(K) /\ LedByCompanies(J) \subseteq LedByCompanies(K)
         /\ LedByPipes(J) \subseteq LedByPipes(K)
<1>1. LedByCandidates(J) \subseteq LedByCandidates(K)
  <2> DEFINE A == UNION {AppliedTo[c] : c \in Applicants(J)}
             B == UNION {AppliedTo[c] : c \in Applicants(K)}
  <2>1. TiedTo(J) \subseteq TiedTo(K) /\ A \subseteq B
    BY Reaches
  <2> HIDE DEF A, B
  <2>2. WithFirms(A) \subseteq WithFirms(B)
    BY <2>1, Reaches DEF WithFirms
  <2> QED BY <2>1, <2>2 DEF LedByCandidates, A, B
<1>2. LedByCompanies(J) \subseteq LedByCompanies(K)
  <2> DEFINE A == {j \in Jobs : FirmOf[j] \in FirmsOf(J)}
             B == {j \in Jobs : FirmOf[j] \in FirmsOf(K)}
  <2>1. A \subseteq B
    BY Reaches
  <2> HIDE DEF A, B
  <2>2. TiedTo(A) \subseteq TiedTo(B)
    BY <2>1, Reaches
  <2> QED BY <2>2 DEF LedByCompanies, A, B
<1>3. LedByPipes(J) \subseteq LedByPipes(K)
  <2> DEFINE A == {j \in Jobs : \E k \in J : PipeOf[j] = PipeOf[k]}
             B == {j \in Jobs : \E k \in K : PipeOf[j] = PipeOf[k]}
  <2>1. A \subseteq B
    OBVIOUS
  <2> HIDE DEF A, B
  <2>2. WithFirms(A) \subseteq WithFirms(B)
    BY <2>1, Reaches DEF WithFirms
  <2>3. {PipeOf[j] : j \in J} \subseteq {PipeOf[j] : j \in K}
    OBVIOUS
  <2> QED BY <2>2, <2>3 DEF LedByPipes, A, B
<1> QED BY <1>1, <1>2, <1>3

\* Whatever tool a recruiter's turn calls, and however stale its scope is, the
\* answer reaches no further than the jobs assigned now or less than _SCOPE_TTL plus
\* one turn ago and what these lead to; every job assigned for longer is shown.
THEOREM ToolsFollowScope == ScopeSpec => []ScopeFollows
<1>1. ScopeInit => ScopesLoaded
  BY DEF ScopeInit, ScopesLoaded, Scoped
<1>2. ScopeInv /\ ScopesLoaded => ScopeFollows
  <2> SUFFICES ASSUME ScopeInv, ScopesLoaded, Scoped PROVE ScopeFollows
    BY DEF ScopeFollows
  <2> DEFINE S == scope.jobs
  <2>1. Loaded(scope) /\ scope \in Scopes /\ S \subseteq Jobs /\ turnAge \in 0..LongestTurn /\ keptFor \in [Jobs -> 0..Lag]
        /\ myJobs \subseteq Jobs
    BY DEF ScopeInv, ScopeTypeOK, ScopesLoaded, Scoped, Scopes
  <2>2. \A j \in Jobs : (j \in S) # (j \in myJobs) => keptFor[j] < Lag
    <3> SUFFICES ASSUME NEW j \in Jobs, Differs(scope, j) PROVE keptFor[j] < Lag
      BY DEF Differs
    <3>1. keptFor[j] + 1 <= ScopeTTL + turnAge
      BY DEF ScopeInv, TurnFresh
    <3> QED BY <2>1, <3>1 DEF Lag
  <2>3. S \subseteq Lately /\ Steadily \subseteq S
    BY <2>1, <2>2, LagType DEF Lately, Steadily
  <2> HIDE DEF S
  <2>4. /\ AboutScope(scope) \subseteq TiedTo(S) /\ TiedTo(S) \subseteq AboutScope(scope)
        /\ AboutCandidates(scope) \subseteq LedByCandidates(S) /\ AboutCompanies(scope) \subseteq LedByCompanies(S)
        /\ AboutMe(scope) \subseteq TiedTo(myJobs)
        /\ AboutTeams(scope) \subseteq LedByTeams /\ AboutAnyTeam(scope) \subseteq LedByAnyTeam
        /\ AboutPipes(scope) \subseteq LedByPipes(S)
        /\ _list_pipelines(scope) \subseteq LedByPipes(S) /\ _list_teams(scope) \subseteq LedByTeams
    BY <2>1, ScopeShows, CandidatesShow, CompaniesShow, MineShows, TeamsShow, PipesShow DEF S
  <2>5. /\ TiedTo(S) \subseteq TiedTo(Lately) /\ LedByCandidates(S) \subseteq LedByCandidates(Lately)
        /\ LedByCompanies(S) \subseteq LedByCompanies(Lately) /\ LedByPipes(S) \subseteq LedByPipes(Lately)
        /\ TiedTo(Steadily) \subseteq TiedTo(S)
    BY <2>3, Reaches, LedGrows
  <2>6. AboutSearch(scope) \subseteq TiedTo(S) \cup LedByPipes(S) \cup LedByTeams
    <3>1. _scope_job_filter(scope) \cup _scope_candidate_filter(scope) \subseteq TiedTo(S)
      BY <2>1 DEF _scope_job_filter, _scope_candidate_filter, Loaded, TiedTo, WithFirms, S
    <3> QED BY <2>4, <3>1 DEF AboutSearch, _search_entities, If
  <2> QED BY <2>4, <2>5, <2>6 DEF ScopeFollows
<1> QED BY ScopeInitInv, ScopeNextInv, ScopesLoadedStep, <1>1, <1>2, PTL DEF ScopeSpec

-----------------------------------------------------------------------------
(* The token counters of a user (AiQuota) *)
USE QuotaAssumption

Quotas == [made : BOOLEAN, used_today : Nat, used_month : Nat, day_anchor : Nat, month_anchor : Nat,
           daily_limit : Limits, monthly_limit : MonthLimits]
QuotaTypeOK == /\ row \in Quotas /\ date \in Nat /\ month \in Nat /\ raced \in BOOLEAN
               /\ ask \in [Asks -> {"over", "read", "running", "replied"}]
               /\ copy \in [Asks -> Quotas]
               /\ spentToday \in Nat /\ spentMonth \in Nat /\ spent \in Nat
\* Days and months only begin: no copy is of a later one than the row.
Anchored == /\ row.day_anchor <= date /\ row.month_anchor <= month
            /\ \A t \in Asks : /\ copy[t].day_anchor <= row.day_anchor
                               /\ copy[t].month_anchor <= row.month_anchor
\* A row that is not there yet has no debits, and nobody has a copy of it.
Unused == /\ ~row.made => row.used_today = 0 /\ row.used_month = 0
          /\ \A t \in Asks : copy[t].made => row.made
Highest == Largest(Limits)
HighestMonth == Largest(MonthLimits)
Dearest == Largest(Costs)

\* No counter of the month, in the row or in a copy, is above what was spent.
NothingMadeUp == row.used_month <= spent /\ \A t \in Asks : copy[t].used_month <= spent
\* The row is exact as of its day and its month; nothing was spent in later ones.
Exact == /\ row.day_anchor = date => row.used_today = spentToday
         /\ row.day_anchor # date => spentToday = 0
         /\ row.month_anchor = month => row.used_month = spentMonth
         /\ row.month_anchor # month => spentMonth = 0
\* The turns that are admitted, or will be on what they have read.
Admits(r) == r.used_today + Estimate <= Highest /\ r.used_month + Estimate <= HighestMonth
Admitted == {t \in Asks : \/ ask[t] \in {"running", "replied"}
                          \/ ask[t] = "read" /\ Admits(copy[t])}
\* Above the limit less an estimate a counter grows by the admitted turns alone.
Within(used, limit, A) == used + Dearest * Cardinality(A) <= limit - Estimate + Dearest * Cardinality(Asks)
WithinBoth(r, A) == Within(r.used_today, Highest, A) /\ Within(r.used_month, HighestMonth, A)
Bounded == WithinBoth(row, Admitted)
QuotaInv == QuotaTypeOK /\ Anchored /\ Unused /\ NothingMadeUp /\ (~raced => Exact /\ Bounded)

LEMMA LargestIs == ASSUME NEW S, \E n \in S : \A m \in S : m <= n
                   PROVE  Largest(S) \in S /\ \A m \in S : m <= Largest(S)
BY DEF Largest

LEMMA LargestLimit ==
  ASSUME NEW S \in SUBSET Nat, \E n \in S : n >= Estimate /\ \A m \in S : m <= n
  PROVE  Largest(S) \in Nat /\ Largest(S) >= Estimate /\ \A l \in S : l <= Largest(S)
<1>1. Largest(S) \in S /\ \A l \in S : l <= Largest(S)
  BY LargestIs
<1>2. Largest(S) \in Nat
  BY <1>1
<1>3. PICK n \in S : n >= Estimate
  OBVIOUS
<1>4. n \in Nat /\ n <= Largest(S)
  BY <1>1
<1>5. Largest(S) >= Estimate
  BY <1>2, <1>3, <1>4
<1> QED BY <1>1, <1>2, <1>5

LEMMA Bounds == /\ Highest \in Nat /\ Highest >= Estimate /\ \A l \in Limits : l <= Highest
                /\ HighestMonth \in Nat /\ HighestMonth >= Estimate
                /\ \A l \in MonthLimits : l <= HighestMonth
                /\ Dearest \in Nat /\ \A n \in Costs : n <= Dearest
<1>1. Dearest \in Costs /\ \A n \in Costs : n <= Dearest
  BY LargestIs DEF Dearest
<1> QED BY <1>1, LargestLimit DEF Highest, HighestMonth

LEMMA AdmittedFinite == ASSUME NEW A \in SUBSET Asks
                        PROVE  /\ IsFiniteSet(A) /\ Cardinality(A) \in Nat /\ Cardinality(Asks) \in Nat
                               /\ Cardinality(A) <= Cardinality(Asks)
BY FS_Subset, FS_CardinalityType

\* A day that has just begun, or that is within the limit, is bounded whoever is admitted.
LEMMA WithinIsBounded == ASSUME NEW used \in Nat, NEW limit \in Nat, NEW A \in SUBSET Asks, used + Estimate <= limit
                         PROVE  Within(used, limit, A)
<1> DEFINE a == Cardinality(A)
           n == Cardinality(Asks)
<1>1. a \in Nat /\ n \in Nat /\ a <= n /\ Dearest \in Nat
  BY AdmittedFinite, Bounds
<1> HIDE DEF a, n
<1>2. Dearest * a <= Dearest * n /\ Dearest * a \in Nat /\ Dearest * n \in Nat
  BY <1>1
<1> QED BY <1>1, <1>2 DEF Within, a, n

\* A step after which nobody is admitted who was not, and that debits nothing, keeps the bound.
LEMMA BoundKept ==
  ASSUME NEW used \in Nat, NEW limit \in Nat, NEW A \in SUBSET Asks, NEW B \in SUBSET A, Within(used, limit, A)
  PROVE  Within(used, limit, B)
<1> DEFINE a == Cardinality(A)
           b == Cardinality(B)
           n == Cardinality(Asks)
<1>1. a \in Nat /\ b \in Nat /\ n \in Nat /\ b <= a /\ Dearest \in Nat
  BY AdmittedFinite, Bounds, FS_Subset, FS_CardinalityType
<1>2. used + Dearest * a <= limit - Estimate + Dearest * n
  BY DEF Within
<1> HIDE DEF a, b, n
<1>3. Dearest * b <= Dearest * a /\ Dearest * a \in Nat /\ Dearest * b \in Nat /\ Dearest * n \in Nat
  BY <1>1
<1> QED BY <1>1, <1>2, <1>3 DEF Within, b, n

\* An admitted turn that is debited is admitted no more.
LEMMA DebitBounded ==
  ASSUME NEW used \in Nat, NEW limit \in Nat, NEW A \in SUBSET Asks, NEW t \in A, NEW tokens \in Costs,
         Within(used, limit, A)
  PROVE  Within(used + tokens, limit, A \ {t})
<1> DEFINE a == Cardinality(A)
           b == Cardinality(A \ {t})
           n == Cardinality(Asks)
<1>1. a \in Nat /\ n \in Nat /\ b = a - 1 /\ Dearest \in Nat /\ tokens \in Nat /\ tokens <= Dearest
  BY AdmittedFinite, Bounds, FS_RemoveElement
<1>2. b \in Nat
  BY AdmittedFinite
<1>3. used + Dearest * a <= limit - Estimate + Dearest * n
  BY DEF Within
<1> HIDE DEF a, b, n
<1>4. Dearest * a = Dearest * b + Dearest
  BY <1>1, <1>2
<1>5. Dearest * b \in Nat /\ Dearest * n \in Nat
  BY <1>1, <1>2
<1> QED BY <1>1, <1>3, <1>4, <1>5 DEF Within, b, n

LEMMA AdmitsIsBounded == ASSUME NEW r \in Quotas, Admits(r), NEW A \in SUBSET Asks PROVE WithinBoth(r, A)
BY WithinIsBounded, Bounds DEF Quotas, Admits, WithinBoth

LEMMA BothKept ==
  ASSUME NEW r \in Quotas, NEW A \in SUBSET Asks, NEW B \in SUBSET A, WithinBoth(r, A) PROVE WithinBoth(r, B)
BY BoundKept, Bounds DEF Quotas, WithinBoth

\* The bound is a property of the row and of who is admitted.
LEMMA SameBound == ASSUME row' \in Quotas, WithinBoth(row', Admitted') PROVE Bounded'
BY DEF Bounded, WithinBoth, Within, Dearest, Highest, HighestMonth, Largest

LEMMA QuotaInitInv == QuotaInit => QuotaInv
<1> SUFFICES ASSUME QuotaInit PROVE QuotaInv
  OBVIOUS
<1>1. PICK made \in BOOLEAN, l \in Limits, m \in MonthLimits :
         row = [made |-> made, used_today |-> 0, used_month |-> 0, day_anchor |-> 1,
                month_anchor |-> 1, daily_limit |-> l, monthly_limit |-> m]
  BY DEF QuotaInit
<1>2. row \in Quotas /\ copy = [t \in Asks |-> row] /\ ask = [t \in Asks |-> "over"]
  BY <1>1 DEF QuotaInit, Quotas
<1>3. /\ row.day_anchor = 1 /\ row.month_anchor = 1 /\ row.used_today = 0 /\ row.used_month = 0
      /\ date = 1 /\ month = 1 /\ spent = 0 /\ spentToday = 0 /\ spentMonth = 0 /\ raced = FALSE
  BY <1>1 DEF QuotaInit
<1>4. QuotaTypeOK
  <2>1. copy \in [Asks -> Quotas] /\ ask \in [Asks -> {"over", "read", "running", "replied"}]
    BY ONLY <1>2
  <2> QED BY <1>2, <1>3, <2>1 DEF QuotaTypeOK
<1>5. Anchored /\ Unused /\ NothingMadeUp /\ Exact
  BY <1>2, <1>3 DEF Anchored, Unused, NothingMadeUp, Exact
<1>6. Bounded
  <2>1. Admits(row) /\ Admitted \in SUBSET Asks
    BY <1>3, Bounds DEF Admits, Admitted
  <2> QED BY <1>2, <2>1, AdmitsIsBounded DEF Bounded
<1> QED BY <1>4, <1>5, <1>6 DEF QuotaInv

\* A read of the row: the copy is the row, and it admits only within the limits.
LEMMA ReadsInv ==
  ASSUME QuotaInv, NEW t \in Asks, NEW to \in {"read", "replied"}, Reads(t, to),
         to = "replied" => ask[t] = "running"
  PROVE  QuotaInv'
<1>1. /\ ask' = [ask EXCEPT ![t] = to] /\ copy' = [copy EXCEPT ![t] = row]
      /\ UNCHANGED <<row, date, month, spentToday, spentMonth, spent, raced>>
  BY DEF Reads, debits
<1>2. QuotaTypeOK'
  BY <1>1 DEF QuotaInv, QuotaTypeOK
<1>3. \A u \in Asks : ask'[u] = (IF u = t THEN to ELSE ask[u]) /\ copy'[u] = (IF u = t THEN row ELSE copy[u])
  BY <1>1 DEF QuotaInv, QuotaTypeOK
<1>4. Anchored' /\ Unused' /\ NothingMadeUp'
  <2>1. row.day_anchor <= row.day_anchor /\ row.month_anchor <= row.month_anchor
    BY DEF QuotaInv, QuotaTypeOK, Quotas
  <2> QED BY <1>1, <1>3, <2>1 DEF QuotaInv, NothingMadeUp, Anchored, Unused
<1>5. ~raced => Exact'
  BY <1>1, <1>3 DEF QuotaInv, Exact
<1>6. ASSUME ~raced PROVE WithinBoth(row, Admitted')
  <2>1. row \in Quotas /\ Admitted \in SUBSET Asks /\ Admitted' \in SUBSET Asks
    BY DEF QuotaInv, QuotaTypeOK, Admitted
  <2>2. CASE Admits(row)
    BY <2>1, <2>2, AdmitsIsBounded
  <2>3. CASE ~Admits(row)
    <3>1. Admitted' \subseteq Admitted
      BY <1>3, <2>3 DEF Admitted, Admits, Highest, HighestMonth
    <3> QED BY <1>6, <2>1, <3>1, BothKept DEF QuotaInv, Bounded
  <2> QED BY <2>2, <2>3
<1>7. ~raced => Bounded'
  BY <1>1, <1>2, <1>6, SameBound DEF QuotaTypeOK
<1> QED BY <1>1, <1>2, <1>4, <1>5, <1>7 DEF QuotaInv

\* A row that is created is of today and has no debits.
LEMMA QuotaRowInv == ASSUME QuotaInv, NEW t \in Asks, Create(t) PROVE QuotaInv'
<1> DEFINE day == IF row.made THEN row.day_anchor ELSE date
           mon == IF row.made THEN row.month_anchor ELSE month
           new == [row EXCEPT !.made = TRUE, !.day_anchor = day, !.month_anchor = mon]
           to == IF row.made THEN "over" ELSE ask[t]
<1>1. /\ row' = new /\ copy' = [copy EXCEPT ![t] = new] /\ ask' = [ask EXCEPT ![t] = to]
      /\ UNCHANGED <<date, month, spentToday, spentMonth, spent, raced>>
  BY DEF Create, debits
<1>2. /\ row \in Quotas /\ date \in Nat /\ month \in Nat /\ row.day_anchor <= date /\ row.month_anchor <= month
      /\ ask[t] = "read" /\ to \in {"over", "read"}
  BY DEF Create, QuotaInv, QuotaTypeOK, Anchored
<1>3. /\ day \in Nat /\ mon \in Nat /\ row.day_anchor <= day /\ row.month_anchor <= mon
      /\ day <= date /\ mon <= month
      /\ day \in {row.day_anchor, date} /\ mon \in {row.month_anchor, month}
  BY <1>2 DEF Quotas
<1> HIDE DEF day, mon, to
<1>4. /\ new \in Quotas /\ new.used_today = row.used_today /\ new.used_month = row.used_month
      /\ new.day_anchor = day /\ new.month_anchor = mon
  BY <1>2, <1>3 DEF Quotas
<1> HIDE DEF new
<1>5. QuotaTypeOK'
  BY <1>1, <1>2, <1>4 DEF QuotaInv, QuotaTypeOK
<1>6. \A u \in Asks : /\ copy'[u] = (IF u = t THEN new ELSE copy[u])
                      /\ ask'[u] = (IF u = t THEN to ELSE ask[u])
  BY <1>1 DEF QuotaInv, QuotaTypeOK
<1>7. Anchored'
  <2>1. \A u \in Asks : /\ copy[u].day_anchor \in Nat /\ copy[u].month_anchor \in Nat
                        /\ copy[u].day_anchor <= row.day_anchor /\ copy[u].month_anchor <= row.month_anchor
    BY DEF QuotaInv, QuotaTypeOK, Quotas, Anchored
  <2>2. row.day_anchor \in Nat /\ row.month_anchor \in Nat
    BY <1>2 DEF Quotas
  <2> QED BY <1>1, <1>3, <1>4, <1>6, <2>1, <2>2 DEF Anchored
<1>8. NothingMadeUp' /\ Unused'
  <2>1. new.made
    BY <1>2 DEF Quotas, new
  <2> QED BY <1>1, <1>4, <1>6, <2>1 DEF QuotaInv, NothingMadeUp, Unused
<1>9. ASSUME ~raced PROVE Exact'
  <2>1. CASE row.made
    <3>1. day = row.day_anchor /\ mon = row.month_anchor
      BY <2>1 DEF day, mon
    <3> QED BY <1>1, <1>4, <1>9, <3>1 DEF QuotaInv, Exact
  <2>2. CASE ~row.made
    <3>1. day = date /\ mon = month /\ row.used_today = 0 /\ row.used_month = 0
      BY <2>2 DEF day, mon, QuotaInv, Unused
    <3>2. spentToday = 0 /\ spentMonth = 0
      BY <1>9, <3>1 DEF QuotaInv, Exact
    <3> QED BY <1>1, <1>4, <3>1, <3>2 DEF Exact
  <2> QED BY <2>1, <2>2
<1>10. ASSUME ~raced PROVE Bounded'
  <2>1. row \in Quotas /\ Admitted \in SUBSET Asks /\ Admitted' \in SUBSET Asks /\ WithinBoth(row, Admitted)
    BY <1>10 DEF QuotaInv, QuotaTypeOK, Admitted, Bounded
  <2>2. WithinBoth(new, Admitted')
    <3>1. CASE Admits(new)
      BY <1>4, <2>1, <3>1, AdmitsIsBounded
    <3>2. CASE ~Admits(new)
      <4>1. Admitted' \subseteq Admitted
        BY <1>2, <1>6, <3>2 DEF Admitted, Admits, Highest, HighestMonth
      <4>2. WithinBoth(row, Admitted')
        BY <2>1, <4>1, BothKept
      <4> QED BY <1>4, <4>2 DEF WithinBoth
    <3> QED BY <3>1, <3>2
  <2> QED BY <1>1, <1>4, <2>2, SameBound
<1> QED BY <1>1, <1>5, <1>7, <1>8, <1>9, <1>10 DEF QuotaInv

\* What a rollover makes of the row, from any copy and from the row itself.
LEMMA RolledRow ==
  ASSUME NEW c \in Quotas, NEW r \in Quotas, date \in Nat, month \in Nat
  PROVE  LET new == RolledOver(c, r) IN
         /\ new \in Quotas /\ new.made = r.made
         /\ new.used_today \in {0, r.used_today} /\ new.used_month \in {0, r.used_month}
         /\ new.day_anchor = (IF c.day_anchor # date THEN date ELSE r.day_anchor)
         /\ new.month_anchor = (IF c.month_anchor # month THEN month ELSE r.month_anchor)
         /\ c = r => /\ new.used_today = (IF r.day_anchor # date THEN 0 ELSE r.used_today)
                     /\ new.used_month = (IF r.month_anchor # month THEN 0 ELSE r.used_month)
BY DEF RolledOver, Quotas

LEMMA RolloverInv == ASSUME QuotaInv, NEW t \in Asks, _ensure_row(t) PROVE QuotaInv'
<1> DEFINE c == copy[t]
           new == RolledOver(c, row)
           own == RolledOver(row, row)
<1>1. /\ ask[t] \in {"read", "replied"} /\ c.made /\ row' = new /\ copy' = [copy EXCEPT ![t] = new]
      /\ raced' = (raced \/ new # own)
      /\ UNCHANGED <<date, month, ask, spentToday, spentMonth, spent>>
  BY DEF _ensure_row, Writes, debits
<1>2. /\ c \in Quotas /\ row \in Quotas /\ date \in Nat /\ month \in Nat
      /\ c.day_anchor <= row.day_anchor /\ row.day_anchor <= date
      /\ c.month_anchor <= row.month_anchor /\ row.month_anchor <= month
  BY DEF QuotaInv, QuotaTypeOK, Anchored
<1>3. /\ new \in Quotas /\ new.made = row.made
      /\ new.used_today \in {0, row.used_today} /\ new.used_month \in {0, row.used_month}
      /\ new.day_anchor = (IF c.day_anchor # date THEN date ELSE row.day_anchor)
      /\ new.month_anchor = (IF c.month_anchor # month THEN month ELSE row.month_anchor)
  BY <1>2, RolledRow DEF new
<1>4. new.day_anchor = date /\ new.month_anchor = month
  BY <1>2, <1>3 DEF Quotas
<1>5. new = own => /\ new.used_today = (IF row.day_anchor # date THEN 0 ELSE row.used_today)
                   /\ new.used_month = (IF row.month_anchor # month THEN 0 ELSE row.used_month)
  BY <1>2, RolledRow DEF own
<1> HIDE DEF new, own, c
<1>6. QuotaTypeOK'
  BY <1>1, <1>3 DEF QuotaInv, QuotaTypeOK
<1>7. \A u \in Asks : copy'[u] = IF u = t THEN new ELSE copy[u]
  BY <1>1 DEF QuotaInv, QuotaTypeOK
<1>8. Anchored'
  <2>1. \A u \in Asks : /\ copy[u].day_anchor \in Nat /\ copy[u].month_anchor \in Nat
                        /\ copy[u].day_anchor <= row.day_anchor /\ copy[u].month_anchor <= row.month_anchor
    BY DEF QuotaInv, QuotaTypeOK, Quotas, Anchored
  <2>2. row.day_anchor \in Nat /\ row.month_anchor \in Nat
    BY <1>2 DEF Quotas
  <2> QED BY <1>1, <1>2, <1>4, <1>7, <2>1, <2>2 DEF Anchored
<1>9. Unused' /\ NothingMadeUp'
  <2>1. spent \in Nat /\ 0 <= spent
    BY DEF QuotaInv, QuotaTypeOK
  <2>2. row.made
    BY <1>1 DEF QuotaInv, Unused, c
  <2> QED BY <1>1, <1>3, <1>7, <2>1, <2>2 DEF QuotaInv, Unused, NothingMadeUp
<1>10. ASSUME ~raced' PROVE Exact' /\ Bounded'
  <2>1. /\ ~raced /\ Exact /\ Bounded
        /\ new.used_today = (IF row.day_anchor # date THEN 0 ELSE row.used_today)
        /\ new.used_month = (IF row.month_anchor # month THEN 0 ELSE row.used_month)
    BY <1>1, <1>5, <1>10 DEF QuotaInv
  <2>2. Exact'
    BY <1>1, <1>4, <2>1 DEF Exact
  <2>3. Admitted \in SUBSET Asks /\ Admitted' \in SUBSET Asks
    BY DEF Admitted
  <2>4. WithinBoth(new, Admitted')
    <3>1. CASE Admits(new)
      BY <1>3, <2>3, <3>1, AdmitsIsBounded
    <3>2. CASE ~Admits(new)
      <4>1. Admitted' \in SUBSET Admitted
        BY <1>1, <1>7, <3>2 DEF Admitted, Admits, Highest, HighestMonth
      <4>2. WithinBoth(row, Admitted')
        BY <1>2, <2>1, <2>3, <4>1, BothKept DEF Bounded
      <4>3. Within(0, Highest, Admitted') /\ Within(0, HighestMonth, Admitted')
        BY <2>3, WithinIsBounded, Bounds
      <4> QED BY <1>3, <4>2, <4>3 DEF WithinBoth
    <3> QED BY <3>1, <3>2
  <2> QED BY <1>1, <1>3, <2>2, <2>4, SameBound
<1> QED BY <1>6, <1>8, <1>9, <1>10 DEF QuotaInv

\* Steps that leave the row and the copies alone, and admit nobody who was not.
LEMMA LeavesInv ==
  ASSUME QuotaInv, NEW t \in Asks, NEW to \in {"over", "running"}, ask' = [ask EXCEPT ![t] = to],
         UNCHANGED <<row, date, month, copy, spentToday, spentMonth, spent, raced>>,
         to = "running" => t \in Admitted
  PROVE  QuotaInv'
<1>1. QuotaTypeOK'
  BY DEF QuotaInv, QuotaTypeOK
<1>2. \A u \in Asks : ask'[u] = IF u = t THEN to ELSE ask[u]
  BY DEF QuotaInv, QuotaTypeOK
<1>3. Anchored' /\ Unused' /\ NothingMadeUp' /\ (~raced => Exact')
  BY DEF QuotaInv, Anchored, Unused, NothingMadeUp, Exact
<1>4. Admitted' \in SUBSET Admitted /\ Admitted \in SUBSET Asks
  BY <1>2 DEF Admitted, Admits, Highest, HighestMonth
<1>5. ASSUME ~raced PROVE Bounded'
  <2>1. row \in Quotas /\ WithinBoth(row, Admitted)
    BY <1>5 DEF QuotaInv, QuotaTypeOK, Bounded
  <2>2. WithinBoth(row, Admitted')
    BY <1>4, <2>1, BothKept
  <2> QED BY <2>1, <2>2, SameBound
<1> QED BY <1>1, <1>3, <1>5 DEF QuotaInv

LEMMA CheckInv == ASSUME QuotaInv, NEW t \in Asks, check(t) PROVE QuotaInv'
<1> DEFINE to == IF Exceeds(copy[t]) THEN "over" ELSE "running"
<1>1. /\ ask[t] = "read" /\ ask' = [ask EXCEPT ![t] = to] /\ to \in {"over", "running"}
      /\ UNCHANGED <<row, date, month, copy, spentToday, spentMonth, spent, raced>>
  BY DEF check, debits
<1>2. to = "running" => t \in Admitted
  <2>1. /\ copy[t].daily_limit \in Limits /\ copy[t].used_today \in Nat
        /\ copy[t].monthly_limit \in MonthLimits /\ copy[t].used_month \in Nat
    BY DEF QuotaInv, QuotaTypeOK, Quotas
  <2>2. /\ Highest \in Nat /\ copy[t].daily_limit \in Nat /\ copy[t].daily_limit <= Highest
        /\ HighestMonth \in Nat /\ copy[t].monthly_limit \in Nat /\ copy[t].monthly_limit <= HighestMonth
        /\ Estimate \in Nat
    BY <2>1, Bounds
  <2>3. to = "running" => /\ ~(copy[t].used_today + Estimate > copy[t].daily_limit)
                          /\ ~(copy[t].used_month + Estimate > copy[t].monthly_limit)
    BY DEF Exceeds
  <2> HIDE DEF to
  <2>4. to = "running" => Admits(copy[t])
    BY <2>1, <2>2, <2>3 DEF Admits
  <2> QED BY <1>1, <2>4 DEF Admitted
<1> HIDE DEF to
<1> QED BY <1>1, <1>2, LeavesInv

LEMMA QuotaCommitInv == ASSUME QuotaInv, NEW t \in Asks, NEW tokens \in Costs, commit(t, tokens) PROVE QuotaInv'
<1> DEFINE c == copy[t]
           new == Debited(c, row, tokens)
           own == Debited(row, row, tokens)
<1>1. /\ ask[t] = "replied" /\ c.made /\ row' = new /\ raced' = (raced \/ new # own)
      /\ ask' = [ask EXCEPT ![t] = "over"]
      /\ spentToday' = spentToday + tokens /\ spentMonth' = spentMonth + tokens /\ spent' = spent + tokens
      /\ UNCHANGED <<date, month, copy>>
      /\ c.day_anchor = date /\ c.month_anchor = month
  BY DEF commit, Writes, Ensured, Stale
<1>2. /\ tokens \in Nat /\ c \in Quotas /\ row \in Quotas /\ date \in Nat /\ month \in Nat
      /\ c.day_anchor <= row.day_anchor /\ row.day_anchor <= date
      /\ c.month_anchor <= row.month_anchor /\ row.month_anchor <= month /\ row.made
  BY <1>1 DEF QuotaInv, QuotaTypeOK, Anchored, Unused
<1>3. row.day_anchor = date /\ row.month_anchor = month
  BY <1>1, <1>2 DEF Quotas
<1>4. ASSUME NEW d \in Quotas
      PROVE  LET r == Debited(d, row, tokens) IN
             /\ r \in Quotas /\ r.used_today = d.used_today + tokens /\ r.used_month = d.used_month + tokens
             /\ r.day_anchor = row.day_anchor /\ r.month_anchor = row.month_anchor /\ r.made = row.made
  <2> DEFINE today == d.used_today + tokens
             spentIn == d.used_month + tokens
             half == [row EXCEPT !.used_today = today]
             r == [half EXCEPT !.used_month = spentIn]
  <2>1. today \in Nat /\ spentIn \in Nat
    BY <1>2 DEF Quotas
  <2> HIDE DEF today, spentIn
  <2>2. /\ half \in Quotas /\ half.used_today = today /\ half.day_anchor = row.day_anchor
        /\ half.month_anchor = row.month_anchor /\ half.made = row.made
    BY <1>2, <2>1 DEF Quotas
  <2> HIDE DEF half
  <2>3. /\ r \in Quotas /\ r.used_today = today /\ r.used_month = spentIn
        /\ r.day_anchor = row.day_anchor /\ r.month_anchor = row.month_anchor /\ r.made = row.made
    BY <2>1, <2>2 DEF Quotas
  <2>4. Debited(d, row, tokens) = r
    BY DEF Debited, half, today, spentIn
  <2> QED BY <2>3, <2>4 DEF today, spentIn
<1>5. /\ new \in Quotas /\ new.used_today = c.used_today + tokens /\ new.used_month = c.used_month + tokens
      /\ new.day_anchor = row.day_anchor /\ new.month_anchor = row.month_anchor /\ new.made = row.made
  BY <1>2, <1>4
<1>6. own.used_today = row.used_today + tokens /\ own.used_month = row.used_month + tokens
  BY <1>2, <1>4
<1> HIDE DEF new, own
<1>7. QuotaTypeOK'
  BY <1>1, <1>2, <1>5 DEF QuotaInv, QuotaTypeOK
<1>8. Anchored' /\ Unused'
  BY <1>1, <1>2, <1>5 DEF QuotaInv, Anchored, Unused
<1>9. NothingMadeUp'
  <2>1. spent \in Nat /\ c.used_month \in Nat /\ \A u \in Asks : copy[u].used_month \in Nat
    BY <1>2 DEF QuotaInv, QuotaTypeOK, Quotas
  <2>2. c.used_month <= spent /\ \A u \in Asks : copy[u].used_month <= spent
    BY DEF QuotaInv, NothingMadeUp
  <2>3. c.used_month + tokens <= spent + tokens /\ \A u \in Asks : copy[u].used_month <= spent + tokens
    BY <1>2, <2>1, <2>2
  <2> QED BY <1>1, <1>5, <2>3 DEF NothingMadeUp
<1>10. \A u \in Asks : ask'[u] = IF u = t THEN "over" ELSE ask[u]
  BY <1>1 DEF QuotaInv, QuotaTypeOK
<1>11. ASSUME ~raced' PROVE Exact' /\ Bounded'
  <2>1. /\ ~raced /\ Exact /\ Bounded
        /\ new.used_today = row.used_today + tokens /\ new.used_month = row.used_month + tokens
    BY <1>1, <1>6, <1>11 DEF QuotaInv
  <2>2. Exact'
    BY <1>1, <1>3, <1>5, <2>1 DEF Exact
  <2>3. Admitted' \in SUBSET (Admitted \ {t}) /\ t \in Admitted /\ Admitted \in SUBSET Asks
    BY <1>1, <1>10 DEF Admitted, Admits, Highest, HighestMonth
  <2>4. row.used_today \in Nat /\ row.used_month \in Nat
    BY <1>2 DEF Quotas
  <2>5. /\ Within(row.used_today + tokens, Highest, Admitted \ {t})
        /\ Within(row.used_month + tokens, HighestMonth, Admitted \ {t})
    BY <2>1, <2>3, <2>4, DebitBounded, Bounds DEF Bounded, WithinBoth
  <2>6. WithinBoth(new, Admitted \ {t})
    BY <2>1, <2>5 DEF WithinBoth
  <2>7. WithinBoth(new, Admitted')
    BY <1>5, <2>3, <2>6, BothKept
  <2> QED BY <1>1, <1>5, <2>2, <2>7, SameBound
<1> QED BY <1>7, <1>8, <1>9, <1>11 DEF QuotaInv

\* New limits leave the counters alone.
LEMMA LimitsInv ==
  ASSUME QuotaInv, NEW t \in Asks, NEW l \in Limits, NEW m \in MonthLimits, set_limits(t, l, m) PROVE QuotaInv'
<1> DEFINE new == [row EXCEPT !.daily_limit = l, !.monthly_limit = m]
<1>1. /\ row' = new /\ ask' = [ask EXCEPT ![t] = "over"]
      /\ UNCHANGED <<date, month, copy, spentToday, spentMonth, spent, raced>>
  BY DEF set_limits, debits
<1>2. /\ new \in Quotas /\ new.used_today = row.used_today /\ new.used_month = row.used_month
      /\ new.day_anchor = row.day_anchor /\ new.month_anchor = row.month_anchor /\ new.made = row.made
  BY DEF QuotaInv, QuotaTypeOK, Quotas
<1> HIDE DEF new
<1>3. QuotaTypeOK'
  BY <1>1, <1>2 DEF QuotaInv, QuotaTypeOK
<1>4. Anchored' /\ Unused' /\ NothingMadeUp' /\ (~raced => Exact')
  BY <1>1, <1>2 DEF QuotaInv, Anchored, Unused, NothingMadeUp, Exact
<1>5. Admitted' \in SUBSET Admitted /\ Admitted \in SUBSET Asks
  <2>1. \A u \in Asks : ask'[u] = IF u = t THEN "over" ELSE ask[u]
    BY <1>1 DEF QuotaInv, QuotaTypeOK
  <2> QED BY <1>1, <2>1 DEF Admitted, Admits, Highest, HighestMonth
<1>6. ASSUME ~raced PROVE Bounded'
  <2>1. WithinBoth(row, Admitted) /\ row \in Quotas
    BY <1>6 DEF QuotaInv, QuotaTypeOK, Bounded
  <2>2. WithinBoth(row, Admitted')
    BY <1>5, <2>1, BothKept
  <2>3. WithinBoth(new, Admitted')
    BY <1>2, <2>2 DEF WithinBoth
  <2> QED BY <1>1, <1>2, <2>3, SameBound
<1> QED BY <1>1, <1>3, <1>4, <1>6 DEF QuotaInv

LEMMA MidnightInv == ASSUME QuotaInv, Midnight PROVE QuotaInv'
<1>1. /\ date' = date + 1 /\ spentToday' = 0 /\ UNCHANGED <<row, ask, copy, spent, raced>>
      /\ \/ month' = month + 1 /\ spentMonth' = 0
         \/ month' = month /\ spentMonth' = spentMonth
  BY DEF Midnight
<1>2. /\ row \in Quotas /\ date \in Nat /\ month \in Nat /\ row.day_anchor <= date /\ row.month_anchor <= month
  BY DEF QuotaInv, QuotaTypeOK, Anchored
<1>3. QuotaTypeOK' /\ NothingMadeUp' /\ Unused'
  BY <1>1 DEF QuotaInv, QuotaTypeOK, NothingMadeUp, Unused
<1>4. /\ row.day_anchor \in Nat /\ row.day_anchor # date' /\ row.day_anchor <= date'
      /\ row.month_anchor \in Nat /\ row.month_anchor <= month' /\ (month' # month => row.month_anchor # month')
  BY <1>1, <1>2 DEF Quotas
<1>5. Anchored'
  BY <1>1, <1>4 DEF QuotaInv, Anchored
<1>6. ~raced => Exact'
  <2>1. month' = month + 1 => month' # month
    BY <1>2
  <2> QED BY <1>1, <1>4, <2>1 DEF QuotaInv, Exact
<1>7. ~raced => Bounded'
  <2>1. Admitted' = Admitted
    BY <1>1 DEF Admitted, Admits, Highest, HighestMonth
  <2> QED BY <1>1, <1>2, <2>1, SameBound DEF QuotaInv, Bounded
<1> QED BY <1>1, <1>3, <1>5, <1>6, <1>7 DEF QuotaInv
-----------------------------------------------------------------------------
LEMMA QuotaStepInv == QuotaInv /\ [QuotaNext]_quotaVars => QuotaInv'
<1> SUFFICES ASSUME QuotaInv, [QuotaNext]_quotaVars PROVE QuotaInv'
  OBVIOUS
<1>1. ASSUME NEW t \in Asks, \/ Ask(t) \/ Create(t) \/ _ensure_row(t) \/ check(t)
                             \/ status_for(t) \/ Reply(t) \/ Dies(t) PROVE QuotaInv'
  <2>1. CASE Ask(t)
    BY <2>1, ReadsInv DEF Ask
  <2>2. CASE Reply(t)
    BY <2>2, ReadsInv DEF Reply
  <2>3. CASE status_for(t)
    BY <2>3, LeavesInv DEF status_for, debits
  <2>4. CASE Dies(t)
    BY <2>4, LeavesInv DEF Dies, debits
  <2> QED BY <1>1, <2>1, <2>2, <2>3, <2>4, QuotaRowInv, RolloverInv, CheckInv
<1>2. ASSUME NEW t \in Asks, NEW tokens \in Costs, commit(t, tokens) PROVE QuotaInv'
  BY <1>2, QuotaCommitInv
<1>3. ASSUME NEW t \in Asks, NEW l \in Limits, NEW m \in MonthLimits, set_limits(t, l, m) PROVE QuotaInv'
  BY <1>3, LimitsInv
<1>4. CASE UNCHANGED quotaVars
  <2>1. UNCHANGED <<row, date, month, ask, copy, spentToday, spentMonth, spent, raced>>
    BY <1>4 DEF quotaVars
  <2>2. QuotaTypeOK' /\ Anchored' /\ Unused' /\ NothingMadeUp'
    BY <2>1 DEF QuotaInv, QuotaTypeOK, Anchored, Unused, NothingMadeUp
  <2>3. ~raced => Exact'
    BY <2>1 DEF QuotaInv, Exact
  <2>4. Admitted' = Admitted
    BY <2>1 DEF Admitted, Admits, Highest, HighestMonth
  <2>5. ~raced => Bounded'
    BY <2>1, <2>2, <2>4, SameBound DEF QuotaInv, QuotaTypeOK, Bounded
  <2> QED BY <2>1, <2>2, <2>3, <2>5 DEF QuotaInv
<1> QED BY <1>1, <1>2, <1>3, <1>4, MidnightInv DEF QuotaNext

(* quota.py: for every number of concurrent turns, over midnight and the    *)
(* end of a month, the counters are exact as long as no turn writes from a  *)
(* copy that another write has made old, and then they pass the highest     *)
(* limits at most by what the turns of the moment use beyond one estimate.  *)
THEOREM QuotaHolds == QuotaSpec => []QuotaExplained
<1>1. QuotaInv => QuotaExplained
  <2> SUFFICES ASSUME QuotaInv PROVE QuotaExplained
    OBVIOUS
  <2>1. row.used_month <= spent
    BY DEF QuotaInv, NothingMadeUp
  <2>2. ASSUME ~raced PROVE /\ row.used_today <= AtMost(Highest) /\ row.used_month <= AtMost(HighestMonth)
    <3> DEFINE a == Cardinality(Admitted)
               n == Cardinality(Asks)
    <3>1. /\ row.used_today + Dearest * a <= Highest - Estimate + Dearest * n
          /\ row.used_month + Dearest * a <= HighestMonth - Estimate + Dearest * n
      BY <2>2 DEF QuotaInv, Bounded, WithinBoth, Within
    <3>2. Admitted \in SUBSET Asks /\ row.used_today \in Nat /\ row.used_month \in Nat
      BY DEF Admitted, QuotaInv, QuotaTypeOK, Quotas
    <3>3. a \in Nat /\ n \in Nat /\ Dearest \in Nat /\ Highest \in Nat /\ HighestMonth \in Nat
      BY <3>2, AdmittedFinite, Bounds
    <3> HIDE DEF a, n
    <3>4. Dearest * a \in Nat /\ Dearest * n \in Nat /\ n * Dearest = Dearest * n
      BY <3>3
    <3>5. /\ row.used_today <= Highest - Estimate + n * Dearest
          /\ row.used_month <= HighestMonth - Estimate + n * Dearest
      BY <3>1, <3>2, <3>3, <3>4
    <3> QED BY <3>5 DEF n, AtMost, Dearest
  <2>3. ~raced => Exact
    BY DEF QuotaInv
  <2> QED BY <2>1, <2>2, <2>3 DEF QuotaExplained, Exact, Highest, HighestMonth
<1> QED BY <1>1, QuotaInitInv, QuotaStepInv, PTL DEF QuotaSpec
-----------------------------------------------------------------------------
(* Reports, alerts and approvals (AiSchedules) *)
USE ItemsAssumption

ItemRows == [state : {"new", "asking", "kept", "gone"}, own : BOOLEAN, active : BOOLEAN, due : Nat]
Turns == [of : Items, due : Nat]
ItemRuns == [items : {{}, Reports, Alerts}, base : Nat, todo : SUBSET Turns, doing : SUBSET Items]
Verdicts == {"approved", "declined"}
ItemsTypeOK == /\ item \in [Items -> ItemRows]
               /\ approval \in [Items -> {"none", "pending", "approved", "declined", "expired"}]
               /\ verdicts \in [Items -> SUBSET Verdicts]
               /\ now \in 0..Horizon /\ lock \subseteq {Reports, Alerts}
               /\ run \in [Runners -> ItemRuns]
               /\ answered \in [Items -> SUBSET Nat]
\* An approval exists only for an item that asked for it; it expires with the item.
Approvals == \A i \in Items :
  /\ item[i].state = "new" => ~item[i].active
  /\ item[i].state \in {"new", "asking"} => approval[i] = "none" /\ verdicts[i] = {}
  /\ approval[i] = "expired" => item[i].state = "gone"
\* A run holds items of its kind that exist, each once, and takes them one by one.
RunsOwn == \A w \in Runners :
  /\ \A t \in run[w].todo : t.of \in run[w].items /\ t.due <= run[w].base /\ item[t.of].state # "new"
  /\ \A t, u \in run[w].todo : t.of = u.of => t = u
  /\ \A i \in run[w].doing : i \in run[w].items /\ item[i].state # "new"
  /\ \A i, j \in run[w].doing : i = j
\* Until a run outlives its lock there is one run of a kind, of the present interval.
OneRun == \A w \in Runners : \A i \in run[w].items \ outlived :
  run[w].base = now /\ run[w].items \in lock /\ \A v \in Runners : i \in run[v].items => v = w
\* What was answered is over: the next occurrence comes later, and is none of those.
AnswersPast == \A i \in Items \ (outlived \cup unrecorded) :
  /\ \A a \in answered[i] : a <= now
  /\ Present(i) /\ (\A w \in Runners : i \notin run[w].doing) => \A a \in answered[i] : a < item[i].due
  /\ item[i].state = "new" => answered[i] = {}
  /\ i \in Reports => \A w \in Runners : \A t \in run[w].todo : t.of = i => t.due \notin answered[i]
ItemsInv == ItemsTypeOK /\ Approvals /\ ActiveExplained /\ RunsOwn /\ OneRun /\ AnswersPast /\ FiresExplained

LEMMA NextIsLater == ASSUME NEW t \in Nat PROVE _next_run_at(t) \in Nat /\ t < _next_run_at(t)
<1> DEFINE q == t \div Period
<1>1. q \in Nat
  OBVIOUS
<1>2. t < Period * (q + 1)
  OBVIOUS
<1> HIDE DEF q
<1>3. (q + 1) * Period = Period * (q + 1) /\ (q + 1) * Period \in Nat
  BY <1>1
<1> QED BY <1>2, <1>3 DEF _next_run_at, q

LEMMA ItemsInitInv == SchedulesInit => ItemsInv
<1> SUFFICES ASSUME SchedulesInit PROVE ItemsInv
  OBVIOUS
<1>1. Never \in Nat
  BY DEF Never
<1>2. \A i \in Items : item[i] \in ItemRows /\ item[i].state = "new" /\ ~item[i].active
  BY <1>1 DEF SchedulesInit, ItemRows
<1>3. item \in [Items -> ItemRows] /\ run \in [Runners -> ItemRuns]
  BY <1>1 DEF SchedulesInit, ItemRows, ItemRuns, NoRun, Turns
<1>4. ItemsTypeOK
  BY <1>3 DEF SchedulesInit, ItemsTypeOK, Verdicts
<1> QED BY <1>2, <1>4 DEF SchedulesInit, ItemsInv, Approvals, ActiveExplained, RunsOwn, OneRun, AnswersPast,
                          FiresExplained, Present, NoRun

LEMMA ActivatedType == ASSUME ItemsInv, NEW i \in Items
  PROVE  /\ Activated(i) \in ItemRows /\ Activated(i).state = item[i].state /\ Activated(i).own = item[i].own
         /\ Activated(i).active /\ (i \notin Reports => Activated(i).due = item[i].due)
         /\ i \in Reports => now < Activated(i).due
<1>1. item[i] \in ItemRows /\ now \in Nat
  BY DEF ItemsInv, ItemsTypeOK
<1>2. _next_run_at(now) \in Nat /\ now < _next_run_at(now)
  BY <1>1, NextIsLater
<1> QED BY <1>1, <1>2 DEF Activated, ItemRows

\* What owners and approvers do to a row leaves what was answered in the past.
LEMMA RowsKeepFiring ==
  ASSUME ItemsInv, UNCHANGED runsVars, now' = now, NEW i \in Items, NEW r \in ItemRows, item' = [item EXCEPT ![i] = r],
         r.state = "new" => item[i].state = "new",
         r.state \in {"asking", "kept"} => \/ item[i].state = "new" \/ now < r.due
                                           \/ Present(i) /\ r.due = item[i].due
  PROVE  item' \in [Items -> ItemRows] /\ RunsOwn' /\ OneRun' /\ AnswersPast' /\ FiresExplained'
<1>1. /\ item' \in [Items -> ItemRows] /\ item'[i] = r
      /\ \A j \in Items \ {i} : item'[j] = item[j]
  BY DEF ItemsInv, ItemsTypeOK
<1>2. UNCHANGED <<lock, run, answered, doubled, outlived, unrecorded>>
  BY DEF runsVars
<1>3. RunsOwn'
  <2>1. \A j \in Items : item[j].state # "new" => item'[j].state # "new"
    BY <1>1
  <2>2. \A w \in Runners : (\A t \in run[w].todo : t.of \in Items) /\ \A j \in run[w].doing : j \in Items
    BY DEF ItemsInv, ItemsTypeOK, ItemRuns, Turns
  <2> QED BY <1>2, <2>1, <2>2 DEF ItemsInv, RunsOwn
<1>4. OneRun' /\ FiresExplained'
  BY <1>2 DEF ItemsInv, OneRun, FiresExplained
<1>5. AnswersPast'
  <2> SUFFICES ASSUME NEW j \in Items \ (outlived \cup unrecorded)
               PROVE  /\ \A a \in answered[j] : a <= now
                      /\ Present(j)' /\ (\A w \in Runners : j \notin run[w].doing) => \A a \in answered[j] : a < item'[j].due
                      /\ item'[j].state = "new" => answered[j] = {}
                      /\ j \in Reports => \A w \in Runners : \A t \in run[w].todo : t.of = j => t.due \notin answered[j]
    BY <1>2 DEF AnswersPast
  <2>1. CASE j # i
    BY <1>1, <2>1 DEF ItemsInv, AnswersPast, Present
  <2>2. CASE j = i
    <3>1. answered[i] \in SUBSET Nat /\ now \in Nat /\ r.due \in Nat
      BY DEF ItemsInv, ItemsTypeOK, ItemRows
    <3>2. Present(i)' => r.state \in {"asking", "kept"}
      BY <1>1 DEF Present
    <3> QED BY <1>1, <2>2, <3>1, <3>2 DEF ItemsInv, AnswersPast
  <2> QED BY <2>1, <2>2
<1> QED BY <1>1, <1>3, <1>4, <1>5

\* Of a row's change only what it means for the approval is left to show.
LEMMA RowInv ==
  ASSUME ItemsInv, UNCHANGED runsVars, now' = now, NEW i \in Items, NEW r \in ItemRows, item' = [item EXCEPT ![i] = r],
         r.state = "new" => item[i].state = "new",
         r.state \in {"asking", "kept"} => \/ item[i].state = "new" \/ now < r.due
                                           \/ Present(i) /\ r.due = item[i].due,
         approval' \in [Items -> {"none", "pending", "approved", "declined", "expired"}],
         verdicts' \in [Items -> SUBSET Verdicts],
         \A j \in Items \ {i} : approval'[j] = approval[j] /\ verdicts'[j] = verdicts[j],
         bypass \subseteq bypass',
         r.state = "new" => ~r.active,
         r.state \in {"new", "asking"} => approval'[i] = "none" /\ verdicts'[i] = {},
         approval'[i] = "expired" => r.state = "gone",
         r.state \in {"asking", "kept"} /\ r.active /\ ~r.own /\ approval'[i] # "approved"
           => \E why \in {"none", "declined", "contested"} : <<i, why>> \in bypass'
  PROVE  ItemsInv'
<1>1. item' \in [Items -> ItemRows] /\ RunsOwn' /\ OneRun' /\ AnswersPast' /\ FiresExplained'
  BY RowsKeepFiring
<1>2. item'[i] = r /\ \A j \in Items \ {i} : item'[j] = item[j]
  BY DEF ItemsInv, ItemsTypeOK
<1>3. ItemsTypeOK'
  <2>1. UNCHANGED <<lock, run, answered>>
    BY DEF runsVars
  <2> QED BY <1>1, <2>1 DEF ItemsInv, ItemsTypeOK
<1>4. Approvals'
  <2> SUFFICES ASSUME NEW j \in Items
               PROVE  /\ item'[j].state = "new" => ~item'[j].active
                      /\ item'[j].state \in {"new", "asking"} => approval'[j] = "none" /\ verdicts'[j] = {}
                      /\ approval'[j] = "expired" => item'[j].state = "gone"
    BY DEF Approvals
  <2>1. CASE j = i
    BY <1>2, <2>1
  <2>2. CASE j # i
    BY <1>2, <2>2 DEF ItemsInv, Approvals
  <2> QED BY <2>1, <2>2
<1>5. ActiveExplained'
  <2> SUFFICES ASSUME NEW j \in Items, Present(j)', item'[j].active, ~item'[j].own, approval'[j] # "approved"
               PROVE  \E why \in {"none", "declined", "contested"} : <<j, why>> \in bypass'
    BY DEF ActiveExplained
  <2>1. CASE j = i
    BY <1>2, <2>1 DEF Present
  <2>2. CASE j # i
    BY <1>2, <2>2 DEF ItemsInv, ActiveExplained, Present
  <2> QED BY <2>1, <2>2
<1> QED BY <1>1, <1>3, <1>4, <1>5 DEF ItemsInv

LEMMA CreateInv == ASSUME ItemsInv, UNCHANGED runsVars, now' = now, NEW i \in Items, create(i) PROVE ItemsInv'
<1>1. item[i] \in ItemRows /\ item[i].state = "new" /\ ~item[i].active /\ approval[i] = "none" /\ verdicts[i] = {}
  BY DEF ItemsInv, ItemsTypeOK, Approvals, create
<1>2. UNCHANGED <<approval, verdicts, bypass>>
  BY DEF create
<1>3. Never \in Nat
  BY DEF Never
<1>4. [item[i] EXCEPT !.state = "asking", !.due = IF i \in Reports THEN Never ELSE 0].own = item[i].own
  BY <1>1 DEF ItemRows
<1>5. /\ approval' \in [Items -> {"none", "pending", "approved", "declined", "expired"}]
      /\ verdicts' \in [Items -> SUBSET Verdicts]
  BY <1>2 DEF ItemsInv, ItemsTypeOK
<1>6. CASE item[i].own
  <2> DEFINE a == Activated(i)
             b == IF i \in Reports THEN a.due ELSE 0
             r == [a EXCEPT !.state = "kept", !.due = IF i \in Reports THEN @ ELSE 0]
  <2>1. item' = [item EXCEPT ![i] = r]
    BY <1>6, <1>4 DEF create
  <2>2. a \in ItemRows /\ a.own
    BY <1>6, ActivatedType
  <2> HIDE DEF a
  <2>3. b \in Nat /\ r = [a EXCEPT !.state = "kept", !.due = b]
    BY <2>2 DEF ItemRows
  <2> HIDE DEF b, r
  <2>4. r \in ItemRows /\ r.state = "kept" /\ r.own
    BY <2>2, <2>3 DEF ItemRows
  <2>5. approval'[i] = "none" /\ r.state \notin {"new", "asking"} /\ ~(r.active /\ ~r.own)
    BY <1>1, <1>2, <2>4
  <2>6. \A j \in Items \ {i} : approval'[j] = approval[j] /\ verdicts'[j] = verdicts[j]
    BY <1>2
  <2> QED BY <1>1, <1>2, <1>5, <2>1, <2>4, <2>5, <2>6, RowInv
<1>7. CASE ~item[i].own
  <2> DEFINE due == IF i \in Reports THEN Never ELSE 0
             r == [item[i] EXCEPT !.state = "asking", !.due = due]
  <2>1. item' = [item EXCEPT ![i] = r]
    BY <1>7, <1>4 DEF create
  <2>2. due \in Nat
    BY <1>3
  <2> HIDE DEF due
  <2>3. r \in ItemRows /\ r.state = "asking" /\ ~r.active
    BY <1>1, <2>2 DEF ItemRows
  <2>4. approval'[i] = "none" /\ verdicts'[i] = {}
    BY <1>1, <1>2
  <2>5. \A j \in Items \ {i} : approval'[j] = approval[j] /\ verdicts'[j] = verdicts[j]
    BY <1>2
  <2> HIDE DEF r
  <2> QED BY <1>1, <1>2, <1>5, <2>1, <2>3, <2>4, <2>5, RowInv
<1> QED BY <1>6, <1>7

LEMMA AskInv == ASSUME ItemsInv, UNCHANGED runsVars, now' = now, NEW i \in Items, AskApproval(i) \/ AskNothing(i)
  PROVE ItemsInv'
<1> DEFINE r == [item[i] EXCEPT !.state = "kept"]
<1>1. item[i] \in ItemRows /\ item[i].state = "asking" /\ approval[i] = "none" /\ verdicts[i] = {} /\ Present(i)
  BY DEF ItemsInv, ItemsTypeOK, Approvals, AskApproval, AskNothing, Present
<1>2. item' = [item EXCEPT ![i] = r] /\ UNCHANGED <<verdicts, bypass>>
  BY DEF AskApproval, AskNothing
<1>3. r \in ItemRows /\ r.state = "kept" /\ r.own = item[i].own /\ r.active = item[i].active /\ r.due = item[i].due
  BY <1>1 DEF ItemRows
<1>4. /\ approval' \in [Items -> {"none", "pending", "approved", "declined", "expired"}]
      /\ verdicts' \in [Items -> SUBSET Verdicts]
      /\ approval'[i] \in {"none", "pending"}
      /\ \A j \in Items \ {i} : approval'[j] = approval[j]
  BY <1>1, <1>2 DEF ItemsInv, ItemsTypeOK, AskApproval, AskNothing
<1>5. item[i].active /\ ~item[i].own => \E why \in {"none", "declined", "contested"} : <<i, why>> \in bypass
  BY <1>1 DEF ItemsInv, ActiveExplained
<1> HIDE DEF r
<1> QED BY <1>1, <1>2, <1>3, <1>4, <1>5, RowInv

LEMMA ResumeInv == ASSUME ItemsInv, UNCHANGED runsVars, now' = now, NEW i \in Items, resume(i) PROVE ItemsInv'
<1> DEFINE r == Activated(i)
<1>1. item[i] \in ItemRows /\ Present(i) /\ approval[i] \in {"none", "approved", "declined"}
  BY DEF ItemsInv, ItemsTypeOK, Approvals, resume, Present, MayResume, AwaitsApproval
<1>2. item' = [item EXCEPT ![i] = r] /\ UNCHANGED <<approval, verdicts>>
  BY DEF resume
<1>3. /\ r \in ItemRows /\ r.state = item[i].state /\ r.own = item[i].own
      /\ (now < r.due \/ r.due = item[i].due)
  BY ActivatedType
<1>4. /\ approval' \in [Items -> {"none", "pending", "approved", "declined", "expired"}]
      /\ verdicts' \in [Items -> SUBSET Verdicts]
  BY <1>2 DEF ItemsInv, ItemsTypeOK
<1>5. bypass \subseteq bypass' /\ (~item[i].own /\ approval[i] # "approved" => <<i, approval[i]>> \in bypass')
  BY DEF resume
<1>6. /\ item[i].state \in {"new", "asking"} => approval[i] = "none" /\ verdicts[i] = {}
      /\ item[i].state # "new" /\ approval[i] # "expired"
  BY <1>1 DEF ItemsInv, Approvals, Present
<1> HIDE DEF r
<1>7. r.state \in {"asking", "kept"} /\ r.active /\ ~r.own /\ approval'[i] # "approved"
        => \E why \in {"none", "declined", "contested"} : <<i, why>> \in bypass'
  <2> SUFFICES ASSUME ~item[i].own, approval[i] # "approved"
               PROVE  \E why \in {"none", "declined", "contested"} : <<i, why>> \in bypass'
    BY <1>2, <1>3
  <2>1. approval[i] \in {"none", "declined"} /\ <<i, approval[i]>> \in bypass'
    BY <1>1, <1>5
  <2> QED BY <2>1
<1>8. /\ \A j \in Items \ {i} : approval'[j] = approval[j] /\ verdicts'[j] = verdicts[j]
      /\ now < r.due \/ (Present(i) /\ r.due = item[i].due)
      /\ r.state # "new" /\ approval'[i] # "expired"
      /\ r.state \in {"new", "asking"} => approval'[i] = "none" /\ verdicts'[i] = {}
  BY <1>1, <1>2, <1>3, <1>6
<1> QED BY <1>2, <1>3, <1>4, <1>5, <1>7, <1>8, RowInv

LEMMA PauseInv == ASSUME ItemsInv, UNCHANGED runsVars, now' = now, NEW i \in Items, pause(i) PROVE ItemsInv'
<1> DEFINE r == [item[i] EXCEPT !.active = FALSE]
<1>1. item[i] \in ItemRows /\ Present(i)
  BY DEF ItemsInv, ItemsTypeOK, pause
<1>2. item' = [item EXCEPT ![i] = r] /\ UNCHANGED <<approval, verdicts, bypass>>
  BY DEF pause
<1>3. r \in ItemRows /\ r.state = item[i].state /\ ~r.active /\ r.due = item[i].due
  BY <1>1 DEF ItemRows
<1>4. /\ approval' \in [Items -> {"none", "pending", "approved", "declined", "expired"}]
      /\ verdicts' \in [Items -> SUBSET Verdicts]
  BY <1>2 DEF ItemsInv, ItemsTypeOK
<1>5. /\ item[i].state \in {"new", "asking"} => approval[i] = "none" /\ verdicts[i] = {}
      /\ item[i].state # "new" /\ approval[i] # "expired"
  BY <1>1 DEF ItemsInv, Approvals, Present
<1> HIDE DEF r
<1> QED BY <1>1, <1>2, <1>3, <1>4, <1>5, RowInv

LEMMA DeleteInv == ASSUME ItemsInv, UNCHANGED runsVars, now' = now, NEW i \in Items, delete(i) PROVE ItemsInv'
<1> DEFINE r == [item[i] EXCEPT !.state = "gone"]
<1>1. item[i] \in ItemRows
  BY DEF ItemsInv, ItemsTypeOK
<1>2. item' = [item EXCEPT ![i] = r] /\ UNCHANGED <<verdicts, bypass>>
  BY DEF delete
<1>3. r \in ItemRows /\ r.state = "gone"
  BY <1>1 DEF ItemRows
<1>4. /\ approval' \in [Items -> {"none", "pending", "approved", "declined", "expired"}]
      /\ verdicts' \in [Items -> SUBSET Verdicts]
      /\ \A j \in Items \ {i} : approval'[j] = approval[j]
  BY <1>2 DEF ItemsInv, ItemsTypeOK, delete
<1> HIDE DEF r
<1> QED BY <1>2, <1>3, <1>4, RowInv

LEMMA DecideInv == ASSUME ItemsInv, UNCHANGED runsVars, now' = now, NEW i \in Items, NEW v \in Verdicts, decide(i, v)
  PROVE ItemsInv'
<1> DEFINE r == item[i]
<1>1. item[i] \in ItemRows /\ item[i].state \notin {"new", "asking"} /\ approval[i] = "pending"
  BY DEF ItemsInv, ItemsTypeOK, Approvals, decide, AwaitsApproval, ItemRows
<1>2. UNCHANGED <<item, approval, bypass>> /\ item' = [item EXCEPT ![i] = r]
  BY DEF decide, ItemsInv, ItemsTypeOK
<1>3. /\ approval' \in [Items -> {"none", "pending", "approved", "declined", "expired"}]
      /\ verdicts' \in [Items -> SUBSET Verdicts]
      /\ \A j \in Items \ {i} : verdicts'[j] = verdicts[j]
  BY <1>2 DEF ItemsInv, ItemsTypeOK, decide
<1>4. r.state \in {"asking", "kept"} /\ r.active /\ ~r.own /\ approval'[i] # "approved"
        => \E why \in {"none", "declined", "contested"} : <<i, why>> \in bypass'
  BY <1>2 DEF ItemsInv, ActiveExplained, Present
<1>5. r.state \in {"asking", "kept"} => Present(i)
  BY DEF Present
<1> HIDE DEF r
<1>6. r.state \notin {"new", "asking"} /\ r \in ItemRows /\ r = item[i]
  BY <1>1 DEF r
<1> QED BY <1>1, <1>2, <1>3, <1>4, <1>5, <1>6, RowInv

LEMMA DecidedInv == ASSUME ItemsInv, UNCHANGED runsVars, now' = now, NEW i \in Items, NEW v \in Verdicts, Decided(i, v)
  PROVE ItemsInv'
<1>1. item[i] \in ItemRows /\ item[i].state \in {"kept", "gone"}
  BY DEF ItemsInv, ItemsTypeOK, Approvals, Decided, ItemRows
<1>2. /\ verdicts' \in [Items -> SUBSET Verdicts]
      /\ \A j \in Items \ {i} : verdicts'[j] = verdicts[j]
  BY DEF ItemsInv, ItemsTypeOK, Decided
<1>3. approval \in [Items -> {"none", "pending", "approved", "declined", "expired"}] /\ item \in [Items -> ItemRows]
  BY DEF ItemsInv, ItemsTypeOK
<1>4. CASE UNCHANGED <<item, approval, bypass>> /\ item[i].state = "gone"
  <2> DEFINE r == item[i]
  <2>1. item' = [item EXCEPT ![i] = r] /\ r \in ItemRows /\ r.state = "gone"
    BY <1>1, <1>3, <1>4
  <2> HIDE DEF r
  <2> QED BY <1>2, <1>3, <1>4, <2>1, RowInv
<1>5. CASE /\ v = "approved" => item[i].state # "gone"
           /\ approval' = [approval EXCEPT ![i] = v]
           /\ item' = [item EXCEPT ![i] = IF v = "approved" THEN Activated(i) ELSE @]
           /\ bypass' = IF AwaitsApproval(i) THEN bypass ELSE bypass \cup {<<i, "contested">>}
  <2> DEFINE r == IF v = "approved" THEN Activated(i) ELSE item[i]
  <2>1. item' = [item EXCEPT ![i] = r]
    BY <1>3, <1>5
  <2>2. /\ r \in ItemRows /\ r.state = item[i].state /\ r.own = item[i].own
        /\ (now < r.due \/ r.due = item[i].due) /\ (v # "approved" => r.active = item[i].active)
    BY <1>1, ActivatedType
  <2>3. /\ approval' \in [Items -> {"none", "pending", "approved", "declined", "expired"}]
        /\ approval'[i] = v /\ v \in {"approved", "declined"} /\ \A j \in Items \ {i} : approval'[j] = approval[j]
    BY <1>3, <1>5 DEF Verdicts
  <2>4. /\ bypass \subseteq bypass'
        /\ item[i].state = "kept" /\ item[i].active /\ ~item[i].own /\ v # "approved"
             => \E why \in {"none", "declined", "contested"} : <<i, why>> \in bypass'
    <3>1. CASE AwaitsApproval(i)
      BY <1>5, <3>1 DEF ItemsInv, ActiveExplained, Present, AwaitsApproval
    <3>2. CASE ~AwaitsApproval(i)
      BY <1>5, <3>2
    <3> QED BY <3>1, <3>2
  <2>5. item[i].state = "kept" => Present(i)
    BY DEF Present
  <2> HIDE DEF r
  <2>6. /\ r.state = "kept" \/ r.state = "gone"
        /\ approval'[i] # "expired" /\ approval'[i] = v
    BY <1>1, <2>2, <2>3
  <2>7. r.state \in {"asking", "kept"} /\ r.active /\ ~r.own /\ approval'[i] # "approved"
          => \E why \in {"none", "declined", "contested"} : <<i, why>> \in bypass'
    <3> SUFFICES ASSUME r.state = "kept", r.active, ~r.own, approval'[i] # "approved"
                 PROVE  \E why \in {"none", "declined", "contested"} : <<i, why>> \in bypass'
      BY <2>6
    <3> QED BY <2>2, <2>4, <2>6
  <2>8. r.state \in {"asking", "kept"} => now < r.due \/ (Present(i) /\ r.due = item[i].due)
    BY <2>2, <2>5, <2>6
  <2>9. /\ r.state # "new" /\ r.state # "asking" /\ bypass \subseteq bypass'
        /\ \A j \in Items \ {i} : approval'[j] = approval[j] /\ verdicts'[j] = verdicts[j]
    BY <1>2, <2>3, <2>4, <2>6
  <2>10. r \in ItemRows /\ approval' \in [Items -> {"none", "pending", "approved", "declined", "expired"}]
    BY <2>2, <2>3
  <2> QED BY <1>2, <2>1, <2>6, <2>7, <2>8, <2>9, <2>10, RowInv
<1> QED BY <1>4, <1>5 DEF Decided

LEMMA RowsStepInv == ASSUME ItemsInv, RowsStep, UNCHANGED <<runsVars, now>> PROVE ItemsInv'
<1>1. PICK i \in Items : \/ create(i) \/ AskApproval(i) \/ AskNothing(i) \/ resume(i) \/ pause(i) \/ delete(i)
                         \/ \E v \in Verdicts : decide(i, v) \/ Decided(i, v)
  BY DEF RowsStep, Verdicts
<1> QED BY <1>1, CreateInv, AskInv, ResumeInv, PauseInv, DeleteInv, DecideInv, DecidedInv

\* A run's own steps leave the rows alone.
LEMMA RowsAlone == ASSUME ItemsInv, UNCHANGED <<rowsVars, now>>
  PROVE  /\ Approvals' /\ ActiveExplained' /\ item' = item /\ now' = now
         /\ \A i \in Items : Present(i)' <=> Present(i)
         /\ item' \in [Items -> ItemRows] /\ now' \in 0..Horizon
         /\ approval' \in [Items -> {"none", "pending", "approved", "declined", "expired"}]
         /\ verdicts' \in [Items -> SUBSET Verdicts]
<1>1. UNCHANGED <<item, approval, verdicts, bypass, now>>
  BY DEF rowsVars
<1>2. \A i \in Items : Present(i)' <=> Present(i)
  BY <1>1 DEF Present
<1>3. Approvals'
  BY <1>1 DEF ItemsInv, Approvals
<1>4. ActiveExplained'
  BY <1>1, <1>2 DEF ItemsInv, ActiveExplained
<1>5. /\ item' \in [Items -> ItemRows] /\ now' \in 0..Horizon
      /\ approval' \in [Items -> {"none", "pending", "approved", "declined", "expired"}]
      /\ verdicts' \in [Items -> SUBSET Verdicts]
  BY <1>1 DEF ItemsInv, ItemsTypeOK
<1> QED BY <1>1, <1>2, <1>3, <1>4, <1>5

\* A run that drops items, or ends, unrecorded answers included.
LEMMA RunShrinks ==
  ASSUME ItemsInv, UNCHANGED <<rowsVars, now>>, NEW w \in Runners, NEW n \in ItemRuns, run' = [run EXCEPT ![w] = n],
         n.items \in {{}, run[w].items}, n.items = {} => n.todo = {} /\ n.doing = {}, n.items # {} => n.base = run[w].base,
         n.todo \subseteq run[w].todo, n.doing \subseteq run[w].doing, UNCHANGED <<answered, doubled, outlived>>,
         unrecorded \subseteq unrecorded', run[w].doing \ n.doing \subseteq unrecorded',
         lock' \subseteq lock, n.items # {} => lock' = lock, \A K \in lock : K # run[w].items => K \in lock'
  PROVE  ItemsInv'
<1> USE RowsAlone
<1>1. run'[w] = n /\ \A v \in Runners \ {w} : run'[v] = run[v]
  BY DEF ItemsInv, ItemsTypeOK
<1>2. ItemsTypeOK'
  BY DEF ItemsInv, ItemsTypeOK
<1>3. \A v \in Runners : /\ run'[v].todo \subseteq run[v].todo /\ run'[v].doing \subseteq run[v].doing
                         /\ run'[v].items \subseteq run[v].items
                         /\ run'[v].items = {} => run'[v].todo = {} /\ run'[v].doing = {}
                         /\ run'[v].items # {} => run'[v].base = run[v].base /\ run'[v].items = run[v].items
  BY <1>1 DEF ItemsInv, RunsOwn
<1>4. RunsOwn'
  BY <1>3 DEF ItemsInv, RunsOwn
<1>5. OneRun'
  <2> SUFFICES ASSUME NEW v \in Runners, NEW i \in run'[v].items \ outlived
               PROVE  /\ run'[v].base = now /\ run'[v].items \in lock'
                      /\ \A u \in Runners : i \in run'[u].items => u = v
    BY DEF OneRun
  <2>1. run[v].base = now /\ run[v].items \in lock /\ \A u \in Runners : i \in run[u].items => u = v
    BY <1>3 DEF ItemsInv, OneRun
  <2>2. run'[v].items \in lock'
    <3>1. CASE v = w
      BY <1>1, <1>3, <2>1, <3>1
    <3>2. CASE v # w
      <4>1. run[v].items # run[w].items
        BY <1>3, <2>1, <3>2
      <4> QED BY <1>1, <2>1, <3>2, <4>1
    <3> QED BY <3>1, <3>2
  <2> QED BY <1>3, <2>1, <2>2
<1>6. AnswersPast'
  <2> SUFFICES ASSUME NEW i \in Items \ (outlived \cup unrecorded')
               PROVE  /\ \A a \in answered[i] : a <= now
                      /\ Present(i) /\ (\A v \in Runners : i \notin run'[v].doing) => \A a \in answered[i] : a < item[i].due
                      /\ item[i].state = "new" => answered[i] = {}
                      /\ i \in Reports => \A v \in Runners : \A t \in run'[v].todo : t.of = i => t.due \notin answered[i]
    BY DEF AnswersPast
  <2>1. (\A v \in Runners : i \notin run'[v].doing) => \A v \in Runners : i \notin run[v].doing
    BY <1>1
  <2> QED BY <1>3, <2>1 DEF ItemsInv, AnswersPast
<1>7. FiresExplained'
  BY DEF ItemsInv, FiresExplained
<1> QED BY <1>2, <1>4, <1>5, <1>6, <1>7 DEF ItemsInv

LEMMA RunDropsInv ==
  ASSUME ItemsInv, UNCHANGED <<rowsVars, now>>, NEW w \in Runners,
         \/ \E t \in run[w].todo : PassOver(w, t) \/ RunStops(w, t)
         \/ End(w) \/ RunKilled(w) \/ \E i \in run[w].doing : RecordFails(w, i)
  PROVE  ItemsInv'
<1>1. run[w] \in ItemRuns /\ \A i \in run[w].doing : i \in run[w].items
  BY DEF ItemsInv, ItemsTypeOK, RunsOwn
<1>2. \A t \in run[w].todo : t.of \in run[w].items
  BY DEF ItemsInv, RunsOwn
<1>3. NoRun \in ItemRuns /\ NoRun.items = {} /\ NoRun.todo = {} /\ NoRun.doing = {}
  BY DEF NoRun, ItemRuns
<1>4. ASSUME NEW t \in run[w].todo, PassOver(w, t) PROVE ItemsInv'
  <2> DEFINE n == [run[w] EXCEPT !.todo = @ \ {t}]
  <2>1. n \in ItemRuns /\ n.items = run[w].items /\ n.base = run[w].base /\ n.doing = run[w].doing
        /\ n.todo \subseteq run[w].todo /\ n.items # {}
    BY <1>1, <1>2 DEF ItemRuns
  <2>2. run' = [run EXCEPT ![w] = n] /\ UNCHANGED <<lock, answered, doubled, outlived, unrecorded>>
    BY <1>4 DEF PassOver, SetRun
  <2> HIDE DEF n
  <2> QED BY <2>1, <2>2, RunShrinks
<1>5. ASSUME NEW t \in run[w].todo, RunStops(w, t) PROVE ItemsInv'
  <2>1. run' = [run EXCEPT ![w] = NoRun] /\ run[w].doing = {}
    BY <1>5 DEF RunStops, SetRun
  <2> QED BY <1>3, <1>5, <2>1, RunShrinks DEF RunStops
<1>6. ASSUME End(w) PROVE ItemsInv'
  <2>1. run' = [run EXCEPT ![w] = NoRun] /\ run[w].doing = {}
    BY <1>6 DEF End, SetRun
  <2> QED BY <1>3, <1>6, <2>1, RunShrinks DEF End
<1>7. ASSUME RunKilled(w) PROVE ItemsInv'
  <2>1. run' = [run EXCEPT ![w] = NoRun]
    BY <1>7 DEF RunKilled, SetRun
  <2> QED BY <1>3, <1>7, <2>1, RunShrinks DEF RunKilled
<1>8. ASSUME NEW i \in run[w].doing, RecordFails(w, i) PROVE ItemsInv'
  <2> DEFINE n == [run[w] EXCEPT !.doing = {}]
  <2>1. n \in ItemRuns /\ n.items = run[w].items /\ n.base = run[w].base /\ n.doing = {}
        /\ n.todo \subseteq run[w].todo /\ n.items # {}
    BY <1>1, <1>8 DEF ItemRuns
  <2>2. run' = [run EXCEPT ![w] = n] /\ UNCHANGED <<lock, answered, doubled, outlived>> /\ unrecorded' = unrecorded \cup {i}
    BY <1>8 DEF RecordFails, SetRun
  <2>3. run[w].doing = {i}
    BY <1>8 DEF ItemsInv, RunsOwn
  <2> QED BY <2>1, <2>2, <2>3, RunShrinks
<1> QED BY <1>4, <1>5, <1>6, <1>7, <1>8

\* A run begins: with its kind's lock free, no other run holds its items.
LEMMA StartInv == ASSUME ItemsInv, UNCHANGED <<rowsVars, now>>, NEW w \in Runners, NEW K \in {Reports, Alerts}, Start(w, K)
  PROVE  ItemsInv'
<1> DEFINE todo == {[of |-> i, due |-> item[i].due] : i \in {i \in K : Due(i)}}
           n == [items |-> K, base |-> now, doing |-> {}, todo |-> todo]
<1> USE RowsAlone
<1>1. item \in [Items -> ItemRows] /\ now \in Nat /\ K \subseteq Items
  BY DEF ItemsInv, ItemsTypeOK, Items
<1>2. \A t \in todo : t \in Turns /\ t.of \in K /\ Due(t.of) /\ t.due = item[t.of].due
  BY <1>1 DEF Turns, ItemRows
<1>3. n \in ItemRuns /\ n.items = K /\ n.base = now /\ n.doing = {} /\ n.todo = todo
  BY <1>1, <1>2 DEF ItemRuns
<1>4. /\ run' = [run EXCEPT ![w] = n] /\ lock' = lock \cup {K} /\ run[w] = NoRun /\ K \notin lock
      /\ UNCHANGED <<answered, doubled, outlived, unrecorded>>
  BY DEF Start, SetRun
<1>5. \A t, u \in todo : t.of = u.of => t = u
  OBVIOUS
<1> HIDE DEF todo, n
<1>6. run'[w] = n /\ \A v \in Runners \ {w} : run'[v] = run[v]
  BY <1>4 DEF ItemsInv, ItemsTypeOK
<1>7. ItemsTypeOK'
  <2>1. run' \in [Runners -> ItemRuns] /\ lock' \subseteq {Reports, Alerts}
    BY <1>3, <1>4 DEF ItemsInv, ItemsTypeOK
  <2> QED BY <1>4, <2>1 DEF ItemsInv, ItemsTypeOK
<1>8. \A t \in todo : item[t.of].state # "new" /\ t.due <= now
  BY <1>2 DEF Due
<1>9. RunsOwn'
  <2>1. ASSUME NEW v \in Runners
        PROVE  /\ \A t \in run'[v].todo : t.of \in run'[v].items /\ t.due <= run'[v].base /\ item[t.of].state # "new"
               /\ \A t, u \in run'[v].todo : t.of = u.of => t = u
               /\ \A i \in run'[v].doing : i \in run'[v].items /\ item[i].state # "new"
               /\ \A i, j \in run'[v].doing : i = j
    <3>1. CASE v = w
      BY <1>2, <1>3, <1>5, <1>6, <1>8, <3>1
    <3>2. CASE v # w
      BY <1>6, <3>2 DEF ItemsInv, RunsOwn
    <3> QED BY <3>1, <3>2
  <2> QED BY <2>1 DEF RunsOwn
<1>10. \A v \in Runners : \A i \in run[v].items \ outlived : i \notin K
  <2> SUFFICES ASSUME NEW v \in Runners, NEW i \in run[v].items \ outlived, i \in K PROVE FALSE
    OBVIOUS
  <2>1. run[v].items \in lock /\ run[v].items \in {{}, Reports, Alerts}
    BY DEF ItemsInv, ItemsTypeOK, OneRun, ItemRuns
  <2>2. run[v].items = K
    BY <2>1
  <2> QED BY <1>4, <2>1, <2>2
<1>11. OneRun'
  <2> SUFFICES ASSUME NEW v \in Runners, NEW i \in run'[v].items \ outlived
               PROVE  /\ run'[v].base = now /\ run'[v].items \in lock'
                      /\ \A u \in Runners : i \in run'[u].items => u = v
    BY <1>4 DEF OneRun
  <2>1. CASE v = w
    BY <1>3, <1>4, <1>6, <1>10, <2>1
  <2>2. CASE v # w
    <3>1. run[v].base = now /\ run[v].items \in lock /\ \A u \in Runners : i \in run[u].items => u = v
      BY <1>6, <2>2 DEF ItemsInv, OneRun
    <3>2. i \notin K
      BY <1>6, <1>10, <2>2
    <3> QED BY <1>3, <1>4, <1>6, <2>2, <3>1, <3>2
  <2> QED BY <2>1, <2>2
<1>12. AnswersPast'
  <2> SUFFICES ASSUME NEW i \in Items \ (outlived \cup unrecorded)
               PROVE  /\ \A a \in answered[i] : a <= now
                      /\ Present(i) /\ (\A v \in Runners : i \notin run'[v].doing) => \A a \in answered[i] : a < item[i].due
                      /\ item[i].state = "new" => answered[i] = {}
                      /\ i \in Reports => \A v \in Runners : \A t \in run'[v].todo : t.of = i => t.due \notin answered[i]
    BY <1>4 DEF AnswersPast
  <2>1. run[w].doing = {}
    BY <1>4 DEF NoRun
  <2>2. (\A v \in Runners : i \notin run'[v].doing) => \A v \in Runners : i \notin run[v].doing
    BY <1>6, <2>1
  <2>3. ASSUME i \in Reports, NEW v \in Runners, NEW t \in run'[v].todo, t.of = i PROVE t.due \notin answered[i]
    <3>1. CASE v # w
      BY <1>6, <2>3, <3>1 DEF ItemsInv, AnswersPast
    <3>2. CASE v = w
      <4>1. i \in K /\ Present(i) /\ t.due = item[i].due
        BY <1>2, <1>3, <1>6, <2>3, <3>2 DEF Due
      <4>2. \A u \in Runners : i \notin run[u].doing
        BY <1>10, <4>1 DEF ItemsInv, RunsOwn
      <4>3. \A a \in answered[i] : a < item[i].due /\ a \in Nat
        BY <4>1, <4>2 DEF ItemsInv, AnswersPast, ItemsTypeOK
      <4> QED BY <1>1, <4>1, <4>3
    <3> QED BY <3>1, <3>2
  <2> QED BY <2>2, <2>3 DEF ItemsInv, AnswersPast
<1>13. FiresExplained'
  BY <1>4 DEF ItemsInv, FiresExplained
<1> QED BY <1>7, <1>9, <1>11, <1>12, <1>13 DEF ItemsInv

\* A turn answers an occurrence that was not answered before, unless the item's
\* runs overlapped or an answer of it went unrecorded.
LEMMA TurnInv ==
  ASSUME ItemsInv, UNCHANGED <<rowsVars, now>>, NEW w \in Runners, NEW t \in run[w].todo, RunTurn(w, t)
  PROVE  ItemsInv'
<1> DEFINE n == [run[w] EXCEPT !.todo = @ \ {t}, !.doing = {t.of}]
           o == Occurrence(t)
           k == t.of
<1> USE RowsAlone
<1>1. item \in [Items -> ItemRows] /\ now \in Nat /\ run[w] \in ItemRuns /\ answered \in [Items -> SUBSET Nat]
  BY DEF ItemsInv, ItemsTypeOK
<1>2. /\ t \in Turns /\ k \in Items /\ k \in run[w].items /\ t.due \in Nat /\ t.due <= run[w].base /\ run[w].base \in Nat
      /\ item[k].state # "new" /\ Present(k) /\ item[k].due \in Nat
  BY <1>1 DEF ItemsInv, RunsOwn, ItemRuns, Turns, RunTurn, ItemRows
<1>3. o \in Nat /\ o <= run[w].base /\ (k \in Reports => o = t.due) /\ (k \notin Reports => o = item[k].due)
  BY <1>2 DEF Occurrence, RunTurn, Cool
<1>4. /\ run' = [run EXCEPT ![w] = n] /\ UNCHANGED <<lock, outlived, unrecorded>> /\ run[w].doing = {}
      /\ answered' = [answered EXCEPT ![k] = @ \cup {o}]
      /\ doubled' = IF o \in answered[k] THEN doubled \cup {k} ELSE doubled
  BY DEF RunTurn, SetRun
<1>5. n \in ItemRuns /\ n.items = run[w].items /\ n.base = run[w].base /\ n.doing = {k} /\ n.todo = run[w].todo \ {t}
  <2> DEFINE m == [run[w] EXCEPT !.todo = @ \ {t}]
  <2>1. m \in ItemRuns /\ m.items = run[w].items /\ m.base = run[w].base /\ m.todo = run[w].todo \ {t}
    BY <1>1 DEF ItemRuns
  <2>2. n = [m EXCEPT !.doing = {k}]
    OBVIOUS
  <2> HIDE DEF m, n
  <2> QED BY <1>2, <2>1, <2>2 DEF ItemRuns
<1> HIDE DEF n, o
<1>6. run'[w] = n /\ \A v \in Runners \ {w} : run'[v] = run[v]
  BY <1>4 DEF ItemsInv, ItemsTypeOK
<1>7. answered'[k] = answered[k] \cup {o} /\ \A i \in Items \ {k} : answered'[i] = answered[i]
  BY <1>1, <1>2, <1>4
<1>8. ItemsTypeOK'
  <2>1. run' \in [Runners -> ItemRuns] /\ answered' \in [Items -> SUBSET Nat]
    BY <1>1, <1>3, <1>4, <1>5 DEF ItemsInv, ItemsTypeOK
  <2> QED BY <1>4, <2>1 DEF ItemsInv, ItemsTypeOK
<1>9. RunsOwn'
  <2>1. ASSUME NEW v \in Runners
        PROVE  /\ \A s \in run'[v].todo : s.of \in run'[v].items /\ s.due <= run'[v].base /\ item[s.of].state # "new"
               /\ \A s, u \in run'[v].todo : s.of = u.of => s = u
               /\ \A i \in run'[v].doing : i \in run'[v].items /\ item[i].state # "new"
               /\ \A i, j \in run'[v].doing : i = j
    <3>1. CASE v = w
      BY <1>2, <1>5, <1>6, <3>1 DEF ItemsInv, RunsOwn
    <3>2. CASE v # w
      BY <1>6, <3>2 DEF ItemsInv, RunsOwn
    <3> QED BY <3>1, <3>2
  <2> QED BY <2>1 DEF RunsOwn
<1>10. \A v \in Runners : run'[v].items = run[v].items /\ run'[v].base = run[v].base
  BY <1>5, <1>6
<1>11. OneRun'
  BY <1>4, <1>10 DEF ItemsInv, OneRun
<1>12. ASSUME k \notin outlived \cup unrecorded
       PROVE  /\ run[w].base = now /\ o \notin answered[k]
              /\ \A v \in Runners \ {w} : k \notin run[v].items
  <2>1. run[w].base = now /\ \A v \in Runners : k \in run[v].items => v = w
    BY <1>2, <1>12 DEF ItemsInv, OneRun
  <2>2. \A v \in Runners : k \notin run[v].doing
    BY <1>4, <2>1 DEF ItemsInv, RunsOwn
  <2>3. \A a \in answered[k] : a < item[k].due /\ a \in Nat
    BY <1>1, <1>2, <1>12, <2>2 DEF ItemsInv, AnswersPast
  <2>4. k \in Reports => t.due \notin answered[k]
    BY <1>2, <1>12 DEF ItemsInv, AnswersPast
  <2> QED BY <1>2, <1>3, <2>1, <2>3, <2>4
<1>13. AnswersPast'
  <2> SUFFICES ASSUME NEW i \in Items \ (outlived \cup unrecorded)
               PROVE  /\ \A a \in answered'[i] : a <= now
                      /\ Present(i) /\ (\A v \in Runners : i \notin run'[v].doing) => \A a \in answered'[i] : a < item[i].due
                      /\ item[i].state = "new" => answered'[i] = {}
                      /\ i \in Reports => \A v \in Runners : \A s \in run'[v].todo : s.of = i => s.due \notin answered'[i]
    BY <1>4 DEF AnswersPast
  <2>1. CASE i = k
    <3>1. \A a \in answered'[i] : a <= now
      BY <1>3, <1>7, <1>12, <2>1 DEF ItemsInv, AnswersPast
    <3>2. i \in run'[w].doing
      BY <1>5, <1>6, <2>1
    <3>3. \A v \in Runners : \A s \in run'[v].todo : s.of # i
      <4>1. \A s \in n.todo : s.of # i
        BY <1>5, <2>1 DEF ItemsInv, RunsOwn
      <4> QED BY <1>6, <1>12, <2>1, <4>1 DEF ItemsInv, RunsOwn
    <3> QED BY <1>2, <2>1, <3>1, <3>2, <3>3
  <2>2. CASE i # k
    <3>1. (\A v \in Runners : i \notin run'[v].doing) => \A v \in Runners : i \notin run[v].doing
      BY <1>4, <1>6
    <3>2. \A v \in Runners : run'[v].todo \subseteq run[v].todo
      BY <1>5, <1>6
    <3> QED BY <1>7, <2>2, <3>1, <3>2 DEF ItemsInv, AnswersPast
  <2> QED BY <2>1, <2>2
<1>14. FiresExplained'
  BY <1>4, <1>12 DEF ItemsInv, FiresExplained
<1> QED BY <1>8, <1>9, <1>11, <1>13, <1>14 DEF ItemsInv

\* The answer recorded, the next occurrence is later than any that was answered.
LEMMA RecordInv ==
  ASSUME ItemsInv, NEW w \in Runners, NEW i \in run[w].doing, Record(w, i),
         UNCHANGED <<approval, verdicts, resumes, bypass, now>>
  PROVE  ItemsInv'
<1> DEFINE r == IF Present(i) THEN Advanced(i, run[w].base) ELSE item[i]
           n == [run[w] EXCEPT !.doing = {}]
<1>1. /\ item \in [Items -> ItemRows] /\ now \in Nat /\ run[w] \in ItemRuns /\ answered \in [Items -> SUBSET Nat]
      /\ i \in Items /\ i \in run[w].items /\ run[w].base \in Nat /\ item[i] \in ItemRows /\ run[w].doing = {i}
  BY DEF ItemsInv, ItemsTypeOK, RunsOwn, ItemRuns
<1>2. r \in ItemRows /\ r.state = item[i].state /\ r.own = item[i].own /\ r.active = item[i].active
      /\ (Present(i) => run[w].base < r.due)
  <2>1. CASE Present(i)
    <3> DEFINE d == IF i \in Reports THEN _next_run_at(run[w].base) ELSE run[w].base + Period
    <3>1. d \in Nat /\ run[w].base < d
      BY <1>1, NextIsLater
    <3>2. r = [item[i] EXCEPT !.due = d]
      BY <2>1 DEF Advanced
    <3> HIDE DEF d, r
    <3> QED BY <1>1, <3>1, <3>2 DEF ItemRows
  <2>2. CASE ~Present(i)
    BY <1>1, <2>2
  <2> QED BY <2>1, <2>2
<1>3. n \in ItemRuns /\ n.items = run[w].items /\ n.base = run[w].base /\ n.doing = {} /\ n.todo = run[w].todo
  BY <1>1 DEF ItemRuns
<1>4. /\ run' = [run EXCEPT ![w] = n] /\ item' = [item EXCEPT ![i] = r]
      /\ UNCHANGED <<lock, answered, doubled, outlived, unrecorded>>
  BY <1>1 DEF Record, SetRun
<1> HIDE DEF r, n
<1>5. run'[w] = n /\ \A v \in Runners \ {w} : run'[v] = run[v]
  BY <1>4 DEF ItemsInv, ItemsTypeOK
<1>6. item'[i] = r /\ \A j \in Items \ {i} : item'[j] = item[j]
  BY <1>1, <1>4
<1>7. \A j \in Items : /\ item'[j].state = item[j].state /\ item'[j].own = item[j].own /\ item'[j].active = item[j].active
                       /\ Present(j)' <=> Present(j)
  <2> SUFFICES ASSUME NEW j \in Items
               PROVE  /\ item'[j].state = item[j].state /\ item'[j].own = item[j].own /\ item'[j].active = item[j].active
                      /\ Present(j)' <=> Present(j)
    OBVIOUS
  <2>1. CASE j = i
    BY <1>2, <1>6, <2>1 DEF Present
  <2>2. CASE j # i
    BY <1>6, <2>2 DEF Present
  <2> QED BY <2>1, <2>2
<1>8. \A v \in Runners : /\ run'[v].items = run[v].items /\ run'[v].base = run[v].base /\ run'[v].todo = run[v].todo
                         /\ run'[v].doing \subseteq run[v].doing
  BY <1>3, <1>5
<1>9. ItemsTypeOK'
  <2>1. run' \in [Runners -> ItemRuns] /\ item' \in [Items -> ItemRows]
    BY <1>1, <1>2, <1>3, <1>4 DEF ItemsInv, ItemsTypeOK
  <2> QED BY <1>4, <2>1 DEF ItemsInv, ItemsTypeOK
<1>10. Approvals'
  BY <1>7 DEF ItemsInv, Approvals
<1>11. ActiveExplained'
  BY <1>7 DEF ItemsInv, ActiveExplained
<1>12. RunsOwn'
  <2>1. \A v \in Runners : (\A t \in run[v].todo : t.of \in Items) /\ \A j \in run[v].doing : j \in Items
    BY DEF ItemsInv, ItemsTypeOK, ItemRuns, Turns
  <2> QED BY <1>7, <1>8, <2>1 DEF ItemsInv, RunsOwn
<1>13. OneRun'
  BY <1>4, <1>8 DEF ItemsInv, OneRun
<1>14. AnswersPast'
  <2> SUFFICES ASSUME NEW j \in Items \ (outlived \cup unrecorded)
               PROVE  /\ \A a \in answered[j] : a <= now
                      /\ Present(j)' /\ (\A v \in Runners : j \notin run'[v].doing) => \A a \in answered[j] : a < item'[j].due
                      /\ item'[j].state = "new" => answered[j] = {}
                      /\ j \in Reports => \A v \in Runners : \A t \in run'[v].todo : t.of = j => t.due \notin answered[j]
    BY <1>4 DEF AnswersPast
  <2>1. /\ \A a \in answered[j] : a <= now /\ a \in Nat
        /\ item'[j].state = "new" => answered[j] = {}
        /\ j \in Reports => \A v \in Runners : \A t \in run'[v].todo : t.of = j => t.due \notin answered[j]
    BY <1>1, <1>7, <1>8 DEF ItemsInv, AnswersPast
  <2>2. ASSUME Present(j)', \A v \in Runners : j \notin run'[v].doing PROVE \A a \in answered[j] : a < item'[j].due
    <3>1. CASE j = i
      <4>1. run[w].base = now
        BY <1>1, <3>1 DEF ItemsInv, OneRun
      <4>2. r.due \in Nat /\ now < r.due
        BY <1>2, <1>7, <2>2, <3>1, <4>1 DEF ItemRows
      <4> QED BY <1>1, <1>6, <2>1, <3>1, <4>2
    <3>2. CASE j # i
      <4>1. \A v \in Runners : j \notin run[v].doing
        BY <1>1, <1>5, <2>2, <3>2
      <4> QED BY <1>6, <1>7, <2>2, <3>2, <4>1 DEF ItemsInv, AnswersPast
    <3> QED BY <3>1, <3>2
  <2> QED BY <2>1, <2>2
<1>15. FiresExplained'
  BY <1>4 DEF ItemsInv, FiresExplained
<1> QED BY <1>9, <1>10, <1>11, <1>12, <1>13, <1>14, <1>15 DEF ItemsInv

LEMMA IntervalInv == ASSUME ItemsInv, Interval PROVE ItemsInv'
<1>1. UNCHANGED <<item, approval, verdicts, resumes, bypass, run, answered, doubled, unrecorded>>
  BY DEF Interval, rowsVars
<1>2. now' = now + 1 /\ now' \in 0..Horizon /\ now \in Nat /\ lock' = {}
  BY DEF Interval, ItemsInv, ItemsTypeOK
<1>3. outlived \subseteq outlived' /\ \A w \in Runners : run[w].items \subseteq outlived'
  BY DEF Interval
<1>4. \A i \in Items : Present(i)' <=> Present(i)
  BY <1>1 DEF Present
<1>5. ItemsTypeOK'
  BY <1>1, <1>2 DEF ItemsInv, ItemsTypeOK
<1>6. Approvals'
  BY <1>1 DEF ItemsInv, Approvals
<1>7. ActiveExplained'
  BY <1>1, <1>4 DEF ItemsInv, ActiveExplained
<1>8. RunsOwn'
  BY <1>1 DEF ItemsInv, RunsOwn
<1>9. OneRun'
  BY <1>1, <1>3 DEF OneRun
<1>10. AnswersPast'
  <2> SUFFICES ASSUME NEW i \in Items \ (outlived' \cup unrecorded)
               PROVE  /\ \A a \in answered[i] : a <= now + 1
                      /\ Present(i) /\ (\A v \in Runners : i \notin run[v].doing) => \A a \in answered[i] : a < item[i].due
                      /\ item[i].state = "new" => answered[i] = {}
                      /\ i \in Reports => \A v \in Runners : \A t \in run[v].todo : t.of = i => t.due \notin answered[i]
    BY <1>1, <1>2, <1>4 DEF AnswersPast
  <2>1. \A a \in answered[i] : a <= now /\ a \in Nat
    BY <1>3 DEF ItemsInv, AnswersPast, ItemsTypeOK
  <2>2. \A a \in answered[i] : a <= now + 1
    BY <1>2, <2>1
  <2> QED BY <1>3, <2>2 DEF ItemsInv, AnswersPast
<1>11. FiresExplained'
  BY <1>1, <1>3 DEF ItemsInv, FiresExplained
<1> QED BY <1>5, <1>6, <1>7, <1>8, <1>9, <1>10, <1>11 DEF ItemsInv

LEMMA ItemsNextInv == ItemsInv /\ [SchedulesNext]_schedulesVars => ItemsInv'
<1> SUFFICES ASSUME ItemsInv, [SchedulesNext]_schedulesVars PROVE ItemsInv'
  OBVIOUS
<1>1. CASE RowsStep /\ UNCHANGED <<runsVars, now>>
  BY <1>1, RowsStepInv
<1>2. CASE RunsStep /\ UNCHANGED <<rowsVars, now>>
  <2>1. PICK w \in Runners : \/ \E K \in {Reports, Alerts} : Start(w, K)
                             \/ \E t \in run[w].todo : RunTurn(w, t) \/ PassOver(w, t) \/ RunStops(w, t)
                             \/ End(w) \/ RunKilled(w) \/ \E i \in run[w].doing : RecordFails(w, i)
    BY <1>2 DEF RunsStep
  <2> QED BY <1>2, <2>1, StartInv, TurnInv, RunDropsInv
<1>3. CASE RecordStep
  BY <1>3, RecordInv DEF RecordStep
<1>4. CASE Interval
  BY <1>4, IntervalInv
<1>5. CASE UNCHANGED schedulesVars
  <2>1. UNCHANGED <<item, approval, verdicts, now, lock, run, answered, doubled, outlived, unrecorded, bypass>>
    BY <1>5 DEF schedulesVars
  <2>2. \A i \in Items : Present(i)' <=> Present(i)
    BY <2>1 DEF Present
  <2>3. ItemsTypeOK' /\ Approvals' /\ RunsOwn'
    BY <2>1 DEF ItemsInv, ItemsTypeOK, Approvals, RunsOwn
  <2>4. ActiveExplained'
    BY <2>1, <2>2 DEF ItemsInv, ActiveExplained
  <2>5. OneRun' /\ FiresExplained'
    BY <2>1 DEF ItemsInv, OneRun, FiresExplained
  <2>6. AnswersPast'
    BY <2>1, <2>2 DEF ItemsInv, AnswersPast
  <2> QED BY <2>3, <2>4, <2>5, <2>6 DEF ItemsInv
<1> QED BY <1>1, <1>2, <1>3, <1>4, <1>5 DEF SchedulesNext

\* An item that needs an approval is active without one only where its owner
\* resumed it before the approval was asked for or after it was declined, or two
\* approvers decided at once (_do_create_*, resume_*, the approval's decision).
THEOREM ApprovalsHold == SchedulesSpec => []ActiveExplained
<1>1. ItemsInv => ActiveExplained
  BY DEF ItemsInv
<1> QED BY ItemsInitInv, ItemsNextInv, <1>1, PTL DEF SchedulesSpec

\* No occurrence of a report and no cooldown of an alert is answered twice unless
\* a run outlived the lock of its kind or an answer could not be recorded.
THEOREM AnsweredOnce == SchedulesSpec => []FiresExplained
<1>1. ItemsInv => FiresExplained
  BY DEF ItemsInv
<1> QED BY ItemsInitInv, ItemsNextInv, <1>1, PTL DEF SchedulesSpec
=============================================================================
