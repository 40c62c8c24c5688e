---------------------------- MODULE QueueProofs -----------------------------
(* What joining and leaving a queue does. *)
EXTENDS Queues, TLAPS

\* Leaving a queue leaves a queue.
LEMMA WithoutType ==
    ASSUME NEW S, NEW q \in Seq(S), NEW t
    PROVE  Without(q, t) \in Seq(S)
<1> DEFINE place == CHOOSE i \in 1..Len(q) : q[i] = t
           f == [i \in 1..(Len(q) - 1) |-> IF i < place THEN q[i] ELSE q[i + 1]]
<1>1. Len(q) \in Nat /\ \A i \in 1..Len(q) : q[i] \in S
  OBVIOUS
<1>2. CASE Len(q) = 0
  <2>1. f = << >>
    BY <1>2
  <2>2. << >> \in Seq(S)
    OBVIOUS
  <2> QED BY <2>1, <2>2 DEF Without
<1>3. CASE Len(q) # 0
  <2>1. Len(q) - 1 \in Nat
    BY <1>1, <1>3
  <2> HIDE DEF place
  <2>2. \A i \in 1..(Len(q) - 1) : i \in 1..Len(q) /\ i + 1 \in 1..Len(q)
    BY <1>1
  <2>3. \A i \in 1..(Len(q) - 1) : (IF i < place THEN q[i] ELSE q[i + 1]) \in S
    BY <1>1, <2>2
  <2>4. f \in [1..(Len(q) - 1) -> S]
    BY <2>3
  <2>5. f \in Seq(S)
    BY <2>1, <2>4
  <2> QED BY <2>5 DEF Without, place
<1> QED BY <1>2, <1>3

LEMMA BeforeIsMember == \A q, u, v : Before(q, u, v) => u \in Members(q)
BY DEF Before, Members

\* Who joins a queue is its last member.
LEMMA AppendQueue ==
    ASSUME NEW S, NEW q \in Seq(S), NEW t \in S, Distinct(q), t \notin Members(q)
    PROVE  /\ Distinct(Append(q, t))
           /\ Members(Append(q, t)) = Members(q) \cup {t}
           /\ Append(q, t) # <<>>
           /\ Head(Append(q, t)) = IF q = <<>> THEN t ELSE Head(q)
           /\ \A u, v : Before(Append(q, t), u, v) =>
                  Before(q, u, v) \/ (u \in Members(q) /\ v = t)
<1> DEFINE a == Append(q, t)
<1>1. /\ Len(q) \in Nat
      /\ a \in Seq(S)
      /\ Len(a) = Len(q) + 1
      /\ \A i \in 1..Len(q) : a[i] = q[i]
      /\ a[Len(q) + 1] = t
  OBVIOUS
<1>2. \A i \in 1..Len(a) : i \in 1..Len(q) \/ i = Len(q) + 1
  BY <1>1
<1>3. Distinct(a)
  BY <1>1, <1>2 DEF Distinct, Members
<1>4. Members(a) = Members(q) \cup {t}
  <2>1. \A i \in 1..Len(q) : i \in 1..Len(a)
    BY <1>1
  <2>2. Len(q) + 1 \in 1..Len(a)
    BY <1>1
  <2> HIDE DEF a
  <2> QED BY <1>1, <1>2, <2>1, <2>2 DEF Members
<1>5. a # <<>> /\ Head(a) = IF q = <<>> THEN t ELSE Head(q)
  <2>1. a # <<>> /\ Head(a) = a[1]
    BY <1>1
  <2>2. CASE q = <<>>
    BY <2>1, <2>2, <1>1
  <2>3. CASE q # <<>>
    <3>1. 1 \in 1..Len(q) /\ Head(q) = q[1]
      BY <2>3
    <3> QED BY <2>1, <2>3, <3>1, <1>1
  <2> QED BY <2>1, <2>2, <2>3
<1>6. ASSUME NEW u, NEW v, Before(a, u, v)
      PROVE  Before(q, u, v) \/ (u \in Members(q) /\ v = t)
  <2>1. PICK i \in 1..Len(a), j \in 1..Len(a) : i < j /\ a[i] = u /\ a[j] = v
    BY <1>6 DEF Before
  <2>2. i \in 1..Len(q) /\ q[i] = u
    BY <2>1, <1>1
  <2>3. CASE j \in 1..Len(q)
    BY <2>1, <2>2, <2>3, <1>1 DEF Before
  <2>4. CASE j = Len(q) + 1
    BY <2>1, <2>2, <2>4, <1>1 DEF Members
  <2> QED BY <2>3, <2>4, <1>2
<1> QED BY <1>3, <1>4, <1>5, <1>6

\* Who leaves a queue changes nothing for the others.
LEMMA WithoutQueue ==
    ASSUME NEW S, NEW q \in Seq(S), NEW t, Distinct(q), t \in Members(q)
    PROVE  /\ Distinct(Without(q, t))
           /\ Members(Without(q, t)) = Members(q) \ {t}
           /\ Head(q) # t => Without(q, t) # <<>> /\ Head(Without(q, t)) = Head(q)
           /\ \A u, v : Before(Without(q, t), u, v) => Before(q, u, v)
<1>1. PICK k \in 1..Len(q) : q[k] = t
  BY DEF Members
<1> DEFINE w == Without(q, t)
           at(i) == IF i < k THEN i ELSE i + 1
<1>2. (CHOOSE i \in 1..Len(q) : q[i] = t) = k
  BY <1>1 DEF Distinct
<1>3. w = [i \in 1..(Len(q) - 1) |-> IF i < k THEN q[i] ELSE q[i + 1]]
  BY <1>2 DEF Without
<1>4. Len(q) \in Nat /\ Len(q) - 1 \in Nat
  BY <1>1
<1>5. w \in Seq(S)
  BY WithoutType
<1>6. Len(w) = Len(q) - 1
  BY <1>3, <1>4, <1>5
<1>7. \A i \in 1..Len(w) : at(i) \in 1..Len(q) /\ at(i) # k /\ w[i] = q[at(i)]
  BY <1>3, <1>4, <1>6
<1>8. \A i, j \in 1..Len(w) : i < j => at(i) < at(j)
  BY <1>4, <1>6
<1>9. \A n \in 1..Len(q) \ {k} : \E i \in 1..Len(w) : at(i) = n
  <2> TAKE n \in 1..Len(q) \ {k}
  <2>1. CASE n < k
    <3>1. n \in 1..Len(w) /\ at(n) = n
      BY <2>1, <1>4, <1>6
    <3> QED BY <3>1
  <2>2. CASE n > k
    <3>1. n - 1 \in 1..Len(w) /\ at(n - 1) = n
      BY <2>2, <1>4, <1>6
    <3> QED BY <3>1
  <2> QED BY <2>1, <2>2
<1> HIDE DEF w, at
<1>10. Distinct(w)
  <2>1. \A i, j \in 1..Len(w) : at(i) = at(j) => i = j
    BY <1>4, <1>6 DEF at
  <2> QED BY <1>7, <2>1 DEF Distinct
<1>11. Members(w) = Members(q) \ {t}
  <2>1. \A i \in 1..Len(w) : w[i] \in Members(q) /\ w[i] # t
    BY <1>1, <1>7 DEF Members, Distinct
  <2>2. \A n \in 1..Len(q) : q[n] # t => \E i \in 1..Len(w) : w[i] = q[n]
    BY <1>1, <1>7, <1>9
  <2> QED BY <2>1, <2>2 DEF Members
<1>12. ASSUME Head(q) # t PROVE w # <<>> /\ Head(w) = Head(q)
  <2>1. q[1] # t /\ k # 1 /\ 1 \in 1..Len(w)
    BY <1>1, <1>4, <1>6, <1>12
  <2>2. w[1] = q[1]
    BY <2>1, <1>7 DEF at
  <2> QED BY <2>1, <2>2, <1>4, <1>5
<1>13. ASSUME NEW u, NEW v, Before(w, u, v) PROVE Before(q, u, v)
  BY <1>13, <1>7, <1>8 DEF Before
<1> QED BY <1>10, <1>11, <1>12, <1>13 DEF w

\* The first one leaves.
LEMMA TailQueue ==
    ASSUME NEW S, NEW q \in Seq(S), q # <<>>, Distinct(q)
    PROVE  /\ Tail(q) \in Seq(S) /\ Head(q) \in S
           /\ Head(q) \in Members(q)
           /\ Distinct(Tail(q))
           /\ Members(Tail(q)) = Members(q) \ {Head(q)}
<1> DEFINE w == Tail(q)
<1>1. /\ w \in Seq(S) /\ Len(w) = Len(q) - 1 /\ Head(q) = q[1] /\ Len(q) \in Nat /\ Len(q) # 0
      /\ \A i \in 1..Len(w) : w[i] = q[i + 1]
  OBVIOUS
<1>2. 1 \in 1..Len(q) /\ \A i \in 1..Len(w) : i + 1 \in 1..Len(q)
  BY <1>1
<1>3. \A i \in 1..Len(q) : i # 1 => i - 1 \in 1..Len(w) /\ w[i - 1] = q[i]
  BY <1>1
<1> HIDE DEF w
<1>4. Distinct(w)
  BY <1>1, <1>2 DEF Distinct
<1>5. Members(w) = Members(q) \ {q[1]}
  <2>1. \A i \in 1..Len(w) : w[i] \in Members(q) /\ w[i] # q[1]
    BY <1>1, <1>2 DEF Members, Distinct
  <2>2. \A i \in 1..Len(q) : q[i] # q[1] => \E j \in 1..Len(w) : w[j] = q[i]
    BY <1>3
  <2> QED BY <2>1, <2>2 DEF Members
<1>6. Head(q) \in S
  BY <1>1, <1>2
<1>7. Head(q) \in Members(q)
  BY <1>1, <1>2 DEF Members
<1> QED BY <1>1, <1>4, <1>5, <1>6, <1>7 DEF w
=============================================================================
