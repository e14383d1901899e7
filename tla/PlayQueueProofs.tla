-------------------------- MODULE PlayQueueProofs --------------------------
(***************************************************************************)
(* What the operators of PlayQueue return: each result is the old queue    *)
(* with its order kept, one item more, or some fewer.                      *)
(***************************************************************************)
EXTENDS PlayQueue, SequenceTheorems, TLAPS

(* An item of the queue has an index, and IndexIn finds one.               *)
LEMMA IndexInQueue ==
    ASSUME NEW S, NEW q \in Seq(S), NEW i, Contains(q, i)
    PROVE  IndexIn(q, i) \in 1..Len(q) /\ q[IndexIn(q, i)] = i
BY DEF IndexIn, Contains

(* Dropping the first k - 1 items leaves the rest as they were.            *)
LEMMA DropKeepsRest ==
    ASSUME NEW S, NEW q \in Seq(S), NEW k \in 1..(Len(q) + 1)
    PROVE  /\ Drop(q, k) \in Seq(S)
           /\ Len(Drop(q, k)) = Len(q) - k + 1
           /\ \A j \in 1..(Len(q) - k + 1) : Drop(q, k)[j] = q[j + k - 1]
BY DEF Drop

(* PushFront puts the new item first and moves the others back by one.     *)
LEMMA PushFrontMovesBack ==
    ASSUME NEW S, NEW q \in Seq(S), NEW i \in S
    PROVE  /\ PushFront(q, i) \in Seq(S)
           /\ Len(PushFront(q, i)) = Len(q) + 1
           /\ PushFront(q, i)[1] = i
           /\ \A j \in 2..(Len(q) + 1) : PushFront(q, i)[j] = q[j - 1]
BY DEF PushFront

(* Remove closes the gap the item leaves.                                  *)
LEMMA RemoveClosesGap ==
    ASSUME NEW S, NEW q \in Seq(S), NEW i, Contains(q, i)
    PROVE  LET n == IndexIn(q, i)
               r == Remove(q, i)
           IN  /\ n \in 1..Len(q) /\ q[n] = i
               /\ r \in Seq(S) /\ Len(r) = Len(q) - 1
               /\ \A j \in 1..(Len(q) - 1) : r[j] = IF j < n THEN q[j] ELSE q[j + 1]
<1> DEFINE n == IndexIn(q, i)
<1>1. n \in 1..Len(q) /\ q[n] = i
  BY IndexInQueue
<1> HIDE DEF n
<1> DEFINE front == SubSeq(q, 1, n - 1)
           back  == Drop(q, n + 1)
<1>2. front \in Seq(S) /\ Len(front) = n - 1 /\ \A j \in 1..(n - 1) : front[j] = q[j]
  BY <1>1
<1>3. /\ back \in Seq(S) /\ Len(back) = Len(q) - n
      /\ \A j \in 1..(Len(q) - n) : back[j] = q[j + n]
  <2>1. n + 1 \in 1..(Len(q) + 1)
    BY <1>1
  <2>2. /\ Drop(q, n + 1) \in Seq(S)
        /\ Len(Drop(q, n + 1)) = Len(q) - (n + 1) + 1
        /\ \A j \in 1..(Len(q) - (n + 1) + 1) : Drop(q, n + 1)[j] = q[j + (n + 1) - 1]
    BY <2>1, DropKeepsRest
  <2> QED
    BY <1>1, <2>2 DEF back
<1> HIDE DEF front, back
<1>4. /\ front \o back \in Seq(S) /\ Len(front \o back) = Len(q) - 1
      /\ \A j \in 1..(Len(q) - 1) :
            (front \o back)[j] = IF j < n THEN q[j] ELSE q[j + 1]
  <2>1. front \o back \in Seq(S) /\ Len(front \o back) = Len(q) - 1
    <3>1. front \o back \in Seq(S)
      BY <1>2, <1>3
    <3>2. Len(front \o back) = Len(front) + Len(back)
      BY <1>2, <1>3, ConcatProperties
    <3> QED
      BY <3>1, <3>2, <1>1, <1>2, <1>3
  <2>2. ASSUME NEW j \in 1..(Len(q) - 1)
        PROVE  (front \o back)[j] = IF j < n THEN q[j] ELSE q[j + 1]
    <3>1. CASE j < n
      BY <3>1, <1>1, <1>2, <1>3
    <3>2. CASE ~(j < n)
      <4>1. (front \o back)[j] = back[j - (n - 1)]
        BY <3>2, <1>1, <1>2, <1>3
      <4>2. back[j - (n - 1)] = q[(j - (n - 1)) + n]
        BY <3>2, <1>1, <1>3, j - (n - 1) \in 1..(Len(q) - n)
      <4> QED
        BY <3>2, <4>1, <4>2, <1>1
    <3> QED
      BY <3>1, <3>2
  <2> QED
    BY <2>1, <2>2
<1>5. Remove(q, i) = front \o back
  BY DEF Remove, n, front, back
<1> QED
  BY <1>1, <1>4, <1>5 DEF n

(* r is q without some of its items, the others in their order.            *)
Thinned(r, q) ==
    \E f \in [1..Len(r) -> 1..Len(q)] :
        /\ \A j \in 1..Len(r) : r[j] = q[f[j]]
        /\ \A j, k \in 1..Len(r) : j < k => f[j] < f[k]

LEMMA DropThins ==
    ASSUME NEW S, NEW q \in Seq(S), NEW k \in 1..(Len(q) + 1)
    PROVE  Thinned(Drop(q, k), q)
<1> DEFINE r == Drop(q, k)
           f == [j \in 1..Len(r) |-> j + k - 1]
<1>1. Len(r) = Len(q) - k + 1 /\ \A j \in 1..Len(r) : r[j] = q[j + k - 1]
  BY DropKeepsRest
<1> HIDE DEF r
<1>2. f \in [1..Len(r) -> 1..Len(q)]
  BY <1>1
<1>3. (\A j \in 1..Len(r) : r[j] = q[f[j]]) /\ \A i, j \in 1..Len(r) : i < j => f[i] < f[j]
  BY <1>1
<1> HIDE DEF f
<1>4. Thinned(r, q)
  BY <1>2, <1>3 DEF Thinned
<1> QED
  BY <1>4 DEF r

LEMMA TailThins ==
    ASSUME NEW S, NEW q \in Seq(S), q # <<>>
    PROVE  Thinned(Tail(q), q)
<1> DEFINE r == Tail(q)
           f == [j \in 1..Len(r) |-> j + 1]
<1>1. Len(r) = Len(q) - 1 /\ \A j \in 1..Len(r) : r[j] = q[j + 1]
  BY HeadTailProperties
<1> HIDE DEF r
<1>2. f \in [1..Len(r) -> 1..Len(q)]
  BY <1>1
<1>3. (\A j \in 1..Len(r) : r[j] = q[f[j]]) /\ \A i, j \in 1..Len(r) : i < j => f[i] < f[j]
  BY <1>1
<1> HIDE DEF f
<1>4. Thinned(r, q)
  BY <1>2, <1>3 DEF Thinned
<1> QED
  BY <1>4 DEF r

LEMMA RemoveThins ==
    ASSUME NEW S, NEW q \in Seq(S), NEW i, Contains(q, i)
    PROVE  /\ Thinned(Remove(q, i), q)
           /\ \A x : Contains(q, x) /\ x # i => Contains(Remove(q, i), x)
           /\ (\A j, k \in 1..Len(q) : j < k => q[j] # q[k]) => ~Contains(Remove(q, i), i)
<1> DEFINE r == Remove(q, i)
           n == IndexIn(q, i)
           f == [j \in 1..Len(r) |-> IF j < n THEN j ELSE j + 1]
<1>1. /\ n \in 1..Len(q) /\ q[n] = i /\ Len(r) = Len(q) - 1
      /\ \A j \in 1..Len(r) : r[j] = IF j < n THEN q[j] ELSE q[j + 1]
  BY RemoveClosesGap
<1> HIDE DEF r, n
<1>2. f \in [1..Len(r) -> 1..Len(q)]
  BY <1>1
<1>3. (\A j \in 1..Len(r) : r[j] = q[f[j]]) /\ \A j, k \in 1..Len(r) : j < k => f[j] < f[k]
  BY <1>1
<1>4. \A j \in 1..Len(r) : f[j] # n
  BY <1>1
<1> HIDE DEF f
<1>5. Thinned(r, q)
  BY <1>2, <1>3 DEF Thinned
<1>6. ASSUME NEW x, Contains(q, x), x # i
      PROVE  Contains(r, x)
  <2>1. PICK k \in 1..Len(q) : q[k] = x
    BY <1>6 DEF Contains
  <2>2. CASE k < n
    BY <2>1, <2>2, <1>1, k \in 1..Len(r) DEF Contains
  <2>3. CASE ~(k < n)
    <3>1. k > n /\ k - 1 \in 1..Len(r) /\ ~(k - 1 < n)
      BY <2>1, <2>3, <1>1, <1>6
    <3>2. r[k - 1] = x
      BY <3>1, <2>1, <1>1
    <3> QED
      BY <3>1, <3>2 DEF Contains
  <2> QED
    BY <2>2, <2>3
<1>7. ASSUME \A j, k \in 1..Len(q) : j < k => q[j] # q[k], Contains(r, i)
      PROVE  FALSE
  <2>1. PICK j \in 1..Len(r) : r[j] = i
    BY <1>7 DEF Contains
  <2>2. f[j] \in 1..Len(q) /\ f[j] # n /\ q[f[j]] = q[n]
    BY <2>1, <1>1, <1>2, <1>3, <1>4
  <2> QED
    BY <2>2, <1>1, <1>7
<1> QED
  BY <1>5, <1>6, <1>7 DEF r

(* What a thinner queue holds, the fuller one held.                        *)
LEMMA ThinnedContains ==
    ASSUME NEW r, NEW q, Thinned(r, q), NEW x, Contains(r, x)
    PROVE  Contains(q, x)
BY DEF Thinned, Contains

(* Pushes add their item and nothing else.                                 *)
LEMMA PushContains ==
    ASSUME NEW S, NEW q \in Seq(S), NEW i \in S, NEW x
    PROVE  /\ Contains(Append(q, i), x) <=> Contains(q, x) \/ x = i
           /\ Contains(PushFront(q, i), x) <=> Contains(q, x) \/ x = i
<1>1. Contains(Append(q, i), x) <=> Contains(q, x) \/ x = i
  <2>1. /\ Len(Append(q, i)) = Len(q) + 1 /\ Append(q, i)[Len(q) + 1] = i
        /\ \A j \in 1..Len(q) : Append(q, i)[j] = q[j]
    OBVIOUS
  <2>2. Len(q) \in Nat
    OBVIOUS
  <2>3. ASSUME Contains(Append(q, i), x) PROVE Contains(q, x) \/ x = i
    BY <2>1, <2>2, <2>3 DEF Contains
  <2>4. ASSUME Contains(q, x) \/ x = i PROVE Contains(Append(q, i), x)
    BY <2>1, <2>2, <2>4 DEF Contains
  <2> QED
    BY <2>3, <2>4
<1>2. Contains(PushFront(q, i), x) <=> Contains(q, x) \/ x = i
  <2>1. /\ Len(PushFront(q, i)) = Len(q) + 1 /\ PushFront(q, i)[1] = i
        /\ \A j \in 2..(Len(q) + 1) : PushFront(q, i)[j] = q[j - 1]
    BY PushFrontMovesBack
  <2>2. Len(q) \in Nat
    OBVIOUS
  <2>3. ASSUME Contains(PushFront(q, i), x) PROVE Contains(q, x) \/ x = i
    <3>1. PICK j \in 1..(Len(q) + 1) : PushFront(q, i)[j] = x
      BY <2>1, <2>3 DEF Contains
    <3>2. CASE j = 1
      BY <2>1, <3>1, <3>2
    <3>3. CASE j # 1
      <4>1. q[j - 1] = x /\ j - 1 \in 1..Len(q)
        BY <2>1, <2>2, <3>1, <3>3
      <4> QED
        BY <4>1 DEF Contains
    <3> QED
      BY <3>2, <3>3
  <2>4. ASSUME Contains(q, x) \/ x = i PROVE Contains(PushFront(q, i), x)
    <3>1. CASE x = i
      <4>1. 1 \in 1..Len(PushFront(q, i))
        BY <2>1, <2>2
      <4> QED
        BY <2>1, <3>1, <4>1 DEF Contains
    <3>2. CASE Contains(q, x)
      <4>1. PICK k \in 1..Len(q) : q[k] = x
        BY <3>2 DEF Contains
      <4>2. k + 1 \in 2..(Len(q) + 1) /\ PushFront(q, i)[k + 1] = q[k]
        BY <2>1, <2>2, <4>1
      <4>3. k + 1 \in 1..Len(PushFront(q, i))
        BY <2>1, <2>2, <4>1
      <4> QED
        BY <4>1, <4>2, <4>3 DEF Contains
    <3> QED
      BY <2>4, <3>1, <3>2
  <2> QED
    BY <2>3, <2>4
<1> QED
  BY <1>1, <1>2
=============================================================================
