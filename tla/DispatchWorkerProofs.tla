------------------------ MODULE DispatchWorkerProofs ------------------------
(***************************************************************************)
(* Proofs about the dispatch worker, for every configuration: its types, and *)
(* what holds of the attempts themselves (an accepted transaction is durable *)
(* until it is settled, a destination is attempted by one thread at a time,  *)
(* the copy of the destination an attempt works on is current, and a         *)
(* completed drain left nothing behind); and the moves that the steps of a   *)
(* thread are made of.                                                       *)
(***************************************************************************)
EXTENDS DispatchWorker, TLAPS

\* The backoff is a number of milliseconds (compute_backoff).
LEMMA BackoffType ==
    ASSUME NEW n \in Nat
    PROVE  compute_backoff(n) \in Nat
BY ConfigAssumption DEF compute_backoff

LEMMA FreshType == FreshDestination \in DestinationStates
BY DEF FreshDestination, DestinationStates

\* A process that is gone leaves a memory of the right shapes.
LEMMA LoseMemoryType == Shapes /\ LoseMemory => Shapes'
BY FreshType, ConfigAssumption, SMTT(60)
   DEF Shapes, LoseMemory, worker, control, threads, calls, disk, ledger, Flying, Holding

\* Erasing one entry of the queue keeps the others, in their order.
LEMMA EraseFacts ==
    ASSUME NEW S, NEW s \in Seq(S), NEW i \in 1..Len(s)
    PROVE  /\ Erase(s, i) \in Seq(S)
           /\ Len(Erase(s, i)) = Len(s) - 1
           /\ \A j \in 1..(Len(s) - 1) :
                Erase(s, i)[j] = s[IF j < i THEN j ELSE j + 1]
<1> DEFINE a == SubSeq(s, 1, i - 1)
           b == SubSeq(s, i + 1, Len(s))
<1>1. /\ a \in Seq(S)
      /\ Len(a) = i - 1
      /\ \A j \in 1..(i - 1) : a[j] = s[j]
  OBVIOUS
<1>2. /\ b \in Seq(S)
      /\ Len(b) = Len(s) - i
      /\ \A j \in 1..(Len(s) - i) : b[j] = s[i + j]
  OBVIOUS
<1>3. Erase(s, i) = a \o b
  BY DEF Erase
<1> HIDE DEF a, b
<1>4. Erase(s, i) \in Seq(S) /\ Len(Erase(s, i)) = Len(s) - 1
  BY <1>1, <1>2, <1>3
<1>5. ASSUME NEW j \in 1..(Len(s) - 1)
      PROVE  Erase(s, i)[j] = s[IF j < i THEN j ELSE j + 1]
  <2>1. CASE j < i
    BY <1>1, <1>2, <1>3, <2>1
  <2>2. CASE ~(j < i)
    <3>1. (a \o b)[j] = b[j - (i - 1)]
      BY <1>1, <1>2, <2>2
    <3>2. j - (i - 1) \in 1..(Len(s) - i)
      BY <2>2
    <3>3. b[j - (i - 1)] = s[j + 1]
      BY <1>2, <3>2
    <3>4. QED
      BY <1>3, <2>2, <3>1, <3>3
  <2>3. QED
    BY <2>1, <2>2
<1>6. QED
  BY <1>4, <1>5

(***************************************************************************)
(* Sequences of transactions.                                               *)
(***************************************************************************)
\* No identifier occurs twice in a sequence of transactions.
Distinct(s) == \A i, j \in 1..Len(s) : i # j => s[i].id # s[j].id

\* A transaction added at the back.
LEMMA AppendFacts ==
    ASSUME NEW s \in Seq(Transactions), NEW x \in Transactions
    PROVE  /\ Range(Append(s, x)) = Range(s) \cup {x}
           /\ Distinct(s) /\ x.id \notin Ids(Range(s)) => Distinct(Append(s, x))
<1>1. /\ Append(s, x) \in Seq(Transactions)
      /\ Len(Append(s, x)) = Len(s) + 1
      /\ \A i \in 1..Len(s) : Append(s, x)[i] = s[i]
      /\ Append(s, x)[Len(s) + 1] = x
  OBVIOUS
<1> DEFINE a == Append(s, x)
<1> HIDE DEF a
<1>2. Range(a) = Range(s) \cup {x}
  BY <1>1, SMTT(20) DEF Range, a
<1>3. ASSUME Distinct(s), x.id \notin Ids(Range(s)) PROVE Distinct(a)
  <2>1. \A i \in 1..Len(s) : s[i].id # x.id
    BY <1>3 DEF Range, Ids
  <2>2. QED
    BY <1>1, <1>3, <2>1 DEF Distinct, a
<1>4. QED
  BY <1>2, <1>3, Zenon DEF a

\* A transaction put back at the front.
LEMMA PrependFacts ==
    ASSUME NEW s \in Seq(Transactions), NEW x \in Transactions
    PROVE  /\ Range(<<x>> \o s) = Range(s) \cup {x}
           /\ Distinct(s) /\ x.id \notin Ids(Range(s)) => Distinct(<<x>> \o s)
<1> DEFINE a == <<x>> \o s
<1>1. /\ a \in Seq(Transactions)
      /\ Len(a) = Len(s) + 1
      /\ \A i \in 1..Len(s) : a[i + 1] = s[i]
      /\ a[1] = x
  OBVIOUS
<1> HIDE DEF a
<1>2. \A i \in 2..Len(a) : a[i] = s[i - 1]
  BY <1>1
<1>3. Range(a) = Range(s) \cup {x}
  <2>1. Range(a) \subseteq Range(s) \cup {x}
    BY <1>1, <1>2 DEF Range
  <2>2. Range(s) \subseteq Range(a)
    BY <1>1 DEF Range
  <2>3. x \in Range(a)
    BY <1>1 DEF Range
  <2>4. QED
    BY <2>1, <2>2, <2>3
<1>4. ASSUME Distinct(s), x.id \notin Ids(Range(s)) PROVE Distinct(a)
  <2>1. \A i \in 1..Len(s) : s[i].id # x.id
    BY <1>4 DEF Range, Ids
  <2>2. ASSUME NEW i \in 1..Len(a), NEW j \in 1..Len(a), i # j PROVE a[i].id # a[j].id
    <3>1. CASE i = 1
      <4>1. j \in 2..Len(a) /\ j - 1 \in 1..Len(s)
        BY <1>1, <2>2, <3>1
      <4>2. QED
        BY <1>1, <1>2, <2>1, <3>1, <4>1, Zenon
    <3>2. CASE j = 1
      <4>1. i \in 2..Len(a) /\ i - 1 \in 1..Len(s)
        BY <1>1, <2>2, <3>2, SMTT(20)
      <4>2. QED
        BY <1>1, <1>2, <2>1, <3>2, <4>1
    <3>3. CASE i # 1 /\ j # 1
      <4>1. /\ i \in 2..Len(a) /\ i - 1 \in 1..Len(s)
            /\ j \in 2..Len(a) /\ j - 1 \in 1..Len(s)
            /\ i - 1 # j - 1
        BY <1>1, <2>2, <3>3
      <4>2. QED
        BY <1>2, <1>4, <4>1 DEF Distinct
    <3>4. QED
      BY <3>1, <3>2, <3>3
  <2>3. QED
    BY <2>2 DEF Distinct
<1>5. QED
  BY <1>3, <1>4 DEF a

\* A transaction erased.
LEMMA RemoveFacts ==
    ASSUME NEW s \in Seq(Transactions), NEW i \in 1..Len(s), Distinct(s)
    PROVE  /\ Range(Erase(s, i)) = Range(s) \ {s[i]}
           /\ Distinct(Erase(s, i))
           /\ s[i] \in Range(s)
           /\ \A x \in Range(Erase(s, i)) : x.id # s[i].id
<1> DEFINE a == Erase(s, i)
<1>1. /\ a \in Seq(Transactions)
      /\ Len(a) = Len(s) - 1
      /\ \A j \in 1..(Len(s) - 1) : a[j] = s[IF j < i THEN j ELSE j + 1]
  BY EraseFacts, Zenon
<1> HIDE DEF a
<1>2. \A j \in 1..Len(a) : \E k \in 1..Len(s) : k # i /\ a[j] = s[k]
  BY <1>1, SMTT(60)
<1>3. \A k \in 1..Len(s) : k # i => \E j \in 1..Len(a) : a[j] = s[k]
  <2>1. ASSUME NEW k \in 1..Len(s), k < i PROVE \E j \in 1..Len(a) : a[j] = s[k]
    BY <1>1, <2>1
  <2>2. ASSUME NEW k \in 1..Len(s), k > i PROVE \E j \in 1..Len(a) : a[j] = s[k]
    <3>1. k - 1 \in 1..Len(a) /\ ~(k - 1 < i)
      BY <1>1, <2>2
    <3>2. a[k - 1] = s[k]
      BY <1>1, <3>1
    <3>3. QED
      BY <3>1, <3>2
  <2>3. QED
    BY <2>1, <2>2
<1>4. Range(a) = Range(s) \ {s[i]}
  <2>1. \A k \in 1..Len(s) : k # i => s[k] # s[i]
    BY DEF Distinct
  <2>2. Range(a) \subseteq Range(s) \ {s[i]}
    BY <1>1, <1>2, <2>1 DEF Range
  <2>3. ASSUME NEW x \in Range(s), x # s[i] PROVE x \in Range(a)
    <3>1. PICK k \in 1..Len(s) : x = s[k]
      BY SMTT(20) DEF Range
    <3>2. PICK j \in 1..Len(a) : a[j] = s[k]
      BY <1>3, <2>3, <3>1, Zenon
    <3>3. QED
      BY <3>1, <3>2 DEF Range
  <2>4. QED
    BY <2>2, <2>3
<1>5. Distinct(a)
  <2>1. ASSUME NEW j \in 1..Len(a), NEW k \in 1..Len(a), j # k PROVE a[j].id # a[k].id
    <3> DEFINE f(n) == IF n < i THEN n ELSE n + 1
    <3>1. f(j) \in 1..Len(s) /\ f(k) \in 1..Len(s) /\ f(j) # f(k)
      BY <1>1, <2>1
    <3>2. a[j] = s[f(j)] /\ a[k] = s[f(k)]
      BY <1>1
    <3>3. QED
      BY <3>1, <3>2 DEF Distinct
  <2>2. QED
    BY <2>1 DEF Distinct
<1>6. s[i] \in Range(s)
  BY DEF Range
<1>7. \A x \in Range(a) : x.id # s[i].id
  BY <1>1, <1>2 DEF Range, Distinct
<1>8. QED
  BY <1>4, <1>5, <1>6, <1>7 DEF a

\* The first of a non-empty sequence, and the rest.
LEMMA HeadTailFacts ==
    ASSUME NEW s \in Seq(Transactions), s # <<>>
    PROVE  /\ Head(s) \in Transactions
           /\ Tail(s) \in Seq(Transactions)
           /\ Len(Tail(s)) = Len(s) - 1
           /\ Range(s) = Range(Tail(s)) \cup {Head(s)}
           /\ Distinct(s) => Distinct(Tail(s)) /\ Head(s).id \notin Ids(Range(Tail(s)))
<1>1. /\ Head(s) \in Transactions /\ Tail(s) \in Seq(Transactions)
      /\ Len(Tail(s)) = Len(s) - 1
      /\ Len(s) \in Nat \ {0}
      /\ \A i \in 1..(Len(s) - 1) : Tail(s)[i] = s[i + 1]
      /\ Head(s) = s[1]
  OBVIOUS
<1>2. Range(s) = Range(Tail(s)) \cup {Head(s)}
  <2>1. \A i \in 2..Len(s) : s[i] = Tail(s)[i - 1] /\ i - 1 \in 1..Len(Tail(s))
    BY <1>1
  <2>2. ASSUME NEW x \in Range(s) PROVE x \in Range(Tail(s)) \cup {Head(s)}
    <3>1. PICK i \in 1..Len(s) : x = s[i]
      BY DEF Range
    <3>2. CASE i = 1
      BY <1>1, <3>1, <3>2
    <3>3. CASE i # 1
      <4>1. i \in 2..Len(s)
        BY <1>1, <3>3
      <4>2. x = Tail(s)[i - 1] /\ i - 1 \in 1..Len(Tail(s))
        BY <2>1, <3>1, <4>1
      <4>3. DOMAIN Tail(s) = 1..Len(Tail(s))
        BY <1>1
      <4>4. QED
        BY <4>2, <4>3, Zenon DEF Range
    <3>4. QED
      BY <3>2, <3>3
  <2>3. Range(Tail(s)) \subseteq Range(s)
    BY <1>1 DEF Range
  <2>4. Head(s) \in Range(s)
    BY <1>1 DEF Range
  <2>5. QED
    BY <2>2, <2>3, <2>4
<1>3. ASSUME Distinct(s) PROVE Distinct(Tail(s)) /\ Head(s).id \notin Ids(Range(Tail(s)))
  <2>1. Distinct(Tail(s))
    BY <1>1, <1>3 DEF Distinct
  <2>2. \A i \in 1..Len(Tail(s)) : Tail(s)[i].id # Head(s).id
    BY <1>1, <1>3 DEF Distinct
  <2>3. QED
    BY <1>1, <2>1, <2>2 DEF Range, Ids
<1>4. QED
  BY <1>1, <1>2, <1>3

\* Two sequences one after the other.
LEMMA ConcatFacts ==
    ASSUME NEW s \in Seq(Transactions), NEW r \in Seq(Transactions)
    PROVE  /\ Range(s \o r) = Range(s) \cup Range(r)
           /\ Distinct(s) /\ Distinct(r) /\ Ids(Range(s)) \cap Ids(Range(r)) = {}
                => Distinct(s \o r)
<1> DEFINE a == s \o r
<1>1. /\ a \in Seq(Transactions)
      /\ Len(a) = Len(s) + Len(r)
      /\ \A i \in 1..Len(s) : a[i] = s[i]
      /\ \A i \in 1..Len(r) : a[Len(s) + i] = r[i]
  OBVIOUS
<1> HIDE DEF a
<1>2. \A i \in 1..Len(a) : ~(i <= Len(s)) => i - Len(s) \in 1..Len(r) /\ a[i] = r[i - Len(s)]
  BY <1>1, SMTT(20)
<1>3. Range(a) = Range(s) \cup Range(r)
  <2>1. Range(a) \subseteq Range(s) \cup Range(r)
    BY <1>1, <1>2, SMTT(20) DEF Range
  <2>2. Range(s) \subseteq Range(a)
    BY <1>1 DEF Range
  <2>3. ASSUME NEW x \in Range(r) PROVE x \in Range(a)
    <3>1. PICK i \in 1..Len(r) : x = r[i]
      BY DEF Range
    <3>2. Len(s) + i \in 1..Len(a) /\ a[Len(s) + i] = x
      BY <1>1, <3>1
    <3>3. QED
      BY <3>2 DEF Range
  <2>4. QED
    BY <2>1, <2>2, <2>3
<1>4. ASSUME Distinct(s), Distinct(r), Ids(Range(s)) \cap Ids(Range(r)) = {}
      PROVE  Distinct(a)
  <2>1. \A i \in 1..Len(s), j \in 1..Len(r) : s[i].id # r[j].id
    BY <1>4 DEF Range, Ids
  <2>2. ASSUME NEW i \in 1..Len(a), NEW j \in 1..Len(a), i # j PROVE a[i].id # a[j].id
    <3>1. CASE i <= Len(s) /\ j <= Len(s)
      <4>1. i \in 1..Len(s) /\ j \in 1..Len(s)
        BY <3>1
      <4>2. QED
        BY <1>1, <1>4, <2>2, <4>1, Zenon DEF Distinct
    <3>2. CASE i <= Len(s) /\ ~(j <= Len(s))
      <4>1. i \in 1..Len(s) /\ j - Len(s) \in 1..Len(r) /\ a[j] = r[j - Len(s)]
        BY <1>2, <3>2
      <4>2. s[i].id # r[j - Len(s)].id
        BY <2>1, <4>1
      <4>3. QED
        BY <1>1, <4>1, <4>2
    <3>3. CASE ~(i <= Len(s)) /\ j <= Len(s)
      <4>1. j \in 1..Len(s) /\ i - Len(s) \in 1..Len(r) /\ a[i] = r[i - Len(s)]
        BY <1>2, <3>3
      <4>2. s[j].id # r[i - Len(s)].id
        BY <2>1, <4>1
      <4>3. QED
        BY <1>1, <4>1, <4>2
    <3>4. CASE ~(i <= Len(s)) /\ ~(j <= Len(s))
      <4>1. i - Len(s) # j - Len(s)
        BY <1>1, <2>2
      <4>2. QED
        BY <1>2, <1>4, <3>4, <4>1, Zenon DEF Distinct
    <3>5. QED
      BY <3>1, <3>2, <3>3, <3>4
  <2>3. QED
    BY <2>2 DEF Distinct
<1>5. QED
  BY <1>3, <1>4, Zenon DEF a

\* Nothing to keep apart.
LEMMA EmptyFacts == Range(<<>>) = {} /\ Distinct(<<>>) /\ Ids({}) = {}
BY SMTT(20) DEF Range, Distinct, Ids

\* Oldest first.
Sorted(s) == \A i, j \in 1..Len(s) : i < j => s[i].id < s[j].id

\* Of the ids from b on, each follows every other of its destination in s.
InOrder(s, b) ==
    \A j, i \in 1..Len(s) : j < i /\ s[i].id >= b /\ s[j].dst = s[i].dst => s[j].id < s[i].id

\* x goes before what is left of its destination among some transactions.
Leads(x, Y, b) == \A y \in Y : y.id >= b /\ x.dst = y.dst => x.id < y.id

LEMMA OrderAppend ==
    ASSUME NEW s \in Seq(Transactions), NEW x \in Transactions, NEW b \in Nat,
           InOrder(s, b), x.id < b
    PROVE  InOrder(Append(s, x), b)
<1> DEFINE a == Append(s, x)
<1>1. /\ Len(a) = Len(s) + 1 /\ Len(s) \in Nat /\ x.id \in Nat
      /\ \A i \in 1..Len(s) : a[i] = s[i]
      /\ a[Len(s) + 1] = x
  BY SMTT(20) DEF Transactions
<1> HIDE DEF a
<1>2. SUFFICES ASSUME NEW j \in 1..Len(a), NEW i \in 1..Len(a), j < i, a[i].id >= b, a[j].dst = a[i].dst
               PROVE  a[j].id < a[i].id
  BY DEF InOrder, a
<1>3. i # Len(s) + 1
  BY <1>1, <1>2
<1>4. i \in 1..Len(s) /\ j \in 1..Len(s)
  BY ONLY <1>1, <1>2, <1>3, i \in 1..Len(a), j \in 1..Len(a)
<1>5. QED
  BY <1>1, <1>2, <1>4 DEF InOrder

LEMMA OrderConcat ==
    ASSUME NEW s \in Seq(Transactions), NEW r \in Seq(Transactions), NEW b,
           InOrder(s, b), Sorted(r), \A m \in Ids(Range(s)), n \in Ids(Range(r)) : m < n
    PROVE  InOrder(s \o r, b)
<1> DEFINE a == s \o r
<1>1. /\ Len(a) = Len(s) + Len(r) /\ Len(s) \in Nat /\ Len(r) \in Nat
      /\ \A i \in 1..Len(s) : a[i] = s[i]
      /\ \A i \in (Len(s) + 1)..Len(a) : a[i] = r[i - Len(s)]
  BY SMTT(20)
<1>2. /\ \A i \in 1..Len(s) : s[i].id \in Ids(Range(s))
      /\ \A i \in 1..Len(r) : r[i].id \in Ids(Range(r))
  BY SMTT(20) DEF Range, Ids
<1> HIDE DEF a
<1>3. SUFFICES ASSUME NEW j \in 1..Len(a), NEW i \in 1..Len(a), j < i, a[i].id >= b, a[j].dst = a[i].dst
               PROVE  a[j].id < a[i].id
  BY Zenon DEF InOrder, a
<1>4. CASE i <= Len(s)
  <2>1. i \in 1..Len(s) /\ j \in 1..Len(s)
    BY ONLY <1>1, <1>3, <1>4, i \in 1..Len(a), j \in 1..Len(a), SMTT(20)
  <2>2. QED
    BY <1>1, <1>3, <2>1, Zenon DEF InOrder
<1>5. CASE i > Len(s) /\ j <= Len(s)
  <2>1. i - Len(s) \in 1..Len(r) /\ i \in (Len(s) + 1)..Len(a) /\ j \in 1..Len(s)
    BY ONLY <1>1, <1>5, i \in 1..Len(a), j \in 1..Len(a), SMTT(20)
  <2>2. a[i].id \in Ids(Range(r)) /\ a[j].id \in Ids(Range(s))
    BY ONLY <1>1, <1>2, <2>1, Zenon
  <2>3. QED
    BY <2>2
<1>6. CASE i > Len(s) /\ j > Len(s)
  <2>1. /\ i - Len(s) \in 1..Len(r) /\ i \in (Len(s) + 1)..Len(a)
        /\ j - Len(s) \in 1..Len(r) /\ j \in (Len(s) + 1)..Len(a) /\ j - Len(s) < i - Len(s)
    BY ONLY <1>1, <1>3, <1>6, i \in 1..Len(a), j \in 1..Len(a)
  <2>2. QED
    BY <1>1, <2>1, Zenon DEF Sorted
<1>7. QED
  BY <1>1, <1>4, <1>5, <1>6, SMTT(20)

\* Erasing the first of a destination: the rest is in order, and follows it.
LEMMA OrderErase ==
    ASSUME NEW s \in Seq(Transactions), NEW i \in 1..Len(s), NEW b, InOrder(s, b),
           \A j \in 1..(i - 1) : s[j].dst # s[i].dst
    PROVE  InOrder(Erase(s, i), b) /\ Leads(s[i], Range(Erase(s, i)), b)
<1> DEFINE a == Erase(s, i)
<1>1. /\ a \in Seq(Transactions) /\ Len(a) = Len(s) - 1 /\ Len(s) \in Nat
      /\ \A j \in 1..(Len(s) - 1) : a[j] = s[IF j < i THEN j ELSE j + 1]
  BY EraseFacts, SMTT(20)
<1> HIDE DEF a
<1> DEFINE f(j) == IF j < i THEN j ELSE j + 1
<1>2. \A j \in 1..Len(a) : f(j) \in 1..Len(s) /\ f(j) # i /\ a[j] = s[f(j)]
  BY <1>1, SMTT(20)
<1>3. \A j, k \in 1..Len(a) : j < k => f(j) < f(k)
  BY <1>1, SMTT(20)
<1>4. InOrder(a, b)
  <2> HIDE DEF f
  <2>1. QED
    BY <1>2, <1>3, Zenon DEF InOrder
<1>5. Leads(s[i], Range(a), b)
  <2>1. SUFFICES ASSUME NEW j \in 1..Len(a), a[j].id >= b, s[i].dst = a[j].dst
                 PROVE  s[i].id < a[j].id
    BY <1>1 DEF Leads, Range
  <2>2. /\ f(j) \in 1..Len(s) /\ i < f(j) /\ a[j] = s[f(j)]
    <3>1. f(j) \in 1..Len(s) /\ f(j) # i /\ a[j] = s[f(j)]
      BY <1>2
    <3>2. f(j) \notin 1..(i - 1)
      BY <2>1, <3>1, Zenon
    <3> HIDE DEF f
    <3>3. QED
      BY ONLY <1>1, <3>1, <3>2, i \in 1..Len(s)
  <2> HIDE DEF f
  <2>3. QED
    BY <2>1, <2>2, Zenon DEF InOrder
<1>6. QED
  BY <1>4, <1>5, Zenon DEF a

LEMMA OrderPrepend ==
    ASSUME NEW s \in Seq(Transactions), NEW x \in Transactions, NEW b,
           InOrder(s, b), Leads(x, Range(s), b)
    PROVE  InOrder(<<x>> \o s, b)
<1> DEFINE a == <<x>> \o s
<1>1. /\ Len(a) = Len(s) + 1 /\ Len(s) \in Nat
      /\ a[1] = x /\ \A i \in 2..Len(a) : a[i] = s[i - 1]
  OBVIOUS
<1>2. \A i \in 1..Len(s) : s[i] \in Range(s)
  BY SMTT(20) DEF Range
<1> HIDE DEF a
<1>3. SUFFICES ASSUME NEW j \in 1..Len(a), NEW i \in 1..Len(a), j < i, a[i].id >= b, a[j].dst = a[i].dst
               PROVE  a[j].id < a[i].id
  BY DEF InOrder, a
<1>4. i \in 2..Len(a) /\ i - 1 \in 1..Len(s)
  BY ONLY <1>1, <1>3, i \in 1..Len(a), j \in 1..Len(a), SMTT(20)
<1>5. CASE j = 1
  BY <1>1, <1>2, <1>3, <1>4, <1>5, Zenon DEF Leads
<1>6. CASE j # 1
  <2>1. j \in 2..Len(a) /\ j - 1 \in 1..Len(s) /\ j - 1 < i - 1
    BY ONLY <1>1, <1>3, <1>6, i \in 1..Len(a), j \in 1..Len(a)
  <2>2. QED
    BY <1>1, <1>3, <1>4, <2>1, Zenon DEF InOrder
<1>7. QED
  BY <1>5, <1>6

(***************************************************************************)
(* Types.                                                                  *)
(***************************************************************************)
\* Every variable keeps the shape the code gives it.
LEMMA ShapesInit == Init => Shapes
BY FreshType DEF Init, Shapes, NoDrain, Flying, Holding

\* What a failed or a slow answer makes of a destination is a destination.
LEMMA ResultType ==
    ASSUME NEW d \in DestinationStates, NEW ok \in BOOLEAN, NEW ts \in Nat
    PROVE  /\ apply_outbound_result(d, ok, ts) \in DestinationStates
           /\ apply_slow_success(d.failures, ts) \in DestinationStates
<1>1. d.failures + 1 \in Nat
  BY DEF DestinationStates
<1>2. ts + compute_backoff(d.failures + 1) \in Nat
  BY <1>1, BackoffType
<1>3. QED
  BY <1>1, <1>2, FreshType
     DEF apply_outbound_result, apply_slow_success, DestinationStates

\* Writing or deleting a row leaves well-shaped rows.
LEMMA RowsType ==
    ASSUME rows \subseteq Transactions, NEW row \in Transactions
    PROVE  /\ store_federation_transaction(row) => rows' \subseteq Transactions
           /\ delete_federation_transaction(row) => rows' \subseteq Transactions
BY DEF store_federation_transaction, delete_federation_transaction

\* A released slot leaves a count per destination.
LEMMA ReleaseSlotType ==
    ASSUME slots \in [Destinations -> Nat], NEW d \in Destinations,
           release_destination_slot_locked(d)
    PROVE  slots' \in [Destinations -> Nat]
BY DEF release_destination_slot_locked

\* An admitted transaction leaves a queue and a count per destination.
LEMMA PushType ==
    ASSUME queue \in Seq(Transactions), slots \in [Destinations -> Nat],
           NEW row \in Transactions, row.dst \in Destinations, push_queue_locked(row)
    PROVE  queue' \in Seq(Transactions) /\ slots' \in [Destinations -> Nat]
BY DEF push_queue_locked

\* Taking a transaction keeps every shape (take_next).
LEMMA TakeType ==
    ASSUME Shapes, NEW t \in Threads, NEW dueBy, take_next(t, dueBy)
    PROVE  Shapes'
<1>1. PICK i \in 1..Len(queue) :
        /\ job' = [job EXCEPT ![t] = queue[i]]
        /\ queue' = Erase(queue, i)
        /\ inFlight' = inFlight \cup {queue[i].dst}
  BY Zenon DEF take_next
<1>2. queue \in Seq(Transactions) /\ parked \in Seq(Transactions)
  BY DEF Shapes
<1>3. queue[i] \in Transactions
  BY ONLY <1>2
<1>4. queue[i].dst \in Destinations
  BY ONLY <1>3 DEF Transactions
<1>5. queue' \in Seq(Transactions)
  BY <1>1, <1>2, EraseFacts
<1>6. Len(parked) \in Nat
  BY ONLY <1>2
<1>7. toLook' = Len(parked) /\ mutex' = t /\ pc' = [pc EXCEPT ![t] = "topup"]
  BY DEF take_next, Goto
<1>8. UNCHANGED <<control, parked, slots, dest, seen, at, batch, taken,
                  takenPer, toReplay, excluded, disk, ledger, now, faults>>
  BY DEF take_next
<1>9. inFlight' \subseteq Destinations
  BY <1>1, <1>4 DEF Shapes
<1>10. job' \in [Threads -> Transactions \cup {NoTransaction}]
  BY <1>1, <1>3 DEF Shapes
<1>11. ASSUME NEW u \in Threads, pc'[u] \in Flying PROVE job'[u] \in Transactions
  BY <1>1, <1>3, <1>7, <1>11 DEF Shapes
<1>12. pc' \in [Threads -> Flying \cup {"loop", "poll", "drain", "drainTake", "done"}]
  BY <1>7 DEF Shapes, Flying, Holding
<1>13. QED
  BY <1>5, <1>6, <1>7, <1>8, <1>9, <1>10, <1>11, <1>12, Zenon DEF Shapes, control, disk, ledger

\* A retry keeps every shape (PersistAndRequeue).
LEMMA RequeueType ==
    ASSUME Shapes, NEW t \in Threads, pc[t] \in Holding,
           NEW row \in Transactions, row.dst \in Destinations, PersistAndRequeue(t, row)
    PROVE  Shapes'
<1>1. UNCHANGED <<control, parked, inFlight, dest, job, seen, at, calls, destRows,
                  ledger, mutex, now>>
  BY DEF PersistAndRequeue
<1>2. pc' = [pc EXCEPT ![t] = "release"]
  BY DEF PersistAndRequeue, Goto
<1>3. rows' \subseteq Transactions
  BY RowsType DEF PersistAndRequeue, Shapes
<1>4. queue' \in Seq(Transactions)
  <2>1. queue \in Seq(Transactions)
    BY DEF Shapes
  <2>2. QED
    BY <2>1 DEF PersistAndRequeue, requeue_locked
<1>5. slots' \in [Destinations -> Nat]
  <2>1. slots \in [Destinations -> Nat]
    BY DEF Shapes
  <2>2. QED
    BY <2>1, ReleaseSlotType DEF PersistAndRequeue
<1>6. faults' \in Nat
  BY DEF PersistAndRequeue, Fault, Shapes
<1>7. job[t] \in Transactions
  BY DEF Shapes, Flying
<1>8. QED
  BY <1>1, <1>2, <1>3, <1>4, <1>5, <1>6, <1>7, Zenon
     DEF Shapes, control, calls, ledger, Flying, Holding

LEMMA ShapesNext == Shapes /\ [Next]_vars => Shapes'
<1> SUFFICES ASSUME Shapes, [Next]_vars PROVE Shapes'
  OBVIOUS
<1> USE FreshType, ConfigAssumption
    DEF Shapes, worker, control, threads, calls, disk, ledger, Flying, Holding
<1>1. CASE EnqueueBegin
  <2>1. batch' \in Seq(Transactions)
    <3>1. PICK n \in 1..MaxBatch : \E to \in [1..n -> Destinations] :
            batch' = [k \in 1..n |-> [id |-> nextTxn + k - 1, dst |-> to[k],
                                      retries |-> 0, due |-> 0]]
      BY <1>1, Zenon DEF EnqueueBegin
    <3>2. PICK to \in [1..n -> Destinations] :
            batch' = [k \in 1..n |-> [id |-> nextTxn + k - 1, dst |-> to[k],
                                      retries |-> 0, due |-> 0]]
      BY <3>1, Zenon
    <3>3. \A k \in 1..n : [id |-> nextTxn + k - 1, dst |-> to[k],
                           retries |-> 0, due |-> 0] \in Transactions
      <4>1. nextTxn \in Nat
        OBVIOUS
      <4>2. QED
        BY ONLY <4>1, MaxBatch \in Nat, n \in 1..MaxBatch, to \in [1..n -> Destinations]
           DEF Transactions
    <3>4. QED
      BY ONLY <3>2, <3>3, n \in 1..MaxBatch, MaxBatch \in Nat
  <2>2. nextTxn' \in Nat
    <3>1. PICK n \in 1..MaxBatch : nextTxn' = nextTxn + n
      BY <1>1 DEF EnqueueBegin
    <3>2. QED
      BY <3>1
  <2>3. mutex' = Caller
    BY ONLY <1>1, Zenon DEF EnqueueBegin
  <2>4. UNCHANGED <<worker, control, threads, disk, accepted, delivered, dropped,
                    toLook, taken, takenPer, toReplay, excluded, now, faults>>
    BY <1>1 DEF EnqueueBegin
  <2>5. QED
    BY <2>1, <2>2, <2>3, <2>4, Zenon
<1>2. CASE EnqueueConsider
  <2>1. batch \in Seq(Transactions) /\ batch # <<>>
    BY <1>2 DEF EnqueueConsider
  <2>2. Head(batch) \in Transactions /\ Tail(batch) \in Seq(Transactions)
    BY ONLY <2>1
  <2>3. Head(batch).dst \in Destinations
    BY <2>2, Zenon DEF Transactions
  <2>4. taken' \in Seq(Transactions)
    <3>1. taken \in Seq(Transactions)
      BY Zenon
    <3>2. taken' = taken \/ taken' = Append(taken, Head(batch))
      BY <1>2 DEF EnqueueConsider
    <3>3. QED
      BY ONLY <2>2, <3>1, <3>2
  <2>5. takenPer' \in [Destinations -> Nat]
    <3>1. takenPer \in [Destinations -> Nat]
      BY Zenon
    <3>2. \/ takenPer' = takenPer
          \/ takenPer' = [takenPer EXCEPT ![Head(batch).dst] = @ + 1]
      BY ONLY <1>2 DEF EnqueueConsider
    <3>3. QED
      BY ONLY <2>3, <3>1, <3>2
  <2>6. batch' = Tail(batch)
    BY <1>2 DEF EnqueueConsider
  <2>7. UNCHANGED <<worker, control, threads, disk, ledger, mutex, toLook,
                    toReplay, excluded, now, faults>>
    BY ONLY <1>2, Zenon DEF EnqueueConsider
  <2>8. QED
    BY <2>2, <2>4, <2>5, <2>6, <2>7, Zenon
<1>3. CASE EnqueueCommit
  <2>1. \/ /\ rows' = rows \cup {taken[k] : k \in 1..Len(taken)}
           /\ queue' = queue \o taken
           /\ slots' = [d \in Destinations |-> slots[d] + takenPer[d]]
           /\ accepted' = accepted \cup {taken[k].id : k \in 1..Len(taken)}
           /\ UNCHANGED faults
        \/ /\ faults' = faults + 1
           /\ UNCHANGED <<rows, queue, slots, accepted>>
    BY <1>3, Zenon DEF EnqueueCommit, Fault
  <2>2. taken \in Seq(Transactions) /\ queue \in Seq(Transactions)
    OBVIOUS
  <2>3. \A k \in 1..Len(taken) : taken[k] \in Transactions /\ taken[k].id \in Nat
    <3>1. \A k \in 1..Len(taken) : taken[k] \in Transactions
      BY ONLY <2>2
    <3>2. QED
      BY ONLY <3>1 DEF Transactions
  <2>4. queue' \in Seq(Transactions)
    <3>1. queue \o taken \in Seq(Transactions)
      BY ONLY <2>2
    <3>2. queue' = queue \o taken \/ queue' = queue
      BY ONLY <2>1
    <3>3. QED
      BY ONLY <2>2, <3>1, <3>2, Zenon
  <2>5. rows' \subseteq Transactions /\ accepted' \subseteq Nat
    <3>1. rows \subseteq Transactions /\ accepted \subseteq Nat
      BY Zenon
    <3>2. QED
      BY ONLY <2>1, <2>3, <3>1
  <2>6. slots' \in [Destinations -> Nat] /\ faults' \in Nat
    <3>1. slots \in [Destinations -> Nat] /\ takenPer \in [Destinations -> Nat] /\ faults \in Nat
      BY Zenon
    <3>2. QED
      BY ONLY <2>1, <3>1
  <2>7. taken' = <<>> /\ takenPer' = [d \in Destinations |-> 0] /\ mutex' = Free
    BY ONLY <1>3, Zenon DEF EnqueueCommit
  <2>8. UNCHANGED <<control, threads, parked, inFlight, dest, destRows, nextTxn,
                    delivered, dropped, toLook, batch, toReplay, excluded, now>>
    BY ONLY <1>3, Zenon DEF EnqueueCommit
  <2>9. QED
    BY <2>4, <2>5, <2>6, <2>7, <2>8, SMTT(60)
<1>4. CASE Boot
  <2>1. boots \in Nat
    BY Zenon
  <2>2. boots' \in Nat
    BY ONLY <1>4, <2>1 DEF Boot
  <2>3. refused' \subseteq Destinations
    BY ONLY <1>4, ConfigAssumption, Zenon DEF Boot
  <2>4. QED
    BY <1>4, <2>2, <2>3, Zenon DEF Boot
<1>5. CASE ReplayRow
  <2>1. PICK row \in toReplay :
          /\ toReplay' = toReplay \ {row}
          /\ \/ /\ excluded' = excluded \cup {row}
                /\ UNCHANGED <<queue, slots, parked>>
             \/ /\ parked' = Append(parked, row)
                /\ UNCHANGED <<queue, slots, excluded>>
             \/ /\ push_queue_locked(row)
                /\ UNCHANGED <<parked, excluded>>
    BY <1>5 DEF ReplayRow
  <2>2. row \in Transactions /\ row.dst \in Destinations
    <3>1. row \in Transactions
      OBVIOUS
    <3>2. QED
      BY ONLY <3>1 DEF Transactions
  <2>3. queue' \in Seq(Transactions) /\ slots' \in [Destinations -> Nat]
    <3>1. queue \in Seq(Transactions) /\ slots \in [Destinations -> Nat]
      OBVIOUS
    <3>2. \/ UNCHANGED <<queue, slots>>
          \/ push_queue_locked(row)
      BY ONLY <2>1
    <3>3. QED
      BY ONLY <2>2, <3>1, <3>2, PushType
  <2>4. parked' \in Seq(Transactions)
    <3>1. parked \in Seq(Transactions)
      OBVIOUS
    <3>2. parked' = parked \/ parked' = Append(parked, row)
      BY ONLY <2>1
    <3>3. QED
      BY ONLY <2>2, <3>1, <3>2
  <2>5. toReplay' \subseteq Transactions /\ excluded' \subseteq Transactions
    <3>1. toReplay \subseteq Transactions /\ excluded \subseteq Transactions
      BY Zenon
    <3>2. QED
      BY ONLY <2>1, <2>2, <3>1
  <2>6. UNCHANGED <<control, inFlight, dest, threads, toLook, batch, taken,
                    takenPer, disk, ledger, mutex, now, faults>>
    BY <1>5 DEF ReplayRow
  <2>7. QED
    BY <2>3, <2>4, <2>5, <2>6, Zenon
<1>6. CASE Start
  <2>1. PICK gone \in SUBSET excluded :
          /\ rows' = rows \ gone
          /\ dropped' = dropped \cup {row.id : row \in gone}
          /\ faults' = faults \/ faults' = faults + 1
    BY ONLY <1>6, Zenon DEF Start, DeleteExcluded, Fault
  <2>2. rows' \subseteq Transactions /\ faults' \in Nat
    BY <2>1
  <2>3. dropped' \subseteq Nat
    <3>1. \A row \in gone : row.id \in Nat
      BY DEF Transactions
    <3>2. dropped \subseteq Nat
      OBVIOUS
    <3>3. QED
      BY ONLY <2>1, <3>1, <3>2, Zenon
  <2>4. PICK started \in SUBSET Threads :
          pc' = [t \in Threads |-> IF t \in started THEN "loop" ELSE "done"]
    BY ONLY <1>6, Zenon DEF Start, DeleteExcluded
  <2>5. /\ excluded' = {}
        /\ life' = "running"
        /\ mutex' = Free
    BY <1>6, Zenon DEF Start, DeleteExcluded
  <2>6. UNCHANGED <<worker, refused, shutdown, drainDueBy, drainCut, born, boots,
                    job, seen, at, toLook, batch, taken, takenPer, toReplay,
                    destRows, nextTxn, accepted, delivered, now>>
    BY ONLY <1>6, Zenon DEF Start, DeleteExcluded
  <2>7. QED
    BY <2>2, <2>3, <2>4, <2>5, <2>6, Zenon
<1>7. CASE request_shutdown
  BY <1>7, Zenon DEF request_shutdown
<1>8. CASE Exit
  BY <1>8, LoseMemoryType, Zenon DEF Exit
<1>9. CASE Crash
  BY <1>9, LoseMemoryType, Zenon DEF Crash
<1>10. CASE Tick
  <2>1. now' \in Nat
    BY <1>10 DEF Tick
  <2>2. QED
    BY <1>10, <2>1, Zenon DEF Tick
<1>11. ASSUME NEW t \in Threads, ThreadStep(t) PROVE Shapes'
  <2>1. CASE LoopCheck(t)
    BY <2>1, Zenon DEF LoopCheck, Goto
  <2>2. CASE Poll(t)
    BY <2>2, TakeType, Zenon DEF Poll
  <2>3. CASE PollIdle(t)
    BY <2>3 DEF PollIdle, Goto
  <2>4. CASE TopUp(t)
    <3>1. parked \in Seq(Transactions) /\ queue \in Seq(Transactions)
      BY Zenon
    <3>2. /\ mutex' \in {mutex, Free}
          /\ pc' = pc \/ pc' = [pc EXCEPT ![t] = "begin"]
      BY ONLY <2>4, Zenon DEF TopUp, Goto
    <3>3. UNCHANGED <<control, inFlight, dest, job, seen, at, batch, taken,
                      takenPer, toReplay, excluded, disk, ledger, now, faults>>
      BY <2>4 DEF TopUp
    <3>4. toLook' \in Nat
      <4>1. toLook \in Nat
        BY Zenon
      <4>2. toLook' = 0 \/ (toLook # 0 /\ toLook' = toLook - 1)
        BY ONLY <2>4, Zenon DEF TopUp
      <4>3. QED
        BY ONLY <4>1, <4>2
    <3>5. /\ queue' \in Seq(Transactions)
          /\ slots' \in [Destinations -> Nat]
          /\ parked' \in Seq(Transactions)
      <4>1. CASE UNCHANGED <<queue, slots, parked>>
        BY <4>1
      <4>2. CASE /\ parked # <<>>
                 /\ \/ /\ parked' = Append(Tail(parked), Head(parked))
                       /\ UNCHANGED <<queue, slots>>
                    \/ /\ parked' = Tail(parked)
                       /\ push_queue_locked(Head(parked))
        <5>1. Head(parked) \in Transactions /\ Tail(parked) \in Seq(Transactions)
          BY ONLY <3>1, <4>2
        <5>2. Head(parked).dst \in Destinations
          BY ONLY <5>1 DEF Transactions
        <5>3. parked' \in Seq(Transactions)
          BY ONLY <4>2, <5>1
        <5>4. slots \in [Destinations -> Nat]
          OBVIOUS
        <5>5. UNCHANGED <<queue, slots>> \/ push_queue_locked(Head(parked))
          BY ONLY <4>2
        <5>6. queue' \in Seq(Transactions) /\ slots' \in [Destinations -> Nat]
          BY ONLY <3>1, <5>1, <5>2, <5>4, <5>5, PushType
        <5>7. QED
          BY <5>3, <5>6
      <4>3. QED
        BY ONLY <2>4, <4>1, <4>2, Zenon DEF TopUp
    <3>6. QED
      BY <2>4, <3>2, <3>3, <3>4, <3>5, Zenon DEF TopUp
  <2>5. CASE AttemptBegin(t)
    <3>1. job[t].dst \in Destinations
      BY <2>5, Zenon DEF AttemptBegin, Transactions
    <3>2. seen' = [seen EXCEPT ![t] = dest[job[t].dst]]
      BY ONLY <2>5, Zenon DEF AttemptBegin
    <3>3. seen' \in [Threads -> DestinationStates]
      BY <3>1, <3>2
    <3>4. /\ at' = [at EXCEPT ![t] = now]
          /\ \E l \in {"resolve", "circuit"} : pc' = [pc EXCEPT ![t] = l]
          /\ job[t] \in Transactions
      BY <2>5, Zenon DEF AttemptBegin, Goto
    <3>5. UNCHANGED <<worker, control, job, calls, disk, ledger, mutex, now, faults>>
      BY ONLY <2>5, Zenon DEF AttemptBegin
    <3>6. QED
      BY <3>3, <3>4, <3>5, Zenon
  <2>6. CASE wait_out_open_circuit(t)
    <3> DEFINE due == IF seen[t].retryAfter > at[t] THEN seen[t].retryAfter
                      ELSE at[t] + compute_backoff(job[t].retries)
    <3>1. job[t] \in Transactions /\ pc[t] \in Holding
      BY <2>6 DEF wait_out_open_circuit
    <3>2. due \in Nat
      <4>1. job[t].retries \in Nat
        BY <3>1 DEF Transactions
      <4>2. seen[t].retryAfter \in Nat
        BY DEF DestinationStates
      <4>3. at[t] \in Nat
        OBVIOUS
      <4>4. compute_backoff(job[t].retries) \in Nat
        BY ONLY <4>1, BackoffType
      <4>5. QED
        BY ONLY <4>2, <4>3, <4>4
    <3> HIDE DEF due
    <3>3. [job[t] EXCEPT !.due = due] \in Transactions
      BY <3>1, <3>2, Zenon DEF Transactions
    <3>4. [job[t] EXCEPT !.due = due].dst \in Destinations
      BY <3>3, Zenon DEF Transactions
    <3>5. PersistAndRequeue(t, [job[t] EXCEPT !.due = due])
      BY <2>6 DEF wait_out_open_circuit, due
    <3>6. QED
      BY <3>1, <3>3, <3>4, <3>5, RequeueType, Zenon
  <2>7. CASE Discover(t)
    <3>1. seen[t] \in DestinationStates /\ now \in Nat
      OBVIOUS
    <3>2. apply_outbound_result(seen[t], FALSE, now) \in DestinationStates
      BY ONLY <3>1, ResultType, Zenon
    <3>3. /\ \/ seen' = seen
             \/ seen' = [seen EXCEPT ![t] = apply_outbound_result(seen[t], FALSE, now)]
          /\ at' = at \/ at' = [at EXCEPT ![t] = now]
      BY <2>7, Zenon DEF Discover
    <3>4. /\ \E l \in {"send", "failed"} : pc' = [pc EXCEPT ![t] = l]
          /\ job[t] \in Transactions
      BY <2>7, Zenon DEF Discover, Goto
    <3>5. UNCHANGED <<worker, control, job, calls, disk, ledger, mutex, now, faults>>
      BY <2>7 DEF Discover
    <3>6. seen' \in [Threads -> DestinationStates] /\ at' \in [Threads -> Nat]
      <4>1. seen \in [Threads -> DestinationStates] /\ at \in [Threads -> Nat]
        OBVIOUS
      <4>2. QED
        BY ONLY <3>1, <3>2, <3>3, <4>1, Zenon
    <3>7. QED
      BY <3>4, <3>5, <3>6, Zenon
  <2>8. CASE Perform(t)
    <3>1. seen[t] \in DestinationStates /\ now \in Nat
      OBVIOUS
    <3>2. PICK ok \in BOOLEAN :
            /\ seen' = [seen EXCEPT ![t] =
                          IF ok /\ now - at[t] > SlowAttempt
                          THEN apply_slow_success(seen[t].failures, now)
                          ELSE apply_outbound_result(seen[t], ok, now)]
            /\ Goto(t, IF ok THEN "succeeded" ELSE "failed")
      BY <2>8, Zenon DEF Perform
    <3>3. /\ apply_outbound_result(seen[t], ok, now) \in DestinationStates
          /\ apply_slow_success(seen[t].failures, now) \in DestinationStates
      BY ONLY <3>1, ResultType, Zenon
    <3>4. seen' \in [Threads -> DestinationStates]
      BY <3>2, <3>3
    <3>5. /\ \E l \in {"succeeded", "failed"} : pc' = [pc EXCEPT ![t] = l]
          /\ job[t] \in Transactions
      BY <2>8, <3>2, Zenon DEF Perform, Goto
    <3>6. /\ at' = [at EXCEPT ![t] = now]
          /\ UNCHANGED <<worker, control, job, calls, disk, ledger, mutex, now, faults>>
      BY <2>8 DEF Perform
    <3>7. QED
      BY <3>4, <3>5, <3>6, Zenon
  <2>9. CASE AttemptSucceeded(t)
    <3>1. job[t] \in Transactions
      BY <2>9, Zenon DEF AttemptSucceeded
    <3>2. job[t].dst \in Destinations /\ job[t].id \in Nat
      BY <3>1 DEF Transactions
    <3>3. dest' \in [Destinations -> DestinationStates] /\ destRows' \in [Destinations -> DestinationStates]
      BY <2>9, <3>2, Zenon DEF AttemptSucceeded, remember_destination_locked
    <3>4. rows' \subseteq Transactions
      BY <2>9, <3>1, RowsType, Zenon DEF AttemptSucceeded
    <3>5. slots' \in [Destinations -> Nat]
      BY <2>9, <3>2, ReleaseSlotType DEF AttemptSucceeded
    <3>6. delivered' \subseteq Nat /\ faults' \in Nat
      <4>1. /\ delivered' = delivered \cup {job[t].id} \/ delivered' = delivered
            /\ faults' = faults \/ faults' = faults + 1
        BY <2>9 DEF AttemptSucceeded, Fault
      <4>2. delivered \subseteq Nat /\ faults \in Nat
        OBVIOUS
      <4>3. delivered' \subseteq Nat
        BY ONLY <3>2, <4>1, <4>2, Zenon
      <4>4. faults' \in Nat
        BY ONLY <4>1, <4>2
      <4>5. QED
        BY ONLY <4>3, <4>4, Zenon
    <3>7. \E l \in {"release", "retry"} : pc' = [pc EXCEPT ![t] = l]
      BY ONLY <2>9, Zenon DEF AttemptSucceeded, Goto
    <3>8. UNCHANGED <<control, queue, parked, inFlight, job, seen, at, calls,
                      nextTxn, accepted, dropped, mutex, now>>
      BY <2>9 DEF AttemptSucceeded
    <3>9. QED
      BY <3>1, <3>3, <3>4, <3>5, <3>6, <3>7, <3>8, Zenon
  <2>10. CASE AttemptFailed(t)
    <3>1. job[t].dst \in Destinations
      BY <2>10 DEF AttemptFailed, Transactions
    <3>2. QED
      BY <2>10, <3>1, Zenon DEF AttemptFailed, remember_destination_locked, Goto
  <2>11. CASE re_enqueue_with_backoff(t)
    <3> DEFINE more == job[t].retries + 1
               again == [job[t] EXCEPT !.retries = more,
                                       !.due = at[t] + compute_backoff(more)]
    <3>1. job[t] \in Transactions /\ pc[t] \in Holding
      BY <2>11, Zenon DEF re_enqueue_with_backoff
    <3>2. job[t].dst \in Destinations /\ job[t].id \in Nat /\ more \in Nat
      BY <3>1 DEF Transactions
    <3>3. CASE DropExhausted(t)
      <4>1. rows' \subseteq Transactions
        BY <3>1, <3>3, RowsType, Zenon DEF DropExhausted
      <4>2. slots' \in [Destinations -> Nat]
        BY <3>2, <3>3, ReleaseSlotType, Zenon DEF DropExhausted
      <4>3. dropped' \subseteq Nat /\ faults' \in Nat
        <5>1. /\ dropped' = dropped \cup {job[t].id} \/ dropped' = dropped
              /\ faults' = faults \/ faults' = faults + 1
          BY ONLY <3>3, Zenon DEF DropExhausted, Fault
        <5>2. dropped \subseteq Nat /\ faults \in Nat
          OBVIOUS
        <5>3. dropped' \subseteq Nat
          <6>1. job[t].id \in Nat
            BY ONLY <3>2
          <6>2. QED
            BY ONLY <5>1, <5>2, <6>1, Zenon
        <5>4. faults' \in Nat
          BY ONLY <5>1, <5>2
        <5>5. QED
          BY ONLY <5>3, <5>4
      <4>4. pc' = [pc EXCEPT ![t] = "release"]
        BY <3>3, Zenon DEF DropExhausted, Goto
      <4>5. UNCHANGED <<control, queue, parked, inFlight, dest, job, seen, at, calls,
                        destRows, nextTxn, accepted, delivered, mutex, now>>
        BY <3>3, Zenon DEF DropExhausted
      <4>6. QED
        BY <3>1, <4>1, <4>2, <4>3, <4>4, <4>5, Zenon
    <3>4. CASE PersistAndRequeue(t, again)
      <4>1. at[t] + compute_backoff(more) \in Nat
        <5>1. at[t] \in Nat
          OBVIOUS
        <5>2. compute_backoff(more) \in Nat
          BY ONLY <3>2, BackoffType
        <5>3. QED
          BY ONLY <5>1, <5>2
      <4>2. again \in Transactions
        BY <3>1, <3>2, <4>1, Zenon DEF Transactions
      <4>3. again.dst \in Destinations
        BY <4>2, Zenon DEF Transactions
      <4>4. QED
        BY <3>1, <3>4, <4>2, <4>3, RequeueType, Zenon
    <3>5. QED
      BY <2>11, <3>3, <3>4, Zenon DEF re_enqueue_with_backoff
  <2>12. CASE ReleaseInFlight(t)
    BY <2>12, Zenon DEF ReleaseInFlight, Goto
  <2>13. CASE DrainBegin(t)
    BY <2>13, Zenon DEF DrainBegin, Goto
  <2>14. CASE DrainTake(t)
    BY <2>14, TakeType, Zenon DEF DrainTake
  <2>15. CASE DrainEnd(t)
    BY <2>15, Zenon DEF DrainEnd, Goto
  <2>16. CASE DrainCheck(t)
    BY <2>16, ZenonT(60) DEF DrainCheck, Goto
  <2>17. QED
    BY <1>11, <2>1, <2>2, <2>3, <2>4, <2>5, <2>6, <2>7, <2>8, <2>9, <2>10, <2>11, <2>12,
       <2>13, <2>14, <2>15, <2>16, Zenon DEF ThreadStep
<1>12. CASE UNCHANGED vars
  BY <1>12, Zenon DEF vars
<1>13. QED
  BY <1>1, <1>2, <1>3, <1>4, <1>5, <1>6, <1>7, <1>8, <1>9, <1>10, <1>11, <1>12, Zenon DEF Next, Enqueue

\* The two flags stay flags.
LEMMA FlagsNext == Flags /\ [Next]_vars => Flags'
<1> SUFFICES ASSUME Flags, [Next]_vars PROVE Flags'
  OBVIOUS
<1> USE DEF Flags, control
<1>1. CASE Enqueue
  BY <1>1, Zenon DEF Enqueue, EnqueueBegin, EnqueueConsider, EnqueueCommit
<1>2. CASE Boot \/ ReplayRow \/ Start \/ request_shutdown
  BY <1>2, Zenon DEF Boot, ReplayRow, Start, DeleteExcluded, request_shutdown
<1>3. CASE Exit \/ Crash
  BY <1>3, Zenon DEF Exit, Crash, LoseMemory
<1>4. CASE Tick
  BY <1>4 DEF Tick
<1>5. ASSUME NEW t \in Threads, ThreadStep(t) PROVE Flags'
  <2>1. CASE LoopCheck(t) \/ Poll(t) \/ PollIdle(t) \/ TopUp(t)
    BY <2>1, Zenon DEF LoopCheck, Poll, take_next, PollIdle, TopUp
  <2>2. CASE AttemptBegin(t) \/ wait_out_open_circuit(t) \/ Discover(t) \/ Perform(t)
    BY <2>2, Zenon DEF AttemptBegin, wait_out_open_circuit, PersistAndRequeue, Discover, Perform
  <2>3. CASE AttemptSucceeded(t) \/ AttemptFailed(t) \/ re_enqueue_with_backoff(t)
    BY <2>3 DEF AttemptSucceeded, AttemptFailed, re_enqueue_with_backoff,
                DropExhausted, PersistAndRequeue
  <2>4. CASE ReleaseInFlight(t) \/ DrainBegin(t) \/ DrainTake(t)
    BY <2>4, Zenon DEF ReleaseInFlight, DrainBegin, DrainTake, take_next
  <2>5. CASE DrainCheck(t) \/ DrainEnd(t)
    BY <2>5, Zenon DEF DrainCheck, DrainEnd
  <2>6. QED
    BY <1>5, <2>1, <2>2, <2>3, <2>4, <2>5 DEF ThreadStep
<1>6. CASE UNCHANGED vars
  BY <1>6 DEF vars
<1>7. QED
  BY <1>1, <1>2, <1>3, <1>4, <1>5, <1>6 DEF Next

\* Type correctness of the whole worker, over every interleaving, crash and
\* restart.
THEOREM TypeCorrect == Spec => []TypeOK
<1>1. Init => TypeOK
  BY ShapesInit, Zenon DEF TypeOK, Flags, Init
<1>2. TypeOK /\ [Next]_vars => TypeOK'
  BY ShapesNext, FlagsNext DEF TypeOK
<1>3. QED
  BY <1>1, <1>2, PTL DEF Spec

-----------------------------------------------------------------------------
\* Writing a row keeps every known id; deleting one loses only its own.
LEMMA RowIdsFacts ==
    ASSUME NEW row
    PROVE  /\ store_federation_transaction(row) => RowIds \subseteq RowIds'
           /\ delete_federation_transaction(row) => RowIds \subseteq RowIds' \cup {row.id}
BY DEF store_federation_transaction, delete_federation_transaction, RowIds, Ids

\* The retry path only ever writes the row.
LEMMA RequeueKeepsRows ==
    ASSUME NEW t, NEW row, PersistAndRequeue(t, row)
    PROVE  RowIds \subseteq RowIds' /\ UNCHANGED ledger
<1>1. CASE store_federation_transaction(row)
  BY <1>1, RowIdsFacts, Zenon DEF PersistAndRequeue
<1>2. CASE UNCHANGED rows
  BY <1>2 DEF PersistAndRequeue, RowIds, Ids
<1>3. QED
  BY <1>1, <1>2 DEF PersistAndRequeue

\* Each step keeps the promise: what leaves the rows is counted as settled.
LEMMA DurableNext == AcceptedIsDurable /\ [Next]_vars => AcceptedIsDurable'
<1> SUFFICES ASSUME AcceptedIsDurable, [Next]_vars PROVE AcceptedIsDurable'
  OBVIOUS
<1>a. ASSUME UNCHANGED <<accepted, delivered, dropped>>, RowIds \subseteq RowIds'
      PROVE  AcceptedIsDurable'
  BY <1>a DEF AcceptedIsDurable
<1>b. ASSUME UNCHANGED <<accepted, delivered, dropped, rows>> PROVE AcceptedIsDurable'
  BY <1>b, Zenon DEF AcceptedIsDurable, RowIds, Ids
<1>1. CASE EnqueueBegin \/ EnqueueConsider
  BY ONLY <1>1, <1>b, Zenon DEF EnqueueBegin, EnqueueConsider, disk, ledger
<1>2. CASE EnqueueCommit
  <2>1. CASE /\ rows' = rows \cup {taken[k] : k \in 1..Len(taken)}
             /\ accepted' = accepted \cup {taken[k].id : k \in 1..Len(taken)}
    <3>1. RowIds' = RowIds \cup {taken[k].id : k \in 1..Len(taken)}
      BY <2>1 DEF RowIds, Ids
    <3>2. QED
      BY <1>2, <2>1, <3>1 DEF EnqueueCommit, AcceptedIsDurable
  <2>2. CASE UNCHANGED <<rows, accepted>>
    BY ONLY <1>2, <2>2, <1>b, Zenon DEF EnqueueCommit
  <2>3. QED
    BY <1>2, <2>1, <2>2 DEF EnqueueCommit
<1>3. CASE Boot \/ ReplayRow \/ request_shutdown \/ Tick
  BY <1>3, <1>b DEF Boot, ReplayRow, request_shutdown, Tick, disk, ledger
<1>4. CASE Start
  <2>1. PICK gone \in SUBSET excluded : /\ rows' = rows \ gone
                                        /\ dropped' = dropped \cup {row.id : row \in gone}
    BY <1>4, Zenon DEF Start, DeleteExcluded
  <2>2. RowIds \subseteq RowIds' \cup {row.id : row \in gone}
    BY ONLY <2>1, Zenon DEF RowIds, Ids
  <2>3. QED
    BY <1>4, <2>1, <2>2, Zenon DEF Start, DeleteExcluded, AcceptedIsDurable
<1>5. CASE Exit \/ Crash
  BY <1>5, <1>b DEF Exit, Crash, LoseMemory, disk, ledger
<1>6. ASSUME NEW t \in Threads, ThreadStep(t) PROVE AcceptedIsDurable'
  <2>1. CASE LoopCheck(t) \/ PollIdle(t) \/ TopUp(t)
    BY <2>1, <1>b DEF LoopCheck, PollIdle, TopUp, disk, ledger
  <2>2. CASE Poll(t) \/ DrainTake(t) \/ AttemptBegin(t)
    BY <2>2, <1>b, Zenon DEF Poll, DrainTake, take_next, AttemptBegin, disk, ledger
  <2>3. CASE Discover(t) \/ Perform(t) \/ ReleaseInFlight(t) \/ DrainBegin(t)
    BY <2>3, <1>b, Zenon DEF Discover, Perform, ReleaseInFlight, DrainBegin, disk, ledger
  <2>4. CASE DrainCheck(t) \/ DrainEnd(t) \/ AttemptFailed(t)
    BY <2>4, <1>b DEF DrainCheck, DrainEnd, AttemptFailed, disk, ledger
  <2>5. CASE wait_out_open_circuit(t)
    BY <2>5, <1>a, RequeueKeepsRows DEF wait_out_open_circuit, ledger
  <2>6. CASE AttemptSucceeded(t)
    <3>1. CASE /\ delete_federation_transaction(job[t])
               /\ delivered' = delivered \cup {job[t].id}
      BY <2>6, <3>1, RowIdsFacts, Zenon DEF AttemptSucceeded, AcceptedIsDurable
    <3>2. CASE UNCHANGED <<rows, delivered>>
      BY <2>6, <3>2, <1>b, Zenon DEF AttemptSucceeded
    <3>3. QED
      BY <2>6, <3>1, <3>2, Zenon DEF AttemptSucceeded
  <2>7. CASE re_enqueue_with_backoff(t)
    <3>1. CASE DropExhausted(t)
      <4>1. CASE /\ delete_federation_transaction(job[t])
                 /\ dropped' = dropped \cup {job[t].id}
        BY <3>1, <4>1, RowIdsFacts DEF DropExhausted, AcceptedIsDurable
      <4>2. CASE UNCHANGED <<rows, dropped>>
        BY <3>1, <4>2, <1>b DEF DropExhausted
      <4>3. QED
        BY <3>1, <4>1, <4>2 DEF DropExhausted
    <3>2. ASSUME NEW row, PersistAndRequeue(t, row) PROVE AcceptedIsDurable'
      BY <3>2, <1>a, RequeueKeepsRows DEF ledger
    <3>3. QED
      BY <2>7, <3>1, <3>2 DEF re_enqueue_with_backoff
  <2>8. QED
    BY ONLY <1>6, <2>1, <2>2, <2>3, <2>4, <2>5, <2>6, <2>7, Zenon DEF ThreadStep
<1>7. CASE UNCHANGED vars
  BY <1>7, <1>b DEF vars, disk, ledger
<1>8. QED
  BY <1>1, <1>2, <1>3, <1>4, <1>5, <1>6, <1>7 DEF Next, Enqueue

\* An accepted transaction has its durable row until it was delivered or
\* dropped, over retries, failed writes, crashes and restarts.
THEOREM AcceptedStaysDurable == Spec => []AcceptedIsDurable
<1>1. Init => AcceptedIsDurable
  BY DEF Init, AcceptedIsDurable
<1>2. QED
  BY <1>1, DurableNext, PTL DEF Spec

(***************************************************************************)
(* One attempt per destination.                                             *)
(***************************************************************************)
Copying == {"circuit", "resolve", "send"}

\* The inductive invariant: outside a running life no thread does anything, a
\* destination is in flight exactly while one thread attempts one of its
\* transactions, and that thread's copy of the destination is current.
Attempts ==
    /\ life # "running" => \A t \in Threads : pc[t] = "done"
    /\ \A t \in Threads : pc[t] \in Flying => job[t].dst \in inFlight
    /\ \A d \in inFlight : \E t \in Threads : pc[t] \in Flying /\ job[t].dst = d
    /\ \A t, u \in Threads :
        t # u /\ pc[t] \in Flying /\ pc[u] \in Flying => job[t].dst # job[u].dst
    /\ \A t \in Threads : pc[t] \in Copying => seen[t] = dest[job[t].dst]

\* A step of one thread within its attempt that leaves dest alone.
LEMMA WithinAttempt ==
    ASSUME Shapes, Attempts, NEW t \in Threads, NEW label \in Flying,
           pc[t] \in Flying, Goto(t, label), life' = life,
           UNCHANGED <<inFlight, job, dest>>,
           \A u \in Threads : u # t => seen'[u] = seen[u],
           label \in Copying => seen'[t] = dest[job[t].dst]
    PROVE  Attempts'
<1>1. pc' = [pc EXCEPT ![t] = label] /\ pc \in [Threads -> Flying \cup {"loop", "poll", "drain", "drainTake", "done"}]
  BY Zenon DEF Goto, Shapes
<1>2. life = "running"
  BY Zenon DEF Attempts, Flying, Holding
<1>3. \A u \in Threads : pc'[u] \in Flying <=> pc[u] \in Flying
  BY <1>1
<1>4. \A u \in Threads : pc'[u] \in Copying => seen'[u] = dest'[job'[u].dst]
  BY <1>1, Zenon DEF Attempts
<1>5. QED
  BY <1>2, <1>3, <1>4, Zenon DEF Attempts

\* A step of one thread between attempts.
LEMMA BetweenAttempts ==
    ASSUME Shapes, Attempts, NEW t \in Threads, NEW label,
           pc[t] \notin Flying \cup {"done"}, label \notin Flying, Goto(t, label),
           UNCHANGED <<life, inFlight, job, seen, dest>>
    PROVE  Attempts'
<1>1. pc' = [pc EXCEPT ![t] = label] /\ pc \in [Threads -> Flying \cup {"loop", "poll", "drain", "drainTake", "done"}]
  BY Zenon DEF Goto, Shapes
<1>2. life = "running"
  BY DEF Attempts
<1>3. \A u \in Threads : pc'[u] \in Flying <=> pc[u] \in Flying
  BY <1>1
<1>4. \A u \in Threads : pc'[u] \in Copying => pc[u] \in Copying
  BY <1>1 DEF Copying, Flying, Holding
<1>5. QED
  BY <1>2, <1>3, <1>4, Zenon DEF Attempts

\* A thread that puts its result back touches only its own destination.
LEMMA PutBack ==
    ASSUME Shapes, Attempts, NEW t \in Threads, NEW label \in Flying \ Copying,
           pc[t] \in Flying, Goto(t, label), remember_destination_locked(t),
           UNCHANGED <<life, inFlight, job, seen>>
    PROVE  Attempts'
<1>1. pc' = [pc EXCEPT ![t] = label] /\ pc \in [Threads -> Flying \cup {"loop", "poll", "drain", "drainTake", "done"}]
  BY Zenon DEF Goto, Shapes
<1>2. life = "running"
  BY DEF Attempts, Flying, Holding
<1>3. \A u \in Threads : pc'[u] \in Flying <=> pc[u] \in Flying
  BY <1>1, Zenon
<1>4. ASSUME NEW u \in Threads, pc'[u] \in Copying PROVE seen'[u] = dest'[job'[u].dst]
  <2>1. u # t /\ pc[u] \in Copying
    BY <1>1, <1>4, Zenon
  <2>2. job[u].dst # job[t].dst
    BY <2>1, Zenon DEF Attempts, Copying, Flying, Holding
  <2>3. dest' = [dest EXCEPT ![job[t].dst] = seen[t]]
    BY Zenon DEF remember_destination_locked
  <2>4. dest'[job[u].dst] = dest[job[u].dst]
    BY <2>2, <2>3 DEF Shapes
  <2>5. QED
    BY <2>1, <2>4, Zenon DEF Attempts
<1>5. QED
  BY <1>2, <1>3, <1>4, Zenon DEF Attempts

\* Taking a transaction marks a destination nobody attempts.
LEMMA TakeAttempt ==
    ASSUME Shapes, Attempts, NEW t \in Threads, NEW dueBy, pc[t] \in {"poll", "drainTake"},
           take_next(t, dueBy)
    PROVE  Attempts'
<1>1. PICK i \in 1..Len(queue) :
        /\ next_ready_locked(i, dueBy)
        /\ job' = [job EXCEPT ![t] = queue[i]]
        /\ inFlight' = inFlight \cup {queue[i].dst}
  BY Zenon DEF take_next
<1>2. queue[i].dst \notin inFlight
  BY <1>1 DEF next_ready_locked, Ready
<1>3. pc' = [pc EXCEPT ![t] = "topup"] /\ UNCHANGED <<life, seen, dest>>
  BY DEF take_next, Goto, control
<1>4. life = "running" /\ pc[t] \notin Flying
  BY Zenon DEF Attempts, Flying, Holding
<1>5. \A u \in Threads : u # t => job'[u] = job[u] /\ pc'[u] = pc[u]
  BY <1>1, <1>3, Zenon DEF Shapes
<1>6. job'[t] = queue[i] /\ pc'[t] = "topup"
  BY <1>1, <1>3 DEF Shapes
<1>7. ASSUME NEW u \in Threads, pc'[u] \in Flying PROVE job'[u].dst \in inFlight'
  <2>1. CASE u = t
    <3>1. queue[i].dst \in inFlight'
      BY <1>1, Zenon
    <3>2. QED
      BY <1>6, <2>1, <3>1, Zenon
  <2>2. CASE u # t
    <3>1. job'[u].dst \in inFlight
      BY <1>5, <1>7, <2>2, Zenon DEF Attempts
    <3>2. QED
      BY <1>1, <3>1
  <2>3. QED
    BY <2>1, <2>2, Zenon
<1>8. \A d \in inFlight' : \E u \in Threads : pc'[u] \in Flying /\ job'[u].dst = d
  <2>1. ASSUME NEW d \in inFlight PROVE \E u \in Threads : pc'[u] \in Flying /\ job'[u].dst = d
    <3>1. PICK u \in Threads : pc[u] \in Flying /\ job[u].dst = d
      BY Zenon DEF Attempts
    <3>2. u # t
      BY <1>4, <3>1
    <3>3. QED
      BY <1>5, <3>1, <3>2
  <2>2. pc'[t] \in Flying /\ job'[t].dst = queue[i].dst
    BY <1>6, Zenon DEF Flying, Holding
  <2>3. QED
    BY <1>1, <2>1, <2>2, Zenon
<1>9. ASSUME NEW u \in Threads, NEW v \in Threads, u # v, pc'[u] \in Flying, pc'[v] \in Flying
      PROVE  job'[u].dst # job'[v].dst
  <2>1. \A x \in Threads : x # t /\ pc'[x] \in Flying => job'[x].dst \in inFlight
    BY <1>5, Zenon DEF Attempts
  <2>2. CASE u # t /\ v # t
    <3>1. pc[u] \in Flying /\ pc[v] \in Flying
      BY <1>5, <1>9, <2>2
    <3>2. job[u].dst # job[v].dst
      BY <1>9, <3>1, Zenon DEF Attempts
    <3>3. QED
      BY ONLY <1>5, <2>2, <3>2, Zenon
  <2>3. QED
    BY <1>2, <1>6, <1>9, <2>1, <2>2, Zenon
<1>10. \A u \in Threads : pc'[u] \in Copying => seen'[u] = dest'[job'[u].dst]
  <2>1. "topup" \notin Copying
    BY DEF Copying
  <2>2. QED
    BY <1>3, <1>5, <1>6, <2>1, Zenon DEF Attempts
<1>11. QED
  BY ONLY <1>3, <1>4, <1>7, <1>8, <1>9, <1>10, Zenon DEF Attempts

LEMMA AttemptsNext == Shapes /\ Attempts /\ [Next]_vars => Attempts'
<1> SUFFICES ASSUME Shapes, Attempts, [Next]_vars PROVE Attempts'
  OBVIOUS
<1> USE DEF worker, control, threads
<1>a. ASSUME UNCHANGED <<life, pc, inFlight, job, seen, dest>> PROVE Attempts'
  BY <1>a, Zenon DEF Attempts
<1>1. CASE Enqueue
  BY <1>1, <1>a, Zenon DEF Enqueue, EnqueueBegin, EnqueueConsider, EnqueueCommit
<1>2. CASE ReplayRow \/ request_shutdown \/ Tick
  BY <1>2, <1>a, Zenon DEF ReplayRow, request_shutdown, Tick
<1>3. CASE Boot
  <2>1. /\ life = "down" /\ life' = "replaying"
        /\ UNCHANGED <<pc, inFlight, job, seen>>
    BY ONLY <1>3, Zenon DEF Boot
  <2>2. \A t \in Threads : pc'[t] = "done"
    BY <2>1 DEF Attempts
  <2>3. QED
    BY <2>1, <2>2, Zenon DEF Attempts, Flying, Holding, Copying
<1>4. CASE Start
  <2>1. life = "replaying" /\ life' = "running" /\ UNCHANGED <<inFlight, job, seen, dest>>
    BY <1>4, Zenon DEF Start, DeleteExcluded
  <2>2. \A t \in Threads : pc[t] = "done" /\ pc'[t] \in {"loop", "done"}
    <3>1. PICK started \in SUBSET Threads :
            pc' = [t \in Threads |-> IF t \in started THEN "loop" ELSE "done"]
      BY <1>4, Zenon DEF Start
    <3>2. \A t \in Threads : pc[t] = "done"
      BY <2>1, Zenon DEF Attempts
    <3>3. QED
      BY <3>1, <3>2
  <2>3. inFlight' = {}
    BY <2>1, <2>2, Zenon DEF Attempts, Flying, Holding
  <2>4. QED
    BY <2>1, <2>2, <2>3, Zenon DEF Attempts, Flying, Holding, Copying
<1>5. CASE Exit \/ Crash
  <2>1. pc' = [t \in Threads |-> "done"] /\ inFlight' = {}
    BY ONLY <1>5, Zenon DEF Exit, Crash, LoseMemory
  <2>2. QED
    BY <2>1, Zenon DEF Attempts, Flying, Holding, Copying
<1>6. ASSUME NEW t \in Threads, ThreadStep(t) PROVE Attempts'
  <2>1. CASE LoopCheck(t) \/ PollIdle(t) \/ DrainBegin(t) \/ DrainCheck(t) \/ DrainEnd(t)
    <3>1. /\ pc[t] \in {"loop", "poll", "drain", "drainTake"}
          /\ \E label \in {"loop", "poll", "drain", "drainTake", "done"} : Goto(t, label)
          /\ UNCHANGED <<life, inFlight, job, seen, dest>>
      BY <2>1, Zenon DEF LoopCheck, PollIdle, DrainBegin, DrainCheck, DrainEnd
    <3>2. QED
      BY <3>1, BetweenAttempts DEF Flying, Holding
  <2>2. CASE Poll(t) \/ DrainTake(t)
    BY <2>2, TakeAttempt DEF Poll, DrainTake
  <2>3. CASE TopUp(t)
    <3>1. pc[t] = "topup" /\ UNCHANGED <<life, inFlight, job, seen, dest>>
      BY <2>3 DEF TopUp
    <3>2. CASE pc' = pc
      BY <3>1, <3>2, <1>a
    <3>3. CASE Goto(t, "begin")
      BY <3>1, <3>3, WithinAttempt, Zenon DEF Flying, Holding, Copying
    <3>4. QED
      BY ONLY <2>3, <3>2, <3>3, Zenon DEF TopUp
  <2>4. CASE AttemptBegin(t)
    <3>1. /\ pc[t] \in Flying
          /\ seen' = [seen EXCEPT ![t] = dest[job[t].dst]]
          /\ \E label \in {"resolve", "circuit"} : Goto(t, label)
          /\ UNCHANGED <<life, inFlight, job, dest>>
      BY ONLY <2>4, Zenon DEF AttemptBegin, Flying, Holding
    <3>2. seen'[t] = dest[job[t].dst] /\ \A u \in Threads : u # t => seen'[u] = seen[u]
      BY <3>1 DEF Shapes
    <3>3. QED
      BY <3>1, <3>2, WithinAttempt, Zenon DEF Flying, Holding
  <2>5. CASE Discover(t)
    <3>1. pc[t] = "resolve" /\ UNCHANGED <<life, inFlight, job, dest>>
      BY <2>5 DEF Discover
    <3>2. CASE Goto(t, "send") /\ UNCHANGED seen
      <4>1. seen[t] = dest[job[t].dst]
        BY <3>1, Zenon DEF Attempts, Copying
      <4>2. QED
        BY <3>1, <3>2, <4>1, WithinAttempt, Zenon DEF Flying, Holding
    <3>3. CASE /\ Goto(t, "failed")
               /\ seen' = [seen EXCEPT ![t] = apply_outbound_result(seen[t], FALSE, now)]
      <4>1. \A u \in Threads : u # t => seen'[u] = seen[u]
        BY <3>3, Zenon DEF Shapes
      <4>2. QED
        BY <3>1, <3>3, <4>1, WithinAttempt, Zenon DEF Flying, Holding, Copying
    <3>4. QED
      BY <2>5, <3>2, <3>3, Zenon DEF Discover
  <2>6. CASE Perform(t)
    <3>1. /\ pc[t] = "send" /\ UNCHANGED <<life, inFlight, job, dest>>
          /\ \E label \in {"succeeded", "failed"} : Goto(t, label)
      BY ONLY <2>6, Zenon DEF Perform
    <3>2. \A u \in Threads : u # t => seen'[u] = seen[u]
      BY <2>6 DEF Perform, Shapes
    <3>3. QED
      BY <3>1, <3>2, WithinAttempt, Zenon DEF Flying, Holding, Copying
  <2>7. CASE AttemptSucceeded(t) \/ AttemptFailed(t)
    <3>1. /\ pc[t] \in {"succeeded", "failed"}
          /\ \E label \in {"release", "retry"} : Goto(t, label)
          /\ remember_destination_locked(t)
          /\ UNCHANGED <<life, inFlight, job, seen>>
      BY <2>7, Zenon DEF AttemptSucceeded, AttemptFailed
    <3>2. QED
      BY <3>1, PutBack DEF Flying, Holding, Copying
  <2>8. CASE wait_out_open_circuit(t) \/ re_enqueue_with_backoff(t)
    <3>1. /\ pc[t] \in {"circuit", "retry"}
          /\ Goto(t, "release")
          /\ UNCHANGED <<life, inFlight, job, seen, dest>>
      BY <2>8 DEF wait_out_open_circuit, re_enqueue_with_backoff, PersistAndRequeue,
                  DropExhausted
    <3>2. QED
      BY <3>1, WithinAttempt, Zenon DEF Flying, Holding, Copying
  <2>9. CASE ReleaseInFlight(t)
    <3>1. /\ pc[t] = "release"
          /\ inFlight' = inFlight \ {job[t].dst}
          /\ job' = [job EXCEPT ![t] = NoTransaction]
          /\ seen' = [seen EXCEPT ![t] = FreshDestination]
          /\ pc' = [pc EXCEPT ![t] = "loop"]
          /\ UNCHANGED <<life, dest>>
      BY <2>9, Zenon DEF ReleaseInFlight, Goto
    <3>2. /\ pc'[t] = "loop"
          /\ \A u \in Threads : u # t => pc'[u] = pc[u] /\ job'[u] = job[u] /\ seen'[u] = seen[u]
      BY <3>1 DEF Shapes
    <3>3. pc[t] \in Flying /\ "loop" \notin Flying \cup Copying /\ life = "running"
      BY <3>1, Zenon DEF Flying, Holding, Copying, Attempts
    <3>4. \A u \in Threads : u # t /\ pc[u] \in Flying
                               => job[u].dst # job[t].dst /\ job[u].dst \in inFlight
      BY <3>3, Zenon DEF Attempts
    <3>5. \A u \in Threads : pc'[u] \in Flying => u # t /\ pc[u] \in Flying
      BY ONLY <3>2, <3>3, Zenon
    <3>6. \A u \in Threads : pc'[u] \in Flying => job'[u].dst \in inFlight'
      BY <3>1, <3>2, <3>4, <3>5
    <3>7. ASSUME NEW d \in inFlight'
          PROVE  \E u \in Threads : pc'[u] \in Flying /\ job'[u].dst = d
      <4>1. d # job[t].dst /\ \E u \in Threads : pc[u] \in Flying /\ job[u].dst = d
        BY <3>1, Zenon DEF Attempts
      <4>2. QED
        BY <3>2, <4>1, Zenon
    <3>8. ASSUME NEW u \in Threads, NEW v \in Threads, u # v, pc'[u] \in Flying, pc'[v] \in Flying
          PROVE  job'[u].dst # job'[v].dst
      <4>1. job[u].dst # job[v].dst
        BY <3>5, <3>8, Zenon DEF Attempts
      <4>2. QED
        BY <3>2, <3>5, <3>8, <4>1, Zenon
    <3>9. ASSUME NEW u \in Threads, pc'[u] \in Copying PROVE seen'[u] = dest'[job'[u].dst]
      <4>1. u # t
        BY <3>2, <3>3, <3>9
      <4>2. seen[u] = dest[job[u].dst]
        BY <3>2, <3>9, <4>1, Zenon DEF Attempts
      <4>3. QED
        BY ONLY <3>1, <3>2, <4>1, <4>2, Zenon
    <3>10. QED
      BY ONLY <3>1, <3>3, <3>6, <3>7, <3>8, <3>9, Zenon DEF Attempts
  <2>10. QED
    BY <1>6, <2>1, <2>2, <2>3, <2>4, <2>5, <2>6, <2>7, <2>8, <2>9 DEF ThreadStep
<1>7. CASE UNCHANGED vars
  BY <1>7, <1>a DEF vars
<1>8. QED
  BY <1>1, <1>2, <1>3, <1>4, <1>5, <1>6, <1>7 DEF Next

LEMMA AttemptsAlways == Spec => [](Shapes /\ Attempts)
<1>1. Init => Shapes /\ Attempts
  BY ShapesInit, Zenon DEF Init, Attempts, Flying, Holding, Copying
<1>2. Shapes /\ Attempts /\ [Next]_vars => (Shapes /\ Attempts)'
  BY ShapesNext, AttemptsNext
<1>3. QED
  BY <1>1, <1>2, PTL DEF Spec

\* Never two threads attempt transactions of one destination, and exactly the
\* attempted destinations are marked in flight.
THEOREM AttemptsAreExclusive == Spec => []OneAttemptPerDestination
<1>1. ASSUME Attempts PROVE OneAttemptPerDestination
  <2>1. inFlight \subseteq {job[t].dst : t \in {u \in Threads : pc[u] \in Flying}}
    BY <1>1, Zenon DEF Attempts
  <2>2. {job[t].dst : t \in {u \in Threads : pc[u] \in Flying}} \subseteq inFlight
    <3>1. \A t \in Threads : pc[t] \in Flying => job[t].dst \in inFlight
      BY <1>1, Zenon DEF Attempts
    <3>2. QED
      BY ONLY <3>1, Zenon
  <2>3. \A t, u \in Threads :
          t # u /\ pc[t] \in Flying /\ pc[u] \in Flying => job[t].dst # job[u].dst
    BY <1>1, Zenon DEF Attempts
  <2>4. QED
    BY <2>1, <2>2, <2>3, Zenon DEF OneAttemptPerDestination
<1>2. QED
  BY <1>1, AttemptsAlways, PTL

\* No attempt overwrites a destination's backoff with a result computed from a
\* stale copy of it.
THEOREM CopiesAreCurrent == Spec => []CopyIsCurrent
<1>1. Attempts => CopyIsCurrent
  BY Zenon DEF Attempts, CopyIsCurrent, Copying
<1>2. QED
  BY <1>1, AttemptsAlways, PTL

(***************************************************************************)
(* The drain.                                                               *)
(***************************************************************************)
Finished == \A t \in Threads : pc[t] = "done"

\* The inductive invariant: a drain belongs to a running life that was asked
\* to shut down, so nothing is enqueued after the last thread has left it.
Drain ==
    /\ ~shutdown => drainDueBy = NoDrain
    /\ life # "running" => drainDueBy = NoDrain
    /\ drainDueBy # NoDrain /\ ~drainCut /\ Finished
        => mutex = Free /\ Ready(drainDueBy) = {}

LEMMA DrainNext == Shapes /\ Attempts /\ Drain /\ [Next]_vars => Drain'
<1> SUFFICES ASSUME Shapes, Attempts, Drain, [Next]_vars PROVE Drain'
  BY Zenon
<1> USE DEF worker, control, threads
<1>a. ASSUME UNCHANGED <<shutdown, drainDueBy, drainCut, life, pc, mutex, queue, inFlight>>
      PROVE  Drain'
  BY <1>a DEF Drain, Finished, Ready
<1>b. ASSUME UNCHANGED <<shutdown, drainDueBy, life>>,
             ~Finished' \/ drainDueBy = NoDrain
      PROVE  Drain'
  BY <1>b DEF Drain
<1>1. CASE EnqueueBegin
  <2>1. ~shutdown /\ UNCHANGED <<shutdown, drainDueBy, life>>
    BY <1>1 DEF EnqueueBegin
  <2>2. QED
    BY <2>1, <1>b, Zenon DEF Drain
<1>2. CASE EnqueueConsider \/ EnqueueCommit
  <2>1. mutex = Caller /\ UNCHANGED <<shutdown, drainDueBy, drainCut, life, pc>>
    BY <1>2, Zenon DEF EnqueueConsider, EnqueueCommit
  <2>2. Caller # Free
    BY ConfigAssumption
  <2>3. QED
    BY <2>1, <2>2 DEF Drain, Finished
<1>3. CASE Boot \/ Start \/ ReplayRow
  <2>1. drainDueBy = NoDrain /\ UNCHANGED drainDueBy
    BY <1>3, Zenon DEF Boot, Start, DeleteExcluded, ReplayRow, Drain
  <2>2. QED
    BY <2>1 DEF Drain
<1>4. CASE request_shutdown
  <2>1. drainDueBy = NoDrain /\ UNCHANGED drainDueBy
    BY <1>4 DEF request_shutdown, Drain
  <2>2. QED
    BY <2>1 DEF Drain
<1>5. CASE Exit \/ Crash
  <2>1. drainDueBy' = NoDrain
    BY <1>5 DEF Exit, Crash, LoseMemory
  <2>2. QED
    BY ONLY <2>1, Zenon DEF Drain
<1>6. CASE Tick
  BY <1>6, <1>a, Zenon DEF Tick
<1>7. ASSUME NEW t \in Threads, ThreadStep(t) PROVE Drain'
  <2>a. ASSUME NEW label, label # "done", Goto(t, label),
               UNCHANGED <<shutdown, drainDueBy, life>>
        PROVE  Drain'
    <3>1. pc'[t] # "done"
      BY <2>a DEF Goto, Shapes
    <3>2. QED
      BY <2>a, <3>1, <1>b, Zenon DEF Finished
  <2>1. CASE LoopCheck(t) \/ Poll(t) \/ PollIdle(t) \/ DrainTake(t)
    BY <2>1, <2>a, Zenon DEF LoopCheck, Poll, PollIdle, DrainTake, take_next
  <2>2. CASE TopUp(t)
    <3>1. pc[t] = "topup" /\ UNCHANGED <<shutdown, drainDueBy, life>>
      BY <2>2 DEF TopUp
    <3>2. CASE pc' = pc
      BY <3>1, <3>2, <1>b DEF Finished
    <3>3. QED
      BY <2>2, <3>1, <3>2, <2>a, Zenon DEF TopUp
  <2>3. CASE AttemptBegin(t) \/ Discover(t) \/ Perform(t) \/ ReleaseInFlight(t)
    <3>1. \E label \in {"resolve", "circuit", "send", "failed", "succeeded", "loop"} : Goto(t, label)
      BY <2>3, Zenon DEF AttemptBegin, Discover, Perform, ReleaseInFlight
    <3>2. UNCHANGED <<shutdown, drainDueBy, life>>
      BY <2>3, Zenon DEF AttemptBegin, Discover, Perform, ReleaseInFlight
    <3>3. QED
      BY <3>1, <3>2, <2>a
  <2>4. CASE wait_out_open_circuit(t) \/ re_enqueue_with_backoff(t)
    <3>1. Goto(t, "release") /\ UNCHANGED <<shutdown, drainDueBy, life>>
      BY <2>4 DEF wait_out_open_circuit, re_enqueue_with_backoff, PersistAndRequeue,
                  DropExhausted
    <3>2. QED
      BY <3>1, <2>a
  <2>5. CASE AttemptSucceeded(t) \/ AttemptFailed(t)
    <3>1. /\ \E label \in {"release", "retry"} : Goto(t, label)
          /\ UNCHANGED <<shutdown, drainDueBy, life>>
      BY <2>5, Zenon DEF AttemptSucceeded, AttemptFailed
    <3>2. QED
      BY <3>1, <2>a
  <2>6. CASE DrainBegin(t)
    <3>1. pc'[t] = "drain"
      BY <2>6 DEF DrainBegin, Goto, Shapes
    <3>2. ~Finished'
      BY <3>1 DEF Finished
    <3>3. shutdown' /\ (life' # "running" => drainDueBy' = NoDrain)
      <4>1. shutdown' /\ life' = life
        BY <2>6 DEF DrainBegin
      <4>2. life = "running"
        BY <2>6, Zenon DEF DrainBegin, Attempts
      <4>3. QED
        BY <4>1, <4>2
    <3>4. QED
      BY ONLY <3>2, <3>3, Zenon DEF Drain
  <2>7. CASE DrainEnd(t)
    <3>1. /\ mutex = Free /\ UNCHANGED <<shutdown, drainDueBy, life, mutex, queue, inFlight>>
          /\ Ready(drainDueBy) = {}
      BY <2>7 DEF DrainEnd
    <3>2. (Ready(drainDueBy) = {})'
      BY <3>1, Zenon DEF Ready
    <3>3. QED
      BY <3>1, <3>2 DEF Drain
  <2>8. CASE DrainCheck(t)
    <3>1. UNCHANGED <<shutdown, drainDueBy, life>>
      BY <2>8 DEF DrainCheck
    <3>2. drainCut' \/ Goto(t, "drainTake")
      BY <2>8 DEF DrainCheck
    <3>3. CASE drainCut'
      BY <3>1, <3>3, Zenon DEF Drain
    <3>4. QED
      BY <3>1, <3>2, <3>3, <2>a
  <2>9. QED
    BY <1>7, <2>1, <2>2, <2>3, <2>4, <2>5, <2>6, <2>7, <2>8 DEF ThreadStep
<1>8. CASE UNCHANGED vars
  BY <1>8, <1>a DEF vars
<1>9. QED
  BY <1>1, <1>2, <1>3, <1>4, <1>5, <1>6, <1>7, <1>8 DEF Next, Enqueue

\* A drain every thread left with time to spare has attempted all that was due.
THEOREM DrainsComplete == Spec => []DrainIsComplete
<1>1. Init => Drain
  BY DEF Init, Drain
<1>2. Shapes /\ Attempts /\ Drain /\ [Next]_vars => Drain'
  BY DrainNext
<1>3. Drain => DrainIsComplete
  BY DEF Drain, DrainIsComplete, Finished
<1>4. QED
  BY <1>1, <1>2, <1>3, AttemptsAlways, PTL DEF Spec

(***************************************************************************)
(* What the steps of a thread do to the places a transaction can be in.     *)
(***************************************************************************)
SameHolding ==
    \A u \in Threads : /\ pc'[u] \in Holding <=> pc[u] \in Holding
                       /\ pc[u] \in Holding => job'[u] = job[u]

Others(t) == \A u \in Threads \ {t} : pc'[u] = pc[u] /\ job'[u] = job[u]

\* Nothing moves.
Keep == /\ SameHolding
        /\ UNCHANGED <<queue, parked, slots, rows, delivered, dropped>>

\* From the queue into an attempt (take_next).
Take(t) ==
    \E i \in 1..Len(queue) :
        /\ queue' = Erase(queue, i)
        /\ \A j \in 1..(i - 1) : queue[j].dst # queue[i].dst
        /\ queue[i].dst \notin inFlight
        /\ pc[t] \notin Holding /\ pc'[t] = "topup" /\ job'[t] = queue[i]
        /\ Others(t)
        /\ toLook' = Len(parked) /\ mutex' = t
        /\ UNCHANGED <<parked, slots, rows, delivered, dropped>>

\* From the parked rows into the queue (top_up_replay_locked).
Promote ==
    /\ parked # <<>>
    /\ ~QueueFull
    /\ ~destination_at_share_locked(Head(parked).dst)
    /\ push_queue_locked(Head(parked))
    /\ parked' = Tail(parked)
    /\ UNCHANGED <<pc, job, rows, delivered, dropped>>

\* From the front of the parked rows to their back (top_up_replay_locked).
Rotate ==
    /\ parked # <<>>
    /\ destination_at_share_locked(Head(parked).dst)
    /\ parked' = Append(Tail(parked), Head(parked))
    /\ UNCHANGED <<pc, job, queue, slots, rows, delivered, dropped>>

\* From an attempt back to the front of the queue (requeue_locked).
Return(t) ==
    \E row \in Transactions :
        /\ row.id = job[t].id /\ row.dst = job[t].dst
        /\ store_federation_transaction(row)
        /\ requeue_locked(row)
        /\ pc[t] \in Holding /\ pc'[t] = "release" /\ job' = job /\ Others(t)
        /\ UNCHANGED <<parked, slots, delivered, dropped>>

\* Out of an attempt and of this life's memory.
LetGo(t) ==
    /\ release_destination_slot_locked(job[t].dst)
    /\ pc[t] \in Holding /\ pc'[t] = "release" /\ job' = job /\ Others(t)
    /\ UNCHANGED <<queue, parked>>
    /\ \/ UNCHANGED <<rows, delivered, dropped>> /\ faults' = faults + 1
       \/ /\ delete_federation_transaction(job[t])
          /\ \/ delivered' = delivered \cup {job[t].id} /\ UNCHANGED dropped
             \/ dropped' = dropped \cup {job[t].id} /\ UNCHANGED delivered

Move(t) == Keep \/ Take(t) \/ Promote \/ Rotate \/ Return(t) \/ LetGo(t)

\* A thread stays out of the state of the other calls.
Apart == UNCHANGED <<life, toReplay, excluded, batch, taken, takenPer, nextTxn, born, accepted>>

\* The retry path puts the transaction back or lets it go.
LEMMA RequeueMoves ==
    ASSUME Shapes, NEW t \in Threads, pc[t] \in Holding, NEW row \in Transactions,
           row.id = job[t].id, row.dst = job[t].dst, PersistAndRequeue(t, row)
    PROVE  Move(t)
<1>1. pc'[t] = "release" /\ job' = job /\ Others(t) /\ UNCHANGED <<parked, delivered, dropped>>
  BY DEF PersistAndRequeue, Goto, Shapes, Others, ledger
<1>2. CASE store_federation_transaction(row) /\ requeue_locked(row) /\ UNCHANGED slots
  BY <1>1, <1>2, Zenon DEF Move, Return
<1>3. CASE Fault /\ release_destination_slot_locked(row.dst) /\ UNCHANGED <<rows, queue>>
  BY <1>1, <1>3, Zenon DEF Move, LetGo, Fault
<1>4. QED
  BY <1>2, <1>3, Zenon DEF PersistAndRequeue

\* A step to a label that holds as the one before it does moves nothing.
LEMMA KeepMoves ==
    ASSUME Shapes, NEW t \in Threads, NEW label, Goto(t, label),
           label \in Holding <=> pc[t] \in Holding, job' = job \/ pc[t] \notin Holding,
           \A u \in Threads \ {t} : job'[u] = job[u],
           UNCHANGED <<queue, parked, slots, rows, delivered, dropped>>
    PROVE  Move(t)
<1>1. pc'[t] = label /\ \A u \in Threads \ {t} : pc'[u] = pc[u]
  BY Zenon DEF Goto, Shapes
<1>2. SameHolding
  BY <1>1, Zenon DEF SameHolding
<1>3. QED
  BY <1>2, Zenon DEF Move, Keep

\* Every step of a thread is one of the moves.
LEMMA ThreadMoves ==
    ASSUME Shapes, NEW t \in Threads, ThreadStep(t)
    PROVE  Move(t) /\ Apart
<1> USE DEF worker, control, threads, calls, disk, ledger
<1>1. CASE LoopCheck(t) \/ PollIdle(t) \/ DrainBegin(t) \/ DrainCheck(t) \/ DrainEnd(t)
  <2>1. /\ pc[t] \in {"loop", "poll", "drain", "drainTake"}
        /\ \E label \in {"loop", "poll", "drain", "drainTake", "done"} : Goto(t, label)
        /\ UNCHANGED <<job, queue, parked, slots, rows, delivered, dropped>>
        /\ Apart
    BY <1>1, Zenon DEF LoopCheck, PollIdle, DrainBegin, DrainCheck, DrainEnd, Apart
  <2>2. QED
    BY <2>1, KeepMoves, Zenon DEF Holding
<1>2. ASSUME NEW dueBy, pc[t] \in {"poll", "drainTake"}, take_next(t, dueBy)
      PROVE  Move(t) /\ Apart
  <2>1. PICK i \in 1..Len(queue) :
          /\ next_ready_locked(i, dueBy)
          /\ job' = [job EXCEPT ![t] = queue[i]]
          /\ queue' = Erase(queue, i)
    BY <1>2, Zenon DEF take_next
  <2>2. queue[i].dst \notin inFlight /\ \A j \in 1..(i - 1) : queue[j].dst # queue[i].dst
    BY <2>1, Zenon DEF next_ready_locked, Ready
  <2>3. pc'[t] = "topup" /\ job'[t] = queue[i] /\ Others(t)
    BY <1>2, <2>1, Zenon DEF take_next, Goto, Shapes, Others
  <2>4. /\ toLook' = Len(parked) /\ mutex' = t
        /\ UNCHANGED <<parked, slots, rows, delivered, dropped>>
        /\ Apart
    BY <1>2 DEF take_next, Apart
  <2>5. pc[t] \notin Holding
    BY <1>2 DEF Holding
  <2>6. Take(t)
    BY <2>1, <2>2, <2>3, <2>4, <2>5, Zenon DEF Take
  <2>7. QED
    BY <2>4, <2>6 DEF Move
<1>3. CASE TopUp(t)
  <2>1. pc[t] = "topup" /\ UNCHANGED <<job, rows, delivered, dropped>> /\ Apart
    BY <1>3, Zenon DEF TopUp, Apart
  <2>2. CASE Goto(t, "begin") /\ UNCHANGED <<queue, slots, parked>>
    BY <2>1, <2>2, KeepMoves, Zenon DEF Holding
  <2>3. CASE /\ parked # <<>> /\ UNCHANGED pc
             /\ destination_at_share_locked(Head(parked).dst)
             /\ parked' = Append(Tail(parked), Head(parked))
             /\ UNCHANGED <<queue, slots>>
    BY ONLY <2>1, <2>3, Zenon DEF Move, Rotate
  <2>4. CASE /\ parked # <<>> /\ ~QueueFull /\ UNCHANGED pc
             /\ ~destination_at_share_locked(Head(parked).dst)
             /\ parked' = Tail(parked)
             /\ push_queue_locked(Head(parked))
    BY <2>1, <2>4 DEF Move, Promote
  <2>5. QED
    BY <1>3, <2>1, <2>2, <2>3, <2>4, Zenon DEF TopUp
<1>4. CASE AttemptBegin(t) \/ Discover(t) \/ Perform(t)
  <2>1. /\ pc[t] \in Holding
        /\ \E label \in {"resolve", "circuit", "send", "failed", "succeeded"} : Goto(t, label)
        /\ UNCHANGED <<job, queue, parked, slots, rows, delivered, dropped>>
        /\ Apart
    BY <1>4, Zenon DEF AttemptBegin, Discover, Perform, Apart, Holding
  <2>2. QED
    BY <2>1, KeepMoves, Zenon DEF Holding
<1>5. CASE AttemptSucceeded(t)
  <2>1. /\ pc[t] = "succeeded" /\ UNCHANGED <<job, queue, parked, dropped>>
        /\ Apart
    BY <1>5, Zenon DEF AttemptSucceeded, Apart
  <2>2. CASE /\ delete_federation_transaction(job[t])
             /\ release_destination_slot_locked(job[t].dst)
             /\ delivered' = delivered \cup {job[t].id}
             /\ Goto(t, "release")
    <3>1. pc'[t] = "release" /\ Others(t)
      BY <2>1, <2>2 DEF Goto, Shapes, Others
    <3>2. QED
      BY ONLY <2>1, <2>2, <3>1, Zenon DEF Move, LetGo, Holding
  <2>3. CASE Goto(t, "retry") /\ UNCHANGED <<rows, slots, delivered>>
    BY <2>1, <2>3, KeepMoves, Zenon DEF Holding
  <2>4. QED
    BY <1>5, <2>1, <2>2, <2>3, Zenon DEF AttemptSucceeded
<1>6. CASE AttemptFailed(t)
  <2>1. /\ pc[t] = "failed" /\ Goto(t, "retry")
        /\ UNCHANGED <<job, queue, parked, slots, rows, delivered, dropped>>
        /\ Apart
    BY <1>6 DEF AttemptFailed, Apart
  <2>2. QED
    BY <2>1, KeepMoves, Zenon DEF Holding
<1>7. CASE wait_out_open_circuit(t)
  <2>1. job[t] \in Transactions /\ pc[t] \in Holding
    BY <1>7 DEF wait_out_open_circuit, Shapes, Flying, Holding
  <2>2. Apart
    BY <1>7 DEF wait_out_open_circuit, PersistAndRequeue, Apart
  <2>3. PICK due \in Nat : PersistAndRequeue(t, [job[t] EXCEPT !.due = due])
    <3>1. seen[t] \in DestinationStates /\ at[t] \in Nat
      BY DEF Shapes
    <3>2. seen[t].retryAfter \in Nat /\ job[t].retries \in Nat
      BY ONLY <2>1, <3>1, Zenon DEF DestinationStates, Transactions
    <3>3. at[t] + compute_backoff(job[t].retries) \in Nat
      BY ONLY <3>1, <3>2, BackoffType
    <3>4. QED
      BY ONLY <1>7, <3>2, <3>3, Zenon DEF wait_out_open_circuit
  <2>4. /\ [job[t] EXCEPT !.due = due] \in Transactions
        /\ [job[t] EXCEPT !.due = due].id = job[t].id
        /\ [job[t] EXCEPT !.due = due].dst = job[t].dst
    BY ONLY <2>1, due \in Nat DEF Transactions
  <2>5. QED
    BY <2>1, <2>2, <2>3, <2>4, RequeueMoves, Zenon
<1>8. CASE re_enqueue_with_backoff(t)
  <2>1. job[t] \in Transactions /\ pc[t] \in Holding
    BY <1>8, Zenon DEF re_enqueue_with_backoff, Shapes, Flying, Holding
  <2>2. CASE DropExhausted(t)
    <3>1. /\ pc'[t] = "release" /\ job' = job /\ Others(t)
          /\ UNCHANGED <<queue, parked, delivered>> /\ Apart
          /\ release_destination_slot_locked(job[t].dst)
      BY <2>2, Zenon DEF DropExhausted, Goto, Shapes, Others, Apart
    <3>2. \/ UNCHANGED <<rows, dropped>> /\ faults' = faults + 1
          \/ /\ delete_federation_transaction(job[t])
             /\ dropped' = dropped \cup {job[t].id}
      BY <2>2 DEF DropExhausted, Fault
    <3>3. LetGo(t)
      BY <2>1, <3>1, <3>2, Zenon DEF LetGo
    <3>4. QED
      BY <3>1, <3>3, Zenon DEF Move
  <2>3. CASE \E more \in Nat, due \in Nat :
               PersistAndRequeue(t, [job[t] EXCEPT !.retries = more, !.due = due])
    <3>1. PICK more \in Nat, due \in Nat :
            PersistAndRequeue(t, [job[t] EXCEPT !.retries = more, !.due = due])
      BY <2>3, Zenon
    <3> DEFINE row == [job[t] EXCEPT !.retries = more, !.due = due]
    <3>2. row \in Transactions /\ row.id = job[t].id /\ row.dst = job[t].dst
      BY ONLY <2>1, more \in Nat, due \in Nat, Zenon DEF Transactions
    <3>3. Apart
      BY <3>1 DEF PersistAndRequeue, Apart
    <3> HIDE DEF row
    <3>4. PersistAndRequeue(t, row)
      BY <3>1 DEF row
    <3>5. QED
      BY <2>1, <3>2, <3>3, <3>4, RequeueMoves, Zenon
  <2>4. job[t].retries + 1 \in Nat /\ at[t] + compute_backoff(job[t].retries + 1) \in Nat
    <3>1. job[t].retries \in Nat
      BY ONLY <2>1, Zenon DEF Transactions
    <3>2. at[t] \in Nat
      BY DEF Shapes
    <3>3. QED
      BY ONLY <3>1, <3>2, BackoffType
  <2>5. QED
    BY <1>8, <2>2, <2>3, <2>4, Zenon DEF re_enqueue_with_backoff
<1>9. CASE ReleaseInFlight(t)
  <2>1. /\ pc[t] = "release" /\ Goto(t, "loop")
        /\ UNCHANGED <<queue, parked, slots, rows, delivered, dropped>>
        /\ Apart
    BY <1>9 DEF ReleaseInFlight, Apart
  <2>2. \A u \in Threads \ {t} : job'[u] = job[u]
    BY <1>9, Zenon DEF ReleaseInFlight, Shapes
  <2>3. QED
    BY <2>1, <2>2, KeepMoves, Zenon DEF Holding
<1>10. QED
  BY <1>1, <1>2, <1>3, <1>4, <1>5, <1>6, <1>7, <1>8, <1>9 DEF ThreadStep, Poll, DrainTake
=============================================================================
