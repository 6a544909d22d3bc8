--------------------------- MODULE LongPollProofs ---------------------------
(***************************************************************************)
(* Proofs about LongPoll, for any number of users, polls, writers, threads  *)
(* and orderings.  Here: while no watermark write fails, a token never      *)
(* passes an event that was not given, nothing is given twice and a token   *)
(* is never ahead of the stream.                                            *)
(***************************************************************************)
EXTENDS LongPoll, WellFoundedInduction, TLAPS

Writes == {"idle", "commit", "apply", "announce", "announced", "accepted", "notify", "notified"}

\* Orderings are below the counter, and an event that clients may be given has
\* one that is no longer pending.
Stream ==
    /\ next \in Nat /\ 0 < next /\ next <= MaxOrdering + 1
    /\ watermark \in Nat /\ watermark < next
    /\ pending \subseteq Nat /\ \A o \in pending : 0 < o /\ o < next
    /\ events \subseteq disk /\ disk \subseteq Events
    /\ \A e \in disk : 0 < e.ord /\ e.ord < next /\ e.aud # {}
    /\ \A e \in events : e.ord \notin pending

Reserved(w) == wpc[w] \in {"commit", "apply"}

\* A writer commits an event somebody is to see, and applies what it committed.
Backed(w) ==
    /\ wpc[w] = "commit" => work[w].aud # {}
    /\ wpc[w] = "apply" /\ work[w].aud # {} => work[w] \in disk

\* A reservation is pending and nobody else's; what is durable and not yet
\* applied is the event of a writer about to apply it.
Writing ==
    /\ wpc \in [Writers -> Writes] /\ work \in [Writers -> Events] /\ pub \in [Writers -> Publications]
    /\ \A w \in Writers : Reserved(w) => work[w].ord \in pending
    /\ \A w \in Writers : Backed(w)
    /\ \A w, v \in Writers : Reserved(w) /\ Reserved(v) /\ w # v => work[w].ord # work[v].ord
    /\ \A e \in disk \ events : \E w \in Writers : wpc[w] = "apply" /\ work[w] = e

Clients == tok \in [Polls -> Nat] /\ delivered \in [Polls -> SUBSET Nat]

\* With no failed write the durable watermark is the newest ordering, so a
\* restart takes no ordering back.
Durable == faults = 0 /\ watermark = next - 1

Tokens == Durable /\ TokensStayValid /\ NoEventSkipped /\ NoEventRepeated

-----------------------------------------------------------------------------
(***************************************************************************)
(* The visible position and the rebuilt counter.                            *)
(***************************************************************************)
\* A set of naturals has a least element.
LEMMA LeastExists ==
    ASSUME NEW S, S \subseteq Nat, S # {}
    PROVE  \E m \in S : \A n \in S : m <= n
<1>1. PICK m \in S : \A n \in S : ~(<<n, m>> \in OpToRel(<, Nat))
    BY WFMin, NatLessThanWellFounded, Zenon
<1>2. ASSUME NEW n \in S PROVE m <= n
    <2>1. m \in Nat /\ n \in Nat /\ ~(<<n, m>> \in OpToRel(<, Nat))
        BY <1>1, Zenon
    <2> QED
        BY <2>1 DEF OpToRel
<1> QED
    BY <1>2

\* A bounded set of naturals has a greatest element.
LEMMA GreatestExists ==
    ASSUME NEW N \in Nat, NEW S, S \subseteq 0..N, S # {}
    PROVE  \E m \in S : \A n \in S : n <= m
<1> DEFINE T == {N - n : n \in S}
<1>1. T \subseteq Nat /\ T # {}
    <2>1. \A n \in S : N - n \in Nat
        OBVIOUS
    <2> QED
        BY <2>1, Zenon
<1>2. PICK t \in T : \A x \in T : t <= x
    <2> HIDE DEF T
    <2> QED
        BY <1>1, LeastExists, Zenon
<1>3. PICK m \in S : t = N - m
    OBVIOUS
<1>4. ASSUME NEW n \in S PROVE n <= m
    <2>1. N - n \in T
        OBVIOUS
    <2>2. t <= N - n
        BY <1>2, <2>1
    <2>3. n \in 0..N /\ m \in 0..N
        OBVIOUS
    <2> QED
        BY <1>3, <2>2, <2>3
<1> QED
    BY <1>4

\* The visible position is the greatest position below the counter and below
\* every pending ordering.
LEMMA VisibleIsGreatest ==
    ASSUME NEW n \in Nat, 0 < n, NEW P, P \subseteq Nat, \A o \in P : 0 < o /\ o < n
    PROVE  /\ VisiblePosition(n, P) \in Nat /\ VisiblePosition(n, P) < n
           /\ \A o \in P : VisiblePosition(n, P) < o
           /\ \A x \in Int : x < n /\ (\A o \in P : x < o) => x <= VisiblePosition(n, P)
<1>1. CASE P = {}
    BY <1>1 DEF VisiblePosition
<1>2. CASE P # {}
    <2> DEFINE oldest == CHOOSE o \in P : \A q \in P : o <= q
    <2>1. oldest \in P /\ \A q \in P : oldest <= q
        <3>1. \E o \in P : \A q \in P : o <= q
            BY <1>2, LeastExists, Zenon
        <3> QED
            BY <3>1, Zenon
    <2>2. VisiblePosition(n, P) = IF P = {} \/ n - 1 < oldest - 1 THEN n - 1 ELSE oldest - 1
        BY Zenon DEF VisiblePosition
    <2> HIDE DEF oldest
    <2>3. VisiblePosition(n, P) = oldest - 1
        BY <1>2, <2>1, <2>2
    <2> QED
        BY <2>1, <2>3
<1> QED
    BY <1>1, <1>2

\* The counter after a restart is past every durable event and the watermark.
LEMMA RebuiltIsPast ==
    ASSUME Stream
    PROVE  /\ RebuiltCounter \in Nat /\ 0 < RebuiltCounter /\ RebuiltCounter <= MaxOrdering + 1
           /\ watermark < RebuiltCounter /\ RebuiltCounter <= next
           /\ \A e \in disk : e.ord < RebuiltCounter
<1> DEFINE S == {0, watermark} \cup {e.ord : e \in disk}
           m == Largest(S)
<1>1. next - 1 \in Nat /\ S # {}
    BY DEF Stream
<1>2. S \subseteq 0..(next - 1)
    <2>1. \A e \in disk : e.ord \in 0..(next - 1)
        BY DEF Stream, Events
    <2>2. {0, watermark} \subseteq 0..(next - 1)
        BY DEF Stream
    <2> QED
        BY <2>1, <2>2
<1>3. m \in S /\ \A n \in S : n <= m
    <2> HIDE DEF S
    <2>1. \E x \in S : \A n \in S : n <= x
        BY <1>1, <1>2, GreatestExists, Zenon
    <2> QED
        BY <2>1 DEF Largest
<1>4. RebuiltCounter = 1 + m
    BY DEF RebuiltCounter
<1>5. m \in 0..(next - 1)
    BY <1>2, <1>3
<1>6. watermark <= m /\ \A e \in disk : e.ord <= m
    BY <1>3, Zenon
<1> HIDE DEF m
<1>7. \A e \in disk : e.ord \in Nat
    BY DEF Stream, Events
<1> QED
    BY <1>4, <1>5, <1>6, <1>7, SyncAssumption DEF Stream

-----------------------------------------------------------------------------
(***************************************************************************)
(* The store and the writers.                                               *)
(***************************************************************************)
LEMMA StoreFrame ==
    ASSUME Stream, Writing, UNCHANGED store, UNCHANGED writing
    PROVE  Stream' /\ Writing'
BY DEF Stream, Writing, Reserved, Backed, store, writing

\* A writer past its reservation moves on: the store is untouched.
LEMMA WriterMovesOn ==
    ASSUME Stream, Writing, UNCHANGED store, NEW w \in Writers, NEW label \in Writes,
           ~Reserved(w), label \notin {"commit", "apply"}, At(w, label),
           work' \in [Writers -> Events], \A v \in Writers : v # w => work'[v] = work[v],
           pub' \in [Writers -> Publications]
    PROVE  Stream' /\ Writing'
<1>1. Stream'
    BY DEF Stream, store
<1>2. wpc' \in [Writers -> Writes]
    BY DEF Writing, At
<1>3. \A v \in Writers : IF v = w THEN ~Reserved(v)' ELSE wpc'[v] = wpc[v] /\ work'[v] = work[v]
    BY DEF Writing, At, Reserved
<1>4. \A v \in Writers : Reserved(v)' => Reserved(v) /\ v # w /\ work'[v] = work[v]
    BY <1>3 DEF Reserved
<1>5. \A v \in Writers : Reserved(v)' => work'[v].ord \in pending'
    BY <1>4 DEF Writing, store
<1>6. \A v \in Writers : Backed(v)'
    BY <1>3, <1>4 DEF Writing, Reserved, Backed, store
<1>7. \A v, x \in Writers : Reserved(v)' /\ Reserved(x)' /\ v # x => work'[v].ord # work'[x].ord
    BY <1>4 DEF Writing
<1>8. \A e \in disk' \ events' : \E v \in Writers : wpc'[v] = "apply" /\ work'[v] = e
    <2> SUFFICES ASSUME NEW e \in disk \ events
                 PROVE  \E v \in Writers : wpc'[v] = "apply" /\ work'[v] = e
        BY DEF store
    <2>1. PICK v \in Writers : wpc[v] = "apply" /\ work[v] = e
        BY DEF Writing
    <2> QED
        BY <2>1, <1>3 DEF Reserved
<1> QED
    BY <1>1, <1>2, <1>5, <1>6, <1>7, <1>8 DEF Writing

\* Where the publishes of a writer come from is of the right kind.
LEMMA VisibleKinds ==
    ASSUME Stream
    PROVE  /\ visible_stream_position \in Nat /\ visible_stream_position < next
           /\ \A o \in pending : visible_stream_position < o
           /\ \A x \in Int : x < next /\ (\A o \in pending : x < o) => x <= visible_stream_position
BY VisibleIsGreatest, Zenon DEF Stream, visible_stream_position

LEMMA ReserveStore ==
    ASSUME Stream, Writing, NEW w \in Writers, Reserve(w)
    PROVE  Stream' /\ Writing'
<1> PICK a \in Audiences : work' = [work EXCEPT ![w] = [ord |-> next, aud |-> a]]
    BY Zenon DEF Reserve
<1>1. /\ next' = next + 1 /\ next <= MaxOrdering /\ pending' = pending \cup {next}
      /\ watermark' = next \/ watermark' = watermark
      /\ UNCHANGED <<events, disk, pub>>
      /\ wpc[w] = "idle" /\ wpc' = [wpc EXCEPT ![w] = "commit"]
    BY DEF Reserve, allocate_stream_ordering, At
<1>2. a # {} /\ [ord |-> next, aud |-> a] \in Events
    BY SyncAssumption, Zenon DEF Stream, Events
<1>3. Stream'
    <2>1. \A e \in disk : e.ord \in Nat /\ e.ord < next
        BY DEF Stream, Events
    <2>2. /\ next' \in Nat /\ 0 < next' /\ next' <= MaxOrdering + 1
          /\ watermark' \in Nat /\ watermark' < next'
        BY <1>1, SyncAssumption DEF Stream
    <2>3. pending' \subseteq Nat /\ \A o \in pending' : 0 < o /\ o < next'
        <3>1. next \in Nat /\ 0 < next /\ \A o \in pending : o \in Nat /\ 0 < o /\ o < next
            BY Zenon DEF Stream
        <3> QED
            BY <1>1, <3>1
    <2>4. \A e \in disk' : 0 < e.ord /\ e.ord < next' /\ e.aud # {}
        BY <1>1, <2>1 DEF Stream
    <2>5. \A e \in events' : e.ord \notin pending'
        BY <1>1, <2>1 DEF Stream
    <2> QED
        BY <1>1, <2>2, <2>3, <2>4, <2>5 DEF Stream
<1>4. /\ wpc' \in [Writers -> Writes] /\ work' \in [Writers -> Events]
      /\ pub' \in [Writers -> Publications]
    BY <1>1, <1>2 DEF Writing, Writes
<1>5. /\ wpc'[w] = "commit" /\ work'[w].ord = next /\ work'[w].aud # {}
      /\ \A v \in Writers : v # w => wpc'[v] = wpc[v] /\ work'[v] = work[v]
    BY <1>1, <1>2 DEF Writing
<1>6. \A v \in Writers : v # w /\ Reserved(v)' => Reserved(v) /\ work'[v].ord \in pending /\ work'[v].ord # next
    BY <1>5 DEF Writing, Reserved, Stream
<1>7. \A v \in Writers : Reserved(v)' => work'[v].ord \in pending'
    BY <1>1, <1>5, <1>6
<1>8. \A v \in Writers : Backed(v)'
    BY <1>1, <1>5 DEF Writing, Backed
<1>9. \A v, x \in Writers : Reserved(v)' /\ Reserved(x)' /\ v # x => work'[v].ord # work'[x].ord
    BY <1>5, <1>6 DEF Writing
<1>10. \A e \in disk' \ events' : \E v \in Writers : wpc'[v] = "apply" /\ work'[v] = e
    <2> SUFFICES ASSUME NEW e \in disk \ events
                 PROVE  \E v \in Writers : wpc'[v] = "apply" /\ work'[v] = e
        BY <1>1
    <2>1. PICK v \in Writers : wpc[v] = "apply" /\ work[v] = e
        BY DEF Writing
    <2> QED
        BY <2>1, <1>1, <1>5
<1> QED
    BY <1>3, <1>4, <1>7, <1>8, <1>9, <1>10 DEF Writing

LEMMA CommitStore ==
    ASSUME Stream, Writing, NEW w \in Writers, Commit(w)
    PROVE  Stream' /\ Writing'
<1>1. /\ UNCHANGED <<next, pending, events, watermark, pub>>
      /\ wpc[w] = "commit" /\ wpc' = [wpc EXCEPT ![w] = "apply"]
    BY DEF Commit, At
<1>2. work[w] \in Events /\ work[w].ord \in pending /\ work[w].aud # {}
    BY <1>1 DEF Writing, Reserved, Backed
<1>3. /\ wpc' \in [Writers -> Writes] /\ pub' \in [Writers -> Publications] /\ wpc'[w] = "apply"
      /\ \A v \in Writers : v # w => wpc'[v] = wpc[v]
    BY <1>1 DEF Writing, Writes
<1>4. CASE disk' = disk \cup {work[w]} /\ UNCHANGED work
    <2>1. Stream'
        BY <1>1, <1>2, <1>4 DEF Stream
    <2>2. \A v \in Writers : Reserved(v)' => Reserved(v) /\ work'[v].ord \in pending'
        BY <1>1, <1>2, <1>3, <1>4 DEF Writing, Reserved
    <2>3. \A v \in Writers : Backed(v)'
        BY <1>2, <1>3, <1>4 DEF Writing, Backed
    <2>4. \A v, x \in Writers : Reserved(v)' /\ Reserved(x)' /\ v # x => work'[v].ord # work'[x].ord
        BY <1>4, <2>2 DEF Writing
    <2>5. \A e \in disk' \ events' : \E v \in Writers : wpc'[v] = "apply" /\ work'[v] = e
        <3> SUFFICES ASSUME NEW e \in disk' \ events'
                     PROVE  \E v \in Writers : wpc'[v] = "apply" /\ work'[v] = e
            OBVIOUS
        <3>1. CASE e = work[w]
            BY <1>3, <1>4, <3>1
        <3>2. CASE e \in disk \ events
            <4>1. PICK v \in Writers : wpc[v] = "apply" /\ work[v] = e
                BY <3>2, Zenon DEF Writing
            <4> QED
                BY <4>1, <1>1, <1>3, <1>4
        <3> QED
            BY <1>1, <1>4, <3>1, <3>2
    <2> QED
        BY <1>3, <1>4, <2>1, <2>2, <2>3, <2>4, <2>5 DEF Writing
<1>5. CASE work' = [work EXCEPT ![w].aud = {}] /\ UNCHANGED disk
    <2>1. Stream'
        BY <1>1, <1>5 DEF Stream
    <2>2. /\ work' \in [Writers -> Events] /\ work'[w].ord = work[w].ord
          /\ work'[w].aud = {}
          /\ \A v \in Writers : v # w => work'[v] = work[v]
        BY <1>5, <1>2, Zenon DEF Writing, Events
    <2>3. \A v \in Writers : /\ work'[v].ord = work[v].ord
                             /\ Reserved(v)' => Reserved(v) /\ work'[v].ord \in pending'
        BY <1>1, <1>2, <1>3, <2>2 DEF Writing, Reserved
    <2>4. \A v \in Writers : Backed(v)'
        BY <1>3, <1>5, <2>2, SMTT(20) DEF Writing, Backed
    <2>5. \A v, x \in Writers : Reserved(v)' /\ Reserved(x)' /\ v # x => work'[v].ord # work'[x].ord
        BY <2>3 DEF Writing
    <2>6. \A e \in disk' \ events' : \E v \in Writers : wpc'[v] = "apply" /\ work'[v] = e
        <3> SUFFICES ASSUME NEW e \in disk \ events
                     PROVE  \E v \in Writers : wpc'[v] = "apply" /\ work'[v] = e
            BY <1>1, <1>5
        <3>1. PICK v \in Writers : wpc[v] = "apply" /\ work[v] = e
            BY Zenon DEF Writing
        <3> QED
            BY <3>1, <1>1, <1>3, <2>2
    <2> QED
        BY <1>3, <2>1, <2>2, <2>3, <2>4, <2>5, <2>6 DEF Writing
<1> QED
    BY <1>4, <1>5 DEF Commit

LEMMA ApplyStore ==
    ASSUME Stream, Writing, NEW w \in Writers, Apply(w)
    PROVE  Stream' /\ Writing'
<1>1. /\ UNCHANGED <<next, disk, watermark, work>>
      /\ wpc[w] = "apply" /\ wpc' = [wpc EXCEPT ![w] = "announce"]
      /\ pending' = pending \ {work[w].ord}
      /\ events' = IF work[w].aud = {} THEN events ELSE events \cup {work[w]}
    BY DEF Apply, At
<1>2. Reserved(w) /\ work[w] \in Events /\ work[w].ord \in pending
    BY <1>1 DEF Writing, Reserved
<1>3. /\ wpc' \in [Writers -> Writes] /\ wpc'[w] = "announce"
      /\ \A v \in Writers : v # w => wpc'[v] = wpc[v]
    BY <1>1 DEF Writing, Writes
<1>4. pub' \in [Writers -> Publications]
    <2>1. VisiblePosition(next, pending \ {work[w].ord}) \in Int
        <3> DEFINE P == pending \ {work[w].ord}
        <3>1. next \in Nat /\ 0 < next /\ P \subseteq Nat /\ \A o \in P : 0 < o /\ o < next
            BY Zenon DEF Stream
        <3> HIDE DEF P
        <3>2. VisiblePosition(next, P) \in Nat
            BY <3>1, VisibleIsGreatest, Zenon
        <3> QED
            BY <3>2 DEF P
    <2> DEFINE V == VisiblePosition(next, pending \ {work[w].ord})
               x == [visible |-> V, users |-> {}, scope |-> IF V > work[w].ord THEN "everyone" ELSE "users"]
    <2>2. pub' = [pub EXCEPT ![w] = x]
        BY DEF Apply, EndReservation
    <2>3. x \in Publications
        <3> HIDE DEF V
        <3> QED
            BY <2>1 DEF Publications, V
    <2> HIDE DEF x
    <2> QED
        BY <2>2, <2>3 DEF Writing
<1>5. \A v \in Writers : Reserved(v)' => v # w /\ Reserved(v) /\ work'[v].ord \in pending'
    BY <1>1, <1>2, <1>3 DEF Writing, Reserved
<1>6. \A v \in Writers : Backed(v)'
    BY <1>1, <1>3 DEF Writing, Backed
<1>7. \A v, x \in Writers : Reserved(v)' /\ Reserved(x)' /\ v # x => work'[v].ord # work'[x].ord
    BY <1>1, <1>5 DEF Writing
<1>8. \A e \in disk' \ events' : \E v \in Writers : wpc'[v] = "apply" /\ work'[v] = e
    <2> SUFFICES ASSUME NEW e \in disk' \ events'
                 PROVE  \E v \in Writers : wpc'[v] = "apply" /\ work'[v] = e
        OBVIOUS
    <2>1. e \in disk \ events /\ e.aud # {}
        BY <1>1 DEF Stream
    <2>2. PICK v \in Writers : wpc[v] = "apply" /\ work[v] = e
        BY <2>1 DEF Writing
    <2>3. v # w
        BY <1>1, <2>1, <2>2
    <2> QED
        BY <1>1, <1>3, <2>2, <2>3
<1>9. Stream'
    <2>1. events' \subseteq disk'
        BY <1>1 DEF Stream, Writing, Backed
    <2>2. \A e \in events' : e.ord \notin pending'
        BY <1>1 DEF Stream
    <2> QED
        BY <1>1, <2>1, <2>2, Zenon DEF Stream
<1> QED
    BY <1>1, <1>3, <1>4, <1>5, <1>6, <1>7, <1>8, <1>9 DEF Writing

LEMMA LocalWriteStore ==
    ASSUME Stream, Writing, NEW w \in Writers, LocalWrite(w)
    PROVE  Stream' /\ Writing'
<1>1. /\ next' = next + 1 /\ next <= MaxOrdering /\ UNCHANGED pending
      /\ watermark' = next \/ watermark' = watermark
      /\ wpc[w] = "idle"
    BY DEF LocalWrite, allocate_stream_ordering
<1>2. /\ next' \in Nat /\ 0 < next' /\ next' <= MaxOrdering + 1
      /\ watermark' \in Nat /\ watermark' < next'
      /\ pending' \subseteq Nat /\ \A o \in pending' : 0 < o /\ o < next'
    BY <1>1, SyncAssumption DEF Stream
<1>3. \A e \in disk : e.ord \in Nat /\ 0 < e.ord /\ e.ord < next'
    BY <1>1, SMTT(20) DEF Stream, Events
<1>4. CASE UNCHANGED <<work, events, disk, pub, mutex, wpc>>
    <2>1. Stream'
        BY <1>1, <1>2, <1>3, <1>4 DEF Stream
    <2> QED
        BY <1>1, <1>4, <2>1, Zenon DEF Writing, Reserved, Backed
<1>5. ASSUME NEW a \in Audiences, NEW e, e = [ord |-> next, aud |-> a],
             /\ work' = [work EXCEPT ![w] = e]
             /\ events' = events \cup {e}
             /\ disk' = disk \cup {e}
             /\ pub' = [pub EXCEPT ![w] = [visible |-> VisiblePosition(next + 1, pending),
                                           scope |-> "users", users |-> a]]
             /\ At(w, "notify")
      PROVE  Stream' /\ Writing'
    <2>1. e \in Events /\ e.ord = next /\ e.aud # {} /\ next \notin pending
        <3>1. next \in Nat /\ next \notin pending
            BY DEF Stream
        <3>2. a \in SUBSET Users /\ a # {}
            BY SyncAssumption, Zenon
        <3> QED
            BY <1>5, <3>1, <3>2 DEF Events
    <2>2. Stream'
        <3>1. \A d \in disk' : 0 < d.ord /\ d.ord < next' /\ d.aud # {}
            BY <1>1, <1>2, <1>3, <1>5, <2>1 DEF Stream
        <3>2. \A d \in events' : d.ord \notin pending'
            BY <1>1, <1>5, <2>1 DEF Stream
        <3>3. events' \subseteq disk' /\ disk' \subseteq Events
            BY <1>5, <2>1, Zenon DEF Stream
        <3> QED
            BY <1>2, <3>1, <3>2, <3>3 DEF Stream
    <2>3. /\ wpc' \in [Writers -> Writes] /\ work' \in [Writers -> Events] /\ wpc'[w] = "notify"
          /\ \A v \in Writers : v # w => wpc'[v] = wpc[v] /\ work'[v] = work[v]
        BY <1>5, <2>1, Zenon DEF Writing, Writes, At
    <2>4. pub' \in [Writers -> Publications]
        <3>1. VisiblePosition(next + 1, pending) \in Int
            <4>1. /\ next + 1 \in Nat /\ 0 < next + 1
                  /\ pending \subseteq Nat /\ \A o \in pending : 0 < o /\ o < next + 1
                BY <1>1, <1>2
            <4>2. VisiblePosition(next + 1, pending) \in Nat
                BY <4>1, VisibleIsGreatest, Zenon
            <4> QED
                BY <4>2
        <3>2. [visible |-> VisiblePosition(next + 1, pending), scope |-> "users", users |-> a]
                  \in Publications
            BY <3>1, SyncAssumption DEF Publications
        <3> QED
            BY <1>5, <3>2 DEF Writing
    <2>5. \A v \in Writers : Reserved(v)' => v # w /\ Reserved(v) /\ work'[v] = work[v]
        BY <2>3 DEF Reserved
    <2>6. \A v \in Writers : Reserved(v)' => work'[v].ord \in pending'
        BY <1>1, <2>5, Zenon DEF Writing
    <2>7. \A v \in Writers : Backed(v)'
        BY <1>5, <2>3 DEF Writing, Backed
    <2>8. \A v, x \in Writers : Reserved(v)' /\ Reserved(x)' /\ v # x => work'[v].ord # work'[x].ord
        BY <2>5 DEF Writing
    <2>9. \A d \in disk' \ events' : \E v \in Writers : wpc'[v] = "apply" /\ work'[v] = d
        <3> SUFFICES ASSUME NEW d \in disk \ events
                     PROVE  \E v \in Writers : wpc'[v] = "apply" /\ work'[v] = d
            BY <1>5
        <3>1. PICK v \in Writers : wpc[v] = "apply" /\ work[v] = d
            BY Zenon DEF Writing
        <3> QED
            BY <1>1, <2>3, <3>1, Zenon
    <2> QED
        BY <2>2, <2>3, <2>4, <2>6, <2>7, <2>8, <2>9 DEF Writing
<1> QED
    BY <1>4, <1>5, Zenon DEF LocalWrite

LEMMA RestartStore ==
    ASSUME Stream, Writing, Restart
    PROVE  Stream' /\ Writing'
<1>1. /\ next' = RebuiltCounter /\ watermark' = RebuiltCounter - 1
      /\ pending' = {} /\ events' = disk /\ disk' = disk
      /\ wpc' = [w \in Writers |-> "idle"] /\ work' = [w \in Writers |-> NoEvent]
      /\ pub' = [w \in Writers |-> Nothing]
    BY DEF Restart
<1>2. Stream'
    BY <1>1, RebuiltIsPast DEF Stream
<1>3. NoEvent \in Events /\ Nothing \in Publications
    BY DEF NoEvent, Events, Nothing, Publications
<1>4. /\ wpc' \in [Writers -> Writes] /\ work' \in [Writers -> Events]
      /\ pub' \in [Writers -> Publications]
    BY <1>1, <1>3 DEF Writes
<1>5. \A w \in Writers : wpc'[w] = "idle"
    BY <1>1
<1> QED
    BY <1>1, <1>2, <1>4, <1>5 DEF Writing, Reserved, Backed

\* The publishes of a writer that has applied its event.
LEMMA PublishStore ==
    ASSUME Stream, Writing, NEW w \in Writers,
           Announce(w) \/ Announced(w) \/ ReadAudience(w) \/ Notify(w) \/ Notified(w)
    PROVE  Stream' /\ Writing'
<1> USE DEF Writes, Reserved
<1>1. /\ NoEvent \in Events /\ Nothing \in Publications
      /\ work \in [Writers -> Events] /\ pub \in [Writers -> Publications]
    BY DEF NoEvent, Events, Nothing, Publications, Writing
<1>2. CASE Announce(w)
    BY <1>1, <1>2, WriterMovesOn DEF Announce
<1>3. CASE Announced(w)
    <2>1. CASE work[w].aud = {}
        <3>1. UNCHANGED store /\ wpc[w] = "announced" /\ Done(w)
            BY <1>3, <2>1, Zenon DEF Announced
        <3>2. /\ At(w, "idle") /\ work' \in [Writers -> Events] /\ pub' \in [Writers -> Publications]
              /\ \A v \in Writers : v # w => work'[v] = work[v]
            BY <1>1, <3>1 DEF Done
        <3> QED
            BY <3>1, <3>2, WriterMovesOn, Zenon
    <2>2. CASE work[w].aud # {}
        BY <1>1, <1>3, <2>2, WriterMovesOn, Zenon DEF Announced
    <2> QED
        BY <2>1, <2>2, Zenon
<1>4. CASE ReadAudience(w)
    <2> DEFINE x == [visible |-> visible_stream_position, scope |-> "users", users |-> work[w].aud]
    <2>1. x \in Publications
        BY <1>1, VisibleKinds, SMTT(20) DEF Publications, Events
    <2>2. pub' = [pub EXCEPT ![w] = x] /\ UNCHANGED <<store, work>> /\ wpc[w] = "accepted" /\ At(w, "notify")
        BY <1>4 DEF ReadAudience
    <2> HIDE DEF x
    <2>3. pub' \in [Writers -> Publications]
        BY <1>1, <2>1, <2>2
    <2> QED
        BY <1>1, <2>2, <2>3, WriterMovesOn
<1>5. CASE Notify(w)
    BY <1>1, <1>5, WriterMovesOn DEF Notify
<1>6. CASE Notified(w)
    <2>1. UNCHANGED store /\ wpc[w] = "notified" /\ Done(w)
        BY <1>6 DEF Notified
    <2>2. /\ At(w, "idle") /\ work' \in [Writers -> Events] /\ pub' \in [Writers -> Publications]
          /\ \A v \in Writers : v # w => work'[v] = work[v]
        BY <1>1, <2>1 DEF Done
    <2> QED
        BY <2>1, <2>2, WriterMovesOn, Zenon
<1> QED
    BY <1>2, <1>3, <1>4, <1>5, <1>6, Zenon

\* The steps of polls, of the registry and of a stop.
OtherStep ==
    \/ \E p \in Polls : Request(p) \/ PollStep(p) \/ ClientGone(p) \/ TimeUp(p)
    \/ ParkerStep \/ RegistryStep \/ request_stop \/ PoolStop

LEMMA OtherStepStore ==
    ASSUME OtherStep \/ UNCHANGED vars
    PROVE  UNCHANGED store /\ UNCHANGED writing /\ UNCHANGED faults
<1>1. ASSUME NEW p \in Polls, Request(p) \/ PollStep(p) \/ ClientGone(p) \/ TimeUp(p)
      PROVE  UNCHANGED store /\ UNCHANGED writing /\ UNCHANGED faults
    BY <1>1, Zenon DEF Request, PollStep, Begin, Check, Rerun, Park, HeldWait, HeldObserve, Final, ClientGone,
                TimeUp, bounds
<1>2. ASSUME ParkerStep PROVE UNCHANGED store /\ UNCHANGED writing /\ UNCHANGED faults
    BY <1>2 DEF ParkerStep, Compare, WakeTicket, bounds
<1>3. ASSUME RegistryStep PROVE UNCHANGED store /\ UNCHANGED writing /\ UNCHANGED faults
    BY <1>3 DEF RegistryStep, Take, Resume, bounds
<1>4. ASSUME request_stop \/ PoolStop PROVE UNCHANGED store /\ UNCHANGED writing /\ UNCHANGED faults
    BY <1>4 DEF request_stop, PoolStop, bounds
<1>5. ASSUME UNCHANGED vars PROVE UNCHANGED store /\ UNCHANGED writing /\ UNCHANGED faults
    BY <1>5 DEF vars, bounds
<1> QED
    BY <1>1, <1>2, <1>3, <1>4, <1>5 DEF OtherStep

LEMMA StoreStep ==
    ASSUME Stream, Writing, [Next]_vars
    PROVE  Stream' /\ Writing'
<1>1. ASSUME NEW w \in Writers, Reserve(w) PROVE Stream' /\ Writing'
    BY <1>1, ReserveStore
<1>2. ASSUME NEW w \in Writers, LocalWrite(w) PROVE Stream' /\ Writing'
    BY <1>2, LocalWriteStore
<1>3. ASSUME NEW w \in Writers, WriterStep(w) PROVE Stream' /\ Writing'
    BY <1>3, CommitStore, ApplyStore, PublishStore DEF WriterStep
<1>4. CASE OtherStep \/ UNCHANGED vars
    BY <1>4, OtherStepStore, StoreFrame
<1>5. CASE Restart
    BY <1>5, RestartStore
<1> QED
    BY <1>1, <1>2, <1>3, <1>4, <1>5 DEF Next, OtherStep

-----------------------------------------------------------------------------
(***************************************************************************)
(* The tokens.                                                              *)
(***************************************************************************)
LEMMA VisibleKindsNext ==
    ASSUME Stream'
    PROVE  /\ visible_stream_position' \in Nat /\ visible_stream_position' < next'
           /\ \A o \in pending' : visible_stream_position' < o
           /\ \A x \in Int : x < next' /\ (\A o \in pending' : x < o) => x <= visible_stream_position'
BY VisibleIsGreatest, Zenon DEF Stream, visible_stream_position

\* The visible position never falls while orderings are only added at the end.
LEMMA VisibleRises ==
    ASSUME Stream, Stream', next <= next', \A o \in pending' : o \in pending \/ next <= o
    PROVE  visible_stream_position <= visible_stream_position'
<1> DEFINE v == visible_stream_position
<1>1. v \in Nat /\ v < next /\ \A o \in pending : v < o
    BY VisibleKinds
<1> HIDE DEF v
<1>2. next \in Nat /\ next' \in Nat /\ pending' \subseteq Nat
    BY DEF Stream
<1>3. v < next' /\ \A o \in pending' : v < o
    BY <1>1, <1>2
<1>4. v <= visible_stream_position'
    BY <1>1, <1>3, VisibleKindsNext
<1> QED
    BY <1>4 DEF v

\* A step that answers nobody keeps the tokens sound when what it makes durable
\* lies above the visible position.
LEMMA TokensFrame ==
    ASSUME Stream, Stream', Clients, Tokens, Durable', UNCHANGED client,
           next <= next', \A o \in pending' : o \in pending \/ next <= o,
           \A e \in disk' : e \in disk \/ e.ord > visible_stream_position
    PROVE  Tokens'
<1>1. /\ visible_stream_position \in Nat /\ visible_stream_position' \in Nat
      /\ visible_stream_position <= visible_stream_position'
    BY VisibleKinds, VisibleKindsNext, VisibleRises
<1>2. \A p \in Polls : tok[p] \in Nat /\ tok'[p] = tok[p] /\ delivered'[p] = delivered[p]
    BY DEF Clients, client
<1>3. TokensStayValid'
    BY <1>1, <1>2 DEF Tokens, TokensStayValid
<1>4. NoEventSkipped'
    <2> SUFFICES ASSUME NEW p \in Polls, NEW e \in events' \cup disk',
                        UserOf[p] \in e.aud, e.ord <= tok'[p]
                 PROVE  e.ord \in delivered'[p]
        BY DEF NoEventSkipped
    <2>1. e \in disk' /\ e.ord \in Nat
        BY DEF Stream, Events
    <2>2. e \in disk
        BY <1>1, <1>2, <2>1, SMTT(20) DEF Tokens, TokensStayValid
    <2> QED
        BY <1>2, <2>2 DEF Tokens, NoEventSkipped
<1>5. NoEventRepeated'
    BY <1>2 DEF Tokens, NoEventRepeated
<1> QED
    BY <1>3, <1>4, <1>5 DEF Tokens

LEMMA AnswerClients ==
    ASSUME Stream, Clients, NEW p \in Polls, Answer(p)
    PROVE  Clients'
<1>1. CASE UNCHANGED client
    BY <1>1 DEF Clients, client
<1>2. CASE /\ tok' = [tok EXCEPT ![p] = visible_stream_position]
           /\ delivered' = [delivered EXCEPT ![p] = @ \cup Timeline(p)]
    <2>1. visible_stream_position \in Nat
        BY VisibleKinds
    <2>2. Timeline(p) \subseteq Nat
        BY DEF Timeline, Stream, Events
    <2>3. delivered[p] \cup Timeline(p) \in SUBSET Nat
        BY <2>2 DEF Clients
    <2> QED
        BY <1>2, <2>1, <2>3 DEF Clients
<1> QED
    BY <1>1, <1>2 DEF Answer

\* An answer gives everything between the old token and the new one.
LEMMA AnswerTokens ==
    ASSUME Stream, Writing, Clients, Tokens, NEW p \in Polls, Answer(p), UNCHANGED store, UNCHANGED faults
    PROVE  Tokens'
<1>1. UNCHANGED <<next, pending, events, disk, watermark>>
    BY DEF store
<1>2. visible_stream_position' = visible_stream_position
    BY <1>1 DEF visible_stream_position
<1>3. Durable'
    BY <1>1 DEF Durable, Tokens
<1>4. CASE UNCHANGED client
    BY <1>1, <1>2, <1>3, <1>4, Zenon DEF Tokens, TokensStayValid, NoEventSkipped, NoEventRepeated, client
<1>5. CASE /\ tok' = [tok EXCEPT ![p] = visible_stream_position]
           /\ delivered' = [delivered EXCEPT ![p] = @ \cup Timeline(p)]
    <2> DEFINE v == visible_stream_position
    <2>1. v \in Nat /\ \A o \in pending : v < o
        BY VisibleKinds
    <2>2. tok[p] \in Nat /\ tok[p] <= v
        BY DEF Clients, Tokens, TokensStayValid
    <2>3. Timeline(p) = {e.ord : e \in {f \in events : UserOf[p] \in f.aud /\ f.ord > tok[p] /\ f.ord <= v}}
        BY <2>1, <2>2 DEF Timeline, Since
    <2>4. /\ tok'[p] = v /\ delivered'[p] = delivered[p] \cup Timeline(p)
          /\ \A q \in Polls : q # p => tok'[q] = tok[q] /\ delivered'[q] = delivered[q]
        BY <1>5 DEF Clients
    <2>5. TokensStayValid'
        BY <1>2, <2>1, <2>4, SMTT(20) DEF Tokens, TokensStayValid
    <2>6. NoEventSkipped'
        <3> SUFFICES ASSUME NEW q \in Polls, NEW e \in disk, UserOf[q] \in e.aud, e.ord <= tok'[q]
                     PROVE  e.ord \in delivered'[q]
            BY <1>1 DEF NoEventSkipped, Stream
        <3>1. CASE q # p
            BY <2>4, <3>1 DEF Tokens, NoEventSkipped
        <3>2. CASE q = p /\ e.ord <= tok[p]
            BY <2>4, <3>2 DEF Tokens, NoEventSkipped
        <3>3. CASE q = p /\ ~(e.ord <= tok[p])
            <4>1. e.ord \in Nat /\ e.ord <= v
                BY <2>4, <3>3 DEF Stream, Events
            <4>2. e \in events
                <5> SUFFICES ASSUME e \notin events PROVE FALSE
                    BY Zenon
                <5>1. PICK w \in Writers : wpc[w] = "apply" /\ work[w] = e
                    BY DEF Writing
                <5>2. e.ord \in pending
                    BY <5>1, Zenon DEF Writing, Reserved
                <5> QED
                    BY <2>1, <4>1, <5>2
            <4>3. e.ord \in Timeline(p)
                BY <2>2, <2>3, <3>3, <4>1, <4>2
            <4> QED
                BY <2>4, <3>3, <4>3
        <3> QED
            BY <3>1, <3>2, <3>3
    <2>7. NoEventRepeated'
        <3>1. \A o \in Timeline(p) : o <= v
            BY <2>3
        <3>2. \A o \in delivered[p] : o \in Nat /\ o <= v
            BY <2>1, <2>2 DEF Clients, Tokens, NoEventRepeated
        <3> QED
            BY <2>4, <3>1, <3>2, Zenon DEF Tokens, NoEventRepeated
    <2> QED
        BY <1>3, <2>5, <2>6, <2>7 DEF Tokens
<1> QED
    BY <1>4, <1>5 DEF Answer

\* Only an answer changes what a client has.
LEMMA OtherStepClient ==
    ASSUME OtherStep \/ UNCHANGED vars
    PROVE  UNCHANGED client \/ \E p \in Polls : Answer(p)
<1>1. ASSUME NEW p \in Polls, Request(p) \/ PollStep(p) \/ ClientGone(p) \/ TimeUp(p)
      PROVE  UNCHANGED client \/ Answer(p)
    BY <1>1, Zenon DEF Request, PollStep, Begin, Check, Rerun, Park, HeldWait, HeldObserve, Final, ClientGone, TimeUp
<1>2. ASSUME ParkerStep PROVE UNCHANGED client
    BY <1>2 DEF ParkerStep, Compare, WakeTicket
<1>3. ASSUME RegistryStep PROVE UNCHANGED client
    BY <1>3 DEF RegistryStep, Take, Resume
<1>4. ASSUME request_stop \/ PoolStop PROVE UNCHANGED client
    BY <1>4 DEF request_stop, PoolStop
<1>5. ASSUME UNCHANGED vars PROVE UNCHANGED client
    BY <1>5 DEF vars
<1> QED
    BY <1>1, <1>2, <1>3, <1>4, <1>5 DEF OtherStep

\* The steps of writers and a restart.
LEMMA WriterClient ==
    ASSUME Restart \/ \E w \in Writers : Reserve(w) \/ LocalWrite(w) \/ WriterStep(w)
    PROVE  UNCHANGED client
<1>1. ASSUME NEW w \in Writers, Reserve(w) \/ LocalWrite(w) PROVE UNCHANGED client
    BY <1>1, Zenon DEF Reserve, LocalWrite
<1>2. ASSUME NEW w \in Writers, WriterStep(w) PROVE UNCHANGED client
    BY <1>2 DEF WriterStep, Commit, Apply, Announce, Announced, ReadAudience, Notify, Notified
<1>3. ASSUME Restart PROVE UNCHANGED client
    BY <1>3 DEF Restart
<1> QED
    BY <1>1, <1>2, <1>3

LEMMA ClientsStep ==
    ASSUME Stream, Clients, [Next]_vars
    PROVE  Clients'
<1>1. ASSUME UNCHANGED client PROVE Clients'
    BY <1>1 DEF Clients, client
<1>2. CASE OtherStep \/ UNCHANGED vars
    BY <1>1, <1>2, OtherStepClient, AnswerClients
<1>3. CASE Restart \/ \E w \in Writers : Reserve(w) \/ LocalWrite(w) \/ WriterStep(w)
    BY <1>1, <1>3, WriterClient
<1> QED
    BY <1>2, <1>3 DEF Next, OtherStep

LEMMA TokensStep ==
    ASSUME MaxFaults = 0, Stream, Writing, Clients, Tokens, Stream', [Next]_vars
    PROVE  Tokens'
<1> DEFINE v == visible_stream_position
<1>1. v \in Nat /\ v < next /\ next \in Nat /\ \A o \in pending : v < o
    BY VisibleKinds DEF Stream
<1>2. ASSUME allocate_stream_ordering
      PROVE  next' = next + 1 /\ next <= next' /\ Durable'
    BY <1>1, <1>2 DEF allocate_stream_ordering, Durable, Tokens
<1>3. ASSUME NEW w \in Writers, Reserve(w) PROVE Tokens'
    <2>1. /\ allocate_stream_ordering /\ pending' = pending \cup {next}
          /\ UNCHANGED disk /\ UNCHANGED client
        BY <1>3 DEF Reserve
    <2>2. Durable' /\ next <= next'
        BY <1>2, <2>1
    <2>3. \A o \in pending' : o \in pending \/ next <= o
        BY <1>1, <2>1
    <2> QED
        BY <2>1, <2>2, <2>3, TokensFrame
<1>4. ASSUME NEW w \in Writers, LocalWrite(w) PROVE Tokens'
    <2>1. allocate_stream_ordering /\ UNCHANGED pending /\ UNCHANGED client
        BY <1>4, Zenon DEF LocalWrite
    <2>2. Durable' /\ next <= next'
        BY <1>2, <2>1, Zenon
    <2>3. \A e \in disk' : e \in disk \/ e.ord = next
        BY ONLY <1>4 DEF LocalWrite
    <2>4. \A e \in disk' : e \in disk \/ e.ord > v
        BY <1>1, <2>3
    <2> QED
        BY <2>1, <2>2, <2>4, TokensFrame
<1>5. ASSUME NEW w \in Writers, Commit(w) PROVE Tokens'
    <2>1. UNCHANGED <<next, pending, watermark, faults>> /\ UNCHANGED client
        BY <1>5 DEF Commit, bounds
    <2>2. work[w].ord \in pending
        BY <1>5 DEF Commit, Writing, Reserved
    <2>3. \A e \in disk' : e \in disk \/ e.ord > v
        BY <1>1, <1>5, <2>2 DEF Commit, Stream
    <2>4. Durable'
        BY <2>1 DEF Durable, Tokens
    <2> QED
        BY <1>1, <2>1, <2>3, <2>4, TokensFrame
<1>6. ASSUME NEW w \in Writers, Apply(w) PROVE Tokens'
    <2>1. /\ UNCHANGED <<next, disk, watermark, faults>> /\ UNCHANGED client
          /\ pending' \subseteq pending
        BY <1>6 DEF Apply, bounds
    <2>2. Durable'
        BY <2>1 DEF Durable, Tokens
    <2> QED
        BY <1>1, <2>1, <2>2, TokensFrame, SMTT(20)
<1>7. ASSUME UNCHANGED store, UNCHANGED faults, UNCHANGED client PROVE Tokens'
    <2>1. UNCHANGED <<next, pending, disk, watermark, faults>>
        BY <1>7 DEF store
    <2>2. Durable'
        BY <2>1 DEF Durable, Tokens
    <2> QED
        BY <1>1, <1>7, <2>1, <2>2, TokensFrame
<1>8. ASSUME NEW w \in Writers,
             Announce(w) \/ Announced(w) \/ ReadAudience(w) \/ Notify(w) \/ Notified(w)
      PROVE  Tokens'
    BY <1>7, <1>8, Zenon DEF Announce, Announced, ReadAudience, Notify, Notified, bounds
<1>9. CASE OtherStep \/ UNCHANGED vars
    BY <1>7, <1>9, OtherStepStore, OtherStepClient, AnswerTokens
<1>10. CASE Restart
    <2>1. /\ next' = RebuiltCounter /\ watermark' = RebuiltCounter - 1 /\ pending' = {}
          /\ UNCHANGED <<disk, faults>> /\ UNCHANGED client
        BY <1>10 DEF Restart
    <2>2. next <= next'
        BY <1>1, <2>1, RebuiltIsPast DEF Tokens, Durable
    <2>3. Durable'
        BY <2>1 DEF Tokens, Durable
    <2> QED
        BY <2>1, <2>2, <2>3, TokensFrame
<1> QED
    BY <1>3, <1>4, <1>5, <1>6, <1>8, <1>9, <1>10 DEF Next, OtherStep, WriterStep

LEMMA StoreInit ==
    ASSUME Init
    PROVE  Stream /\ Writing /\ Clients
<1>1. Stream
    BY SyncAssumption, SMTT(20) DEF Init, Stream
<1>2. NoEvent \in Events /\ Nothing \in Publications
    BY DEF NoEvent, Events, Nothing, Publications
<1>3. /\ wpc \in [Writers -> Writes] /\ work \in [Writers -> Events] /\ pub \in [Writers -> Publications]
      /\ \A w \in Writers : wpc[w] = "idle"
    BY <1>2 DEF Init, Writes
<1>4. disk = {}
    BY DEF Init
<1>5. Writing
    BY <1>3, <1>4, Zenon DEF Writing, Reserved, Backed
<1>6. Clients
    BY DEF Init, Clients
<1> QED
    BY <1>1, <1>5, <1>6, Zenon

LEMMA TokensInit ==
    ASSUME Init
    PROVE  Tokens
<1>1. /\ visible_stream_position \in Nat /\ events \cup disk = {}
      /\ \A p \in Polls : tok[p] = 0 /\ delivered[p] = {}
    BY StoreInit, VisibleKinds, Zenon DEF Init
<1>2. Durable
    BY DEF Init, Durable
<1> QED
    BY <1>1, <1>2 DEF Tokens, TokensStayValid, NoEventSkipped, NoEventRepeated

LEMMA TokensAlways == MaxFaults = 0 => (Spec => []Tokens)
<1> SUFFICES ASSUME MaxFaults = 0 PROVE Spec => []Tokens
    OBVIOUS
<1> DEFINE J == Stream /\ Writing /\ Clients /\ Tokens
<1>1. Init => J
    BY StoreInit, TokensInit
<1>2. J /\ [Next]_vars => J'
    BY StoreStep, ClientsStep, TokensStep
<1> QED
    BY <1>1, <1>2, PTL DEF Spec

\* While no watermark write fails, a token never passes an event of its user
\* that was not given, over commits and applies in any order, crashes between
\* them and restarts (visible_stream_position, sync_json).
THEOREM SkipsNoEvent == MaxFaults = 0 => (Spec => []NoEventSkipped)
<1>1. Tokens => NoEventSkipped
    BY DEF Tokens
<1> QED
    BY <1>1, TokensAlways, PTL

\* Under the same condition what a client was given lies at or below its token,
\* so no later answer repeats it (sync_json's bound on the timeline).
THEOREM RepeatsNoEvent == MaxFaults = 0 => (Spec => []NoEventRepeated)
<1>1. Tokens => NoEventRepeated
    BY DEF Tokens
<1> QED
    BY <1>1, TokensAlways, PTL

\* Under the same condition no restart takes an ordering back that a client may
\* hold: a token is never ahead of the live stream (hydrate_local_database,
\* allocate_stream_ordering).
THEOREM TokensAreValid == MaxFaults = 0 => (Spec => []TokensStayValid)
<1>1. Tokens => TokensStayValid
    BY DEF Tokens
<1> QED
    BY <1>1, TokensAlways, PTL
=============================================================================
