---------------------- MODULE AppserviceDeliveryProofs ----------------------
(***************************************************************************)
(* Proof about AppserviceDelivery, for any number of services, events,      *)
(* items, crashes and failed writes: what a transaction id stands for       *)
(* never changes.                                                           *)
(***************************************************************************)
EXTENDS AppserviceDelivery, TLAPS

\* What the proof needs of the variables' kinds.
Kinds ==
    /\ made \subseteq Nat \ {0} /\ life \in Nat /\ at \in Nat
    /\ outbox \in [Services -> SUBSET Nat]
    /\ cursor \in [Services -> [next : Nat \ {0}, txn : Nat, event : Nat]]
    /\ parked = [s \in Services |-> parked[s]]
    /\ log = [s \in Services |-> log[s]]

\* What was sent used an id of the past and an event that had been enqueued.
Logged(s) ==
    \A x \in log[s] :
        /\ x.txn \in Nat \ {0} /\ x.txn < cursor[s].next
        /\ x.life \in Nat /\ x.life <= life
        /\ x.event # NoEvent => x.event \in made

\* The pending transaction: what was sent under its id is its event with the
\* items a retry would carry, and a restart leaves a retry none.
Pending(s) ==
    cursor[s].txn # NoTxn =>
        /\ cursor[s].txn < cursor[s].next /\ ~parked[s].free
        /\ cursor[s].event # NoEvent /\ cursor[s].event \in made
        /\ \A x \in log[s] : x.txn = cursor[s].txn <=> x.event = cursor[s].event
        /\ \A x \in log[s] : x.txn = cursor[s].txn =>
               /\ x.life = life => x.items = ParkedItems(s)
               /\ x.life < life => ParkedItems(s) = <<>>

\* The parked events-free transaction belongs to this life of the server.
Parked(s) ==
    parked[s].free =>
        /\ parked[s].txn \in Nat \ {0} /\ parked[s].txn < cursor[s].next
        /\ \A x \in log[s] : x.txn = parked[s].txn =>
               x.event = NoEvent /\ x.items = parked[s].items /\ x.life = life

\* An event that was sent and is still queued is the pending one.
Queued(s) ==
    /\ outbox[s] \subseteq made
    /\ \A x \in log[s] : x.event \in outbox[s] => x.txn = cursor[s].txn

\* TransactionsAreFixed for one service.
Fixed(s) ==
    \A x \in log[s], y \in log[s] :
        /\ x.txn = y.txn =>
               /\ x.event = y.event
               /\ x.life = y.life => x.items = y.items
               /\ x.life < y.life => y.event # NoEvent /\ y.items = <<>>
        /\ x.event = y.event /\ x.event # NoEvent => x.txn = y.txn

Service(s) == Logged(s) /\ Pending(s) /\ Parked(s) /\ Queued(s) /\ Fixed(s)

\* The transaction on the network is the pending or the parked one.
Called ==
    /\ at = 0 => call = NoCall
    /\ \A s \in Services : at = s /\ call # NoCall =>
           IF call.event = NoEvent THEN parked[s].free
           ELSE cursor[s].txn # NoTxn /\ cursor[s].event = call.event

IInv == Kinds /\ Called /\ \A s \in Services : Service(s)

LEMMA ServicesAreNumbers == \A s \in Services : s \in Nat \ {0}
BY DeliveryAssumption DEF Services

LEMMA IInvInit == Init => IInv
<1> SUFFICES ASSUME Init PROVE IInv
    OBVIOUS
<1>1. Kinds
    BY DEF Init, Kinds, NoTxn, NoEvent
<1>2. Called
    BY DEF Init, Called
<1>3. ASSUME NEW s \in Services PROVE Service(s)
    <2>1. log[s] = {} /\ outbox[s] = {} /\ cursor[s].txn = NoTxn /\ ~parked[s].free
        BY DEF Init, Unparked
    <2> QED
        BY <2>1 DEF Service, Logged, Pending, Parked, Queued, Fixed
<1> QED
    BY <1>1, <1>2, <1>3 DEF IInv

\* A step that leaves the database, the parked items and the log alone.
LEMMA IInvQuiet ==
    ASSUME IInv, UNCHANGED <<diskVars, parked, made, log, life>>, at' \in Nat, Called'
    PROVE  IInv'
<1>1. Kinds'
    BY DEF IInv, Kinds, diskVars
<1>2. ASSUME NEW s \in Services PROVE Service(s)'
    BY DEF IInv, Service, Logged, Pending, Parked, ParkedItems, Queued, Fixed, diskVars
<1> QED
    BY <1>1, <1>2 DEF IInv

\* A service none of whose state changes keeps its invariant.
LEMMA OtherService ==
    ASSUME NEW s \in Services, Service(s), made \subseteq made', life' = life,
           outbox'[s] = outbox[s], cursor'[s] = cursor[s],
           parked'[s] = parked[s], log'[s] = log[s]
    PROVE  Service(s)'
<1>1. Logged(s)' /\ Queued(s)' /\ Fixed(s)'
    BY DEF Service, Logged, Queued, Fixed
<1>2. Pending(s)' /\ Parked(s)'
    BY DEF Service, Pending, Parked, ParkedItems
<1> QED
    BY <1>1, <1>2 DEF Service

-----------------------------------------------------------------------------
(* Requests, and steps of the drainer that send nothing.                    *)

LEMMA IInvEnqueue ==
    ASSUME IInv, NEW e \in Events, NEW interested \in SUBSET Services, Enqueue(e, interested)
    PROVE  IInv'
<1>1. e \in Nat \ {0}
    BY DeliveryAssumption DEF Events
<1>2. Kinds'
    BY <1>1 DEF IInv, Kinds, Enqueue, memoryVars, drainVars
<1>3. Called'
    BY DEF IInv, Called, Enqueue, memoryVars, drainVars
<1>4. ASSUME NEW s \in Services PROVE Service(s)'
    <2>1. Service(s) /\ e \notin made /\ made' = made \cup {e}
        BY DEF IInv, Enqueue
    <2>2. cursor' = cursor /\ parked' = parked /\ log' = log /\ life' = life
        BY DEF Enqueue, memoryVars, drainVars
    <2>3. outbox'[s] \subseteq outbox[s] \cup {e}
        BY DEF Enqueue
    <2>4. made \subseteq Nat \ {0}
        BY DEF IInv, Kinds
    <2>5. Logged(s)' /\ Fixed(s)'
        BY <2>1, <2>2 DEF Service, Logged, Fixed
    <2>6. Pending(s)' /\ Parked(s)'
        BY <2>1, <2>2 DEF Service, Pending, Parked, ParkedItems
    <2>7. ASSUME NEW x \in log[s] PROVE x.event # e
        BY <2>1, <1>1 DEF Service, Logged, NoEvent
    <2>8. Queued(s)'
        BY <2>1, <2>2, <2>3, <2>7 DEF Service, Queued
    <2> QED
        BY <2>5, <2>6, <2>8 DEF Service
<1> QED
    BY <1>2, <1>3, <1>4 DEF IInv

LEMMA IInvPush ==
    ASSUME IInv, NEW s \in Services, NEW key \in Keys, PushEphemeral(s, key)
    PROVE  IInv'
<1>1. UNCHANGED <<diskVars, parked, made, log, life, at, call>>
    BY DEF PushEphemeral, drainVars
<1>2. Called' /\ at' \in Nat
    BY <1>1 DEF IInv, Called, Kinds, diskVars
<1> QED
    BY <1>1, <1>2, IInvQuiet

LEMMA NextServiceIsNumber ==
    ASSUME IInv, NextService
    PROVE  at' \in Nat
BY DeliveryAssumption DEF IInv, Kinds, NextService

\* A step that ends with no call on the network.
LEMMA IInvUncalled ==
    ASSUME IInv, UNCHANGED <<diskVars, parked, made, log, life>>, at' \in Nat, call' = NoCall
    PROVE  IInv'
<1>1. Called'
    BY DEF Called
<1> QED
    BY <1>1, IInvQuiet

LEMMA IInvUnsent ==
    ASSUME IInv, NEW s \in Services,
           DrainStarts \/ Done(s) \/ CursorFails(s) \/ SendFails(s) \/ AcceptUnrecorded(s)
    PROVE  IInv'
<1>1. CASE DrainStarts
    <2>1. call' = NoCall /\ at' \in Nat
        BY <1>1 DEF IInv, Called, DrainStarts
    <2> QED
        BY <1>1, <2>1, IInvUncalled DEF DrainStarts, memoryVars, historyVars
<1>2. CASE Done(s)
    BY <1>2, NextServiceIsNumber, IInvUncalled DEF Done, Turn, memoryVars, historyVars
<1>3. CASE CursorFails(s)
    BY <1>3, NextServiceIsNumber, IInvUncalled DEF CursorFails, GiveUp, Ready, Turn, historyVars
<1>4. CASE SendFails(s)
    BY <1>4, NextServiceIsNumber, IInvUncalled DEF SendFails, GiveUp, historyVars
<1>5. CASE AcceptUnrecorded(s)
    BY <1>5, NextServiceIsNumber, IInvUncalled DEF AcceptUnrecorded, GiveUp
<1> QED
    BY <1>1, <1>2, <1>3, <1>4, <1>5

LEMMA IInvBackoff ==
    ASSUME IInv, NEW s \in Services, BackoffEnds(s)
    PROVE  IInv'
<1>1. UNCHANGED <<diskVars, parked, made, log, life, at, call>>
    BY DEF BackoffEnds, drainVars, historyVars
<1>2. Called' /\ at' \in Nat
    BY <1>1 DEF IInv, Called, Kinds, diskVars
<1> QED
    BY <1>1, <1>2, IInvQuiet

LEMMA IInvCrash ==
    ASSUME IInv, Crash
    PROVE  IInv'
<1>1. UNCHANGED <<diskVars, made, log>> /\ life' = life + 1 /\ at' = 0 /\ call' = NoCall
    BY DEF Crash, historyVars
<1>2. Kinds'
    BY <1>1 DEF IInv, Kinds, Crash, diskVars
<1>3. Called'
    BY <1>1 DEF Called
<1>4. ASSUME NEW s \in Services PROVE Service(s)'
    <2>1. Service(s) /\ life \in Nat
        BY DEF IInv, Kinds
    <2>2. cursor' = cursor /\ outbox' = outbox /\ log' = log /\ made' = made
        BY <1>1 DEF diskVars
    <2>3. parked'[s] = Unparked
        BY DEF Crash
    <2>4. ParkedItems(s)' = <<>> /\ ~parked'[s].free
        BY <2>3 DEF ParkedItems, Unparked
    <2>5. Logged(s)'
        BY <1>1, <2>1, <2>2 DEF Service, Logged
    <2>6. Pending(s)'
        <3>1. ASSUME NEW x \in log[s] PROVE x.life # life'
            BY <1>1, <2>1, SMTT(20) DEF Service, Logged
        <3> QED
            BY <2>1, <2>2, <2>4, <3>1 DEF Service, Pending
    <2>7. Parked(s)' /\ Queued(s)' /\ Fixed(s)'
        BY <2>1, <2>2, <2>4 DEF Service, Parked, Queued, Fixed
    <2> QED
        BY <2>5, <2>6, <2>7 DEF Service
<1> QED
    BY <1>2, <1>3, <1>4 DEF IInv

-----------------------------------------------------------------------------
(* Steps that send.                                                         *)

LEMMA IInvResend ==
    ASSUME IInv, NEW s \in Services, ResendEphemeral(s)
    PROVE  IInv'
<1> DEFINE new == [txn |-> parked[s].txn, event |-> NoEvent, items |-> parked[s].items, life |-> life]
<1>1. UNCHANGED <<outbox, cursor, parked, made, life, at>> /\ at = s /\ parked[s].free
    BY DEF ResendEphemeral, Ready, Turn, Send, diskVars
<1>2. log' = [log EXCEPT ![s] = @ \cup {new}] /\ call'.event = NoEvent
    BY DEF ResendEphemeral, Send
<1>3. new.txn = parked[s].txn /\ new.event = NoEvent /\ new.items = parked[s].items /\ new.life = life
    OBVIOUS
<1> HIDE DEF new
<1>4. Kinds /\ Service(s)
    BY DEF IInv
<1>5. log'[s] = log[s] \cup {new} /\ \A t \in Services : t # s => log'[t] = log[t]
    BY <1>2, <1>4 DEF Kinds
<1>6. Kinds'
    BY <1>1, <1>2, <1>4, Zenon DEF Kinds
<1>7. Called'
    BY <1>1, <1>2, ServicesAreNumbers DEF Called
<1>8. Service(s)'
    <2>1. cursor[s].txn = NoTxn
        BY <1>1, <1>4 DEF Service, Pending
    <2>2. NoEvent \notin outbox[s]
        BY <1>4 DEF Service, Queued, Kinds, NoEvent
    <2>3. ParkedItems(s)' = ParkedItems(s)
        BY <1>1 DEF ParkedItems
    <2>4. life \in Nat /\ parked[s].txn \in Nat \ {0} /\ parked[s].txn < cursor[s].next
        BY <1>1, <1>4 DEF Kinds, Service, Parked
    <2>5. \A x \in log[s] : x.txn = new.txn => x.event = NoEvent /\ x.items = new.items /\ x.life = life
        BY <1>1, <1>3, <1>4 DEF Service, Parked
    <2>6. Logged(s)'
        BY <1>1, <1>3, <1>4, <1>5, <2>4 DEF Service, Logged
    <2>7. Pending(s)' /\ Queued(s)'
        BY <1>1, <1>3, <1>4, <1>5, <2>1, <2>2 DEF Service, Pending, Queued
    <2>8. Parked(s)'
        BY <1>1, <1>3, <1>4, <1>5 DEF Service, Parked
    <2>9. Fixed(s)'
        <3>1. Fixed(s)
            BY <1>4, Zenon DEF Service
        <3> QED
            BY <1>3, <1>5, <2>4, <2>5, <3>1 DEF Fixed
    <2> QED
        BY <2>6, <2>7, <2>8, <2>9 DEF Service
<1>9. ASSUME NEW t \in Services, t # s PROVE Service(t)'
    BY <1>1, <1>5, <1>9, OtherService DEF IInv
<1> QED
    BY <1>6, <1>7, <1>8, <1>9, Zenon DEF IInv

LEMMA IInvRetry ==
    ASSUME IInv, NEW s \in Services, Retry(s)
    PROVE  IInv'
<1> DEFINE new == [txn |-> cursor[s].txn, event |-> cursor[s].event, items |-> ParkedItems(s), life |-> life]
<1>1. UNCHANGED <<outbox, cursor, parked, made, life, at>> /\ at = s /\ cursor[s].txn # NoTxn
    BY Zenon DEF Retry, Ready, Turn, Send, diskVars
<1>2. log' = [log EXCEPT ![s] = @ \cup {new}] /\ call'.event = cursor[s].event
    BY DEF Retry, Send
<1>3. new.txn = cursor[s].txn /\ new.event = cursor[s].event /\ new.items = ParkedItems(s) /\ new.life = life
    OBVIOUS
<1> HIDE DEF new
<1>4. Kinds /\ Service(s)
    BY DEF IInv
<1>5. log'[s] = log[s] \cup {new} /\ \A t \in Services : t # s => log'[t] = log[t]
    BY <1>2, <1>4 DEF Kinds
<1>6. Kinds'
    BY <1>1, <1>2, <1>4, Zenon DEF Kinds
<1>7. cursor[s].event # NoEvent /\ cursor[s].event \in made /\ ~parked[s].free
    BY <1>1, <1>4, Zenon DEF Service, Pending
<1>8. Called'
    BY <1>1, <1>2, <1>7, ServicesAreNumbers DEF Called
<1>9. Service(s)'
    <2>1. ParkedItems(s)' = ParkedItems(s)
        BY <1>1 DEF ParkedItems
    <2>2. life \in Nat /\ cursor[s].txn \in Nat \ {0} /\ cursor[s].txn < cursor[s].next
        BY <1>1, <1>4 DEF Kinds, Service, Pending, NoTxn
    <2>3. \A x \in log[s] : /\ x.txn = new.txn <=> x.event = new.event
                            /\ x.txn = new.txn => /\ x.life = life => x.items = new.items
                                                  /\ x.life < life => new.items = <<>>
        BY <1>1, <1>3, <1>4 DEF Service, Pending
    <2>4. \A x \in log[s] : x.life \in Nat /\ x.life <= life
        BY <1>4 DEF Service, Logged
    <2>5. Logged(s)'
        BY <1>1, <1>3, <1>4, <1>5, <1>7, <2>2 DEF Service, Logged
    <2>6. Pending(s)'
        <3>1. Pending(s)
            BY <1>4, Zenon DEF Service
        <3> QED
            BY <1>1, <1>3, <1>5, <2>1, <2>2, <3>1 DEF Pending
    <2>7. Parked(s)' /\ Queued(s)'
        BY <1>1, <1>3, <1>4, <1>5, <1>7, Zenon DEF Service, Parked, Queued
    <2>8. Fixed(s)'
        <3>1. Fixed(s)
            BY <1>4 DEF Service
        <3> QED
            BY <1>3, <1>5, <1>7, <2>2, <2>3, <2>4, <3>1 DEF Fixed
    <2> QED
        BY <2>5, <2>6, <2>7, <2>8 DEF Service
<1>10. ASSUME NEW t \in Services, t # s PROVE Service(t)'
    BY <1>1, <1>5, <1>10, OtherService DEF IInv
<1> QED
    BY <1>6, <1>8, <1>9, <1>10 DEF IInv

LEMMA IInvSendEphemeral ==
    ASSUME IInv, NEW s \in Services, SendEphemeral(s)
    PROVE  IInv'
<1> DEFINE n == cursor[s].next
           new == [txn |-> n, event |-> NoEvent, items |-> Taken(s), life |-> life]
           p == [txn |-> n, free |-> TRUE, items |-> Taken(s)]
<1>1. UNCHANGED <<outbox, made, life, at>> /\ at = s /\ cursor[s].txn = NoTxn
    BY DEF SendEphemeral, Ready, Turn, Send
<1>2. /\ log' = [log EXCEPT ![s] = @ \cup {new}] /\ call'.event = NoEvent
      /\ parked' = [parked EXCEPT ![s] = p] /\ cursor' = [cursor EXCEPT ![s].next = @ + 1]
    BY DEF SendEphemeral, Send
<1>3. /\ new.txn = n /\ new.event = NoEvent /\ new.items = p.items /\ new.life = life
      /\ p.txn = n /\ p.free
    OBVIOUS
<1>4. Kinds /\ Service(s)
    BY DEF IInv
<1>5. n \in Nat \ {0} /\ life \in Nat
    BY <1>4 DEF Kinds
<1>6. /\ cursor'[s].next = n + 1 /\ cursor'[s].txn = NoTxn
      /\ \A t \in Services : t # s => cursor'[t] = cursor[t]
    BY <1>1, <1>2, <1>4 DEF Kinds
<1> HIDE DEF new, p
<1>7. /\ log'[s] = log[s] \cup {new} /\ parked'[s] = p
      /\ \A t \in Services : t # s => log'[t] = log[t] /\ parked'[t] = parked[t]
    BY <1>2, <1>4 DEF Kinds
<1>8. Kinds'
    <2>1. cursor' \in [Services -> [next : Nat \ {0}, txn : Nat, event : Nat]]
        BY <1>2, <1>4, <1>5 DEF Kinds
    <2> QED
        BY <1>1, <1>2, <1>4, <2>1, Zenon DEF Kinds
<1>9. Called'
    BY <1>1, <1>2, <1>3, <1>7, ServicesAreNumbers DEF Called
<1>10. Service(s)'
    <2>1. \A x \in log[s] : x.txn \in Nat /\ x.txn < n
        BY <1>4 DEF Service, Logged
    <2>2. NoEvent \notin outbox[s]
        BY <1>4 DEF Service, Queued, Kinds, NoEvent
    <2>3. \A x \in log[s] : x.txn # n /\ x.txn < n + 1
        BY <1>5, <2>1
    <2> HIDE DEF n
    <2>4. Logged(s)'
        BY <1>1, <1>3, <1>4, <1>5, <1>6, <1>7, <2>3 DEF Service, Logged
    <2>5. Pending(s)'
        BY <1>6 DEF Pending
    <2>6. Parked(s)'
        BY <1>1, <1>3, <1>5, <1>6, <1>7, <2>3 DEF Parked
    <2>7. Queued(s)'
        BY <1>1, <1>3, <1>4, <1>6, <1>7, <2>2, Zenon DEF Service, Queued
    <2>8. Fixed(s)'
        BY <1>3, <1>4, <1>5, <1>7, <2>3, SMTT(20) DEF Service, Fixed
    <2> QED
        BY <2>4, <2>5, <2>6, <2>7, <2>8 DEF Service
<1>11. ASSUME NEW t \in Services, t # s PROVE Service(t)'
    BY <1>1, <1>6, <1>7, <1>11, OtherService DEF IInv
<1> QED
    BY <1>8, <1>9, <1>10, <1>11 DEF IInv

LEMMA IInvSendEvent ==
    ASSUME IInv, NEW s \in Services, NEW e \in outbox[s], SendEvent(s, e)
    PROVE  IInv'
<1> DEFINE n == cursor[s].next
           new == [txn |-> n, event |-> e, items |-> Taken(s), life |-> life]
           c == [next |-> n + 1, txn |-> n, event |-> e]
           p == IF Taken(s) = <<>> THEN Unparked ELSE [txn |-> n, free |-> FALSE, items |-> Taken(s)]
<1>1. UNCHANGED <<outbox, made, life, at>> /\ at = s /\ cursor[s].txn = NoTxn
    BY DEF SendEvent, Ready, Turn, Send
<1>2. /\ log' = [log EXCEPT ![s] = @ \cup {new}] /\ call'.event = e
      /\ parked' = [parked EXCEPT ![s] = p] /\ cursor' = [cursor EXCEPT ![s] = c]
    BY DEF SendEvent, Send
<1>3. /\ new.txn = n /\ new.event = e /\ new.items = Taken(s) /\ new.life = life
      /\ c.next = n + 1 /\ c.txn = n /\ c.event = e
    OBVIOUS
<1>4. Kinds /\ Service(s)
    BY DEF IInv
<1>5. n \in Nat \ {0} /\ life \in Nat /\ e \in Nat \ {0} /\ e \in made
    BY <1>4, Zenon DEF Kinds, Service, Queued
<1>6. ~p.free /\ (IF ~p.free /\ p.txn = n THEN p.items ELSE <<>>) = Taken(s)
    <2>1. CASE Taken(s) = <<>>
        BY <2>1, <1>5 DEF Unparked, NoTxn
    <2>2. CASE Taken(s) # <<>>
        BY <2>2
    <2> QED
        BY <2>1, <2>2
<1>7. c \in [next : Nat \ {0}, txn : Nat, event : Nat]
    BY <1>5
<1> HIDE DEF new, c, p
<1>8. /\ log'[s] = log[s] \cup {new} /\ parked'[s] = p /\ cursor'[s] = c
      /\ \A t \in Services : t # s =>
             log'[t] = log[t] /\ parked'[t] = parked[t] /\ cursor'[t] = cursor[t]
    BY <1>2, <1>4 DEF Kinds
<1>9. Kinds'
    BY <1>1, <1>2, <1>4, <1>7, Zenon DEF Kinds
<1>10. Called'
    BY <1>1, <1>2, <1>3, <1>5, <1>8, ServicesAreNumbers DEF Called, NoTxn, NoEvent
<1>11. Service(s)'
    <2>1. \A x \in log[s] : x.txn \in Nat \ {0} /\ x.txn < n
        BY <1>4 DEF Service, Logged
    <2>2. \A x \in log[s] : x.txn # n /\ x.txn < n + 1
        BY <1>5, <2>1
    <2>3. \A x \in log[s] : x.event \notin outbox[s]
        BY <1>1, <1>4, <2>1 DEF Service, Queued, NoTxn
    <2>4. ParkedItems(s)' = Taken(s)
        BY <1>3, <1>6, <1>8 DEF ParkedItems
    <2> HIDE DEF n
    <2>5. Logged(s)'
        BY <1>1, <1>3, <1>4, <1>5, <1>8, <2>2, SMTT(20) DEF Service, Logged
    <2>6. Pending(s)'
        BY <1>1, <1>3, <1>5, <1>6, <1>8, <2>2, <2>3, <2>4 DEF Pending, NoEvent
    <2>7. Parked(s)'
        BY <1>6, <1>8 DEF Parked
    <2>8. Queued(s)'
        BY <1>1, <1>3, <1>4, <1>8, <2>3 DEF Service, Queued
    <2>9. Fixed(s)'
        BY <1>3, <1>4, <1>5, <1>8, <2>2, <2>3, SMTT(20) DEF Service, Fixed
    <2> QED
        BY <2>5, <2>6, <2>7, <2>8, <2>9 DEF Service
<1>12. ASSUME NEW t \in Services, t # s PROVE Service(t)'
    BY <1>1, <1>8, <1>12, OtherService DEF IInv
<1> QED
    BY <1>9, <1>10, <1>11, <1>12 DEF IInv

LEMMA IInvAccept ==
    ASSUME IInv, NEW s \in Services, Accept(s)
    PROVE  IInv'
<1>1. /\ UNCHANGED <<made, log, life, at>> /\ at = s /\ call # NoCall /\ call' = NoCall
      /\ parked' = [parked EXCEPT ![s] = Unparked]
    BY DEF Accept, Calling
<1>2. Kinds /\ Service(s)
    BY DEF IInv
<1>3. /\ parked'[s] = Unparked /\ ~parked'[s].free
      /\ \A t \in Services : t # s => parked'[t] = parked[t]
    BY <1>1, <1>2 DEF Kinds, Unparked
<1>4. cursor[s].txn # NoTxn => call.event # NoEvent /\ call.event = cursor[s].event
    BY <1>1, <1>2 DEF IInv, Called, Service, Pending
<1>5. /\ cursor'[s].next = cursor[s].next /\ cursor'[s].txn = NoTxn
      /\ \A t \in Services : t # s => cursor'[t] = cursor[t] /\ outbox'[t] = outbox[t]
      /\ cursor' \in [Services -> [next : Nat \ {0}, txn : Nat, event : Nat]]
    BY <1>2, <1>4 DEF Accept, Kinds, diskVars, NoTxn, NoEvent
<1>6. /\ outbox'[s] \subseteq outbox[s] /\ outbox' \in [Services -> SUBSET Nat]
      /\ cursor[s].txn # NoTxn => cursor[s].event \notin outbox'[s]
    BY <1>2, <1>4 DEF Accept, Kinds, diskVars
<1>7. Kinds'
    BY <1>1, <1>2, <1>5, <1>6, Zenon DEF Kinds
<1>8. Called'
    BY <1>1 DEF Called
<1>9. Service(s)'
    <2>1. Logged(s)' /\ Fixed(s)'
        BY <1>1, <1>2, <1>5 DEF Service, Logged, Fixed
    <2>2. Pending(s)' /\ Parked(s)'
        BY <1>3, <1>5 DEF Pending, Parked
    <2>3. ASSUME NEW x \in log[s], x.event \in outbox'[s] PROVE FALSE
        <3>1. x.txn = cursor[s].txn /\ x.txn # NoTxn
            BY <1>2, <1>6, <2>3, Zenon DEF Service, Queued, Logged, NoTxn
        <3>2. x.event = cursor[s].event
            BY <1>2, <3>1, Zenon DEF Service, Pending
        <3> QED
            BY <1>6, <2>3, <3>1, <3>2
    <2>4. Queued(s)'
        BY <1>1, <1>2, <1>6, <2>3 DEF Service, Queued
    <2> QED
        BY <2>1, <2>2, <2>4 DEF Service
<1>10. ASSUME NEW t \in Services, t # s PROVE Service(t)'
    BY <1>1, <1>3, <1>5, <1>10, OtherService DEF IInv
<1> QED
    BY <1>7, <1>8, <1>9, <1>10 DEF IInv

-----------------------------------------------------------------------------
LEMMA IInvNext ==
    ASSUME IInv, [Next]_vars
    PROVE  IInv'
<1>1. ASSUME Request PROVE IInv'
    BY <1>1, IInvEnqueue, IInvPush DEF Request
<1>2. ASSUME Drain PROVE IInv'
    <2>1. CASE DrainStarts
        <3>1. 1 \in Services
            BY DeliveryAssumption DEF Services
        <3> QED
            BY <2>1, <3>1, IInvUnsent
    <2>2. ASSUME NEW s \in Services, Done(s) \/ CursorFails(s) PROVE IInv'
        BY <2>2, IInvUnsent
    <2> QED
        BY <1>2, <2>1, <2>2, IInvResend, IInvRetry, IInvSendEphemeral, IInvSendEvent DEF Drain
<1>3. ASSUME Answer PROVE IInv'
    BY <1>3, IInvUnsent, IInvAccept DEF Answer
<1>4. ASSUME UNCHANGED vars PROVE IInv'
    <2>1. UNCHANGED <<diskVars, parked, made, log, life, at, call>>
        BY <1>4 DEF vars, memoryVars, drainVars, historyVars
    <2>2. Called' /\ at' \in Nat
        BY <2>1 DEF IInv, Called, Kinds, diskVars
    <2> QED
        BY <2>1, <2>2, IInvQuiet
<1> QED
    BY <1>1, <1>2, <1>3, <1>4, IInvBackoff, IInvCrash DEF Next

\* A transaction id stands for one content and an event for one id, over failed
\* writes, lost answers, items queued during a call and restarts
\* (drain_one_appservice, send_ephemeral_only, complete_appservice_delivery).
THEOREM FixesTransactions == Spec => []TransactionsAreFixed
<1>1. IInv => TransactionsAreFixed
    BY DEF IInv, Service, Fixed, TransactionsAreFixed
<1> QED
    BY <1>1, IInvInit, IInvNext, PTL DEF Spec
=============================================================================
