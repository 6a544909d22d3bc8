--------------------------- MODULE IpcChannelProofs ---------------------------
(***************************************************************************)
(* IpcChannel implements WorkerCalls for any number of callers, origins,    *)
(* EDUs and requests, and strands no caller.  The invariant ties the three  *)
(* records of a request together: its entry in pending_, the caller that    *)
(* waits for it, and the account of its EDUs.                               *)
(***************************************************************************)
EXTENDS IpcChannel, SequenceTheorems, TLAPS

Types ==
    /\ next_id \in Nat \ {0}
    /\ DOMAIN pending \subseteq Ids
    /\ \A i \in DOMAIN pending : pending[i] \in Entry
    /\ call \in [Callers -> Nat]
    /\ outcome \in [Ids -> {"unused", "answered", "failed"}]
    /\ carried \in [Ids -> [Digests -> Nat]]
    /\ applied \in [Ids -> [Digests -> Nat]]
    /\ asked \subseteq Ids /\ replied \subseteq Ids
    /\ wire \in Seq(Frames) /\ queue \in Seq(Relays) /\ tasks \subseteq Relays

\* An id is used once: what is at or past next_id is untouched, and a request
\* the worker was sent is pending or has ended.
Numbered ==
    /\ \A i \in DOMAIN pending : i < next_id
    /\ \A i \in Ids : i >= next_id => outcome[i] = "unused" /\ i \notin asked
    /\ \A i \in asked : i \in DOMAIN pending \/ outcome[i] # "unused"

\* A waiting caller has an entry that is no other caller's.
Owned ==
    /\ \A c \in Callers : call[c] # 0 => call[c] \in DOMAIN pending
    /\ \A c \in Callers, e \in Callers : call[c] # 0 /\ call[c] = call[e] => c = e

\* The EDUs of an open request are unused or applied; a request that is not
\* open has no account.
Accounts ==
    \A i \in Ids :
        /\ i \in DOMAIN pending =>
               \A d \in Digests : pending[i].edus[d] + applied[i][d] = carried[i][d]
        /\ i \notin DOMAIN pending => applied[i] = None /\ carried[i] = None

\* An answer, in an entry or on the wire, is one the worker gave.
Truthful ==
    /\ \A i \in DOMAIN pending : pending[i].response => i \in replied
    /\ \A k \in 1..Len(wire) : wire[k].kind = "reply" => wire[k].to \in replied

IInv == Types /\ Numbered /\ Owned /\ Accounts /\ Truthful

\* Where the channel is over, it is marked so.
Marked ==
    /\ reader # "reading" => ~healthy \/ ~running
    /\ dispatcher = "threw" => ~healthy
    /\ stopper # "no" => ~running
    /\ NoStrandedCaller

-----------------------------------------------------------------------------
(* Facts about entries and frames.                                          *)

LEMMA EntryFacts ==
    ASSUME NEW e \in Entry
    PROVE  e.ready \in BOOLEAN /\ e.response \in BOOLEAN /\ e.edus \in [Digests -> Copies]
BY DEF Entry

LEMMA ReadiedEntry ==
    ASSUME NEW e \in Entry, NEW f, f = [e EXCEPT !.ready = TRUE]
    PROVE  f \in Entry /\ f.ready = TRUE /\ f.response = e.response /\ f.edus = e.edus
BY Zenon DEF Entry

LEMMA AnsweredEntry ==
    ASSUME NEW e \in Entry, NEW r \in BOOLEAN, NEW f,
           f = [e EXCEPT !.ready = TRUE, !.response = @ \/ r]
    PROVE  /\ f \in Entry /\ f.ready = TRUE /\ f.edus = e.edus
           /\ f.response = (e.response \/ r)
BY Zenon DEF Entry

LEMMA ExpiredEntry ==
    ASSUME NEW e \in Entry, NEW f, f = [e EXCEPT !.expired = TRUE]
    PROVE  f \in Entry /\ f.ready = e.ready /\ f.response = e.response /\ f.edus = e.edus
BY Zenon DEF Entry

LEMMA NewEntry ==
    ASSUME NEW origin \in Origins \cup {NoOrigin}, NEW edus \in [Digests -> Copies],
           NEW e, e = [origin |-> origin, edus |-> edus, expired |-> FALSE, ready |-> FALSE,
                       response |-> FALSE]
    PROVE  e \in Entry /\ e.ready = FALSE /\ e.response = FALSE /\ e.edus = edus
BY DEF Entry

LEMMA IdsAreNaturals == \A i \in Ids : i \in Nat
BY IpcAssumption DEF Ids

LEMMA FrameFacts ==
    ASSUME NEW f \in Frames
    PROVE  /\ f.kind = "relay" => f \in Relays
           /\ f.kind = "reply" => f.to \in Ids /\ f.answer \in BOOLEAN
BY DEF Frames, Relays

LEMMA WireShrinks ==
    ASSUME wire \in Seq(Frames),
           \A k \in 1..Len(wire) : wire[k].kind = "reply" => wire[k].to \in replied,
           \/ wire' = wire
           \/ wire' = <<>>
           \/ wire # <<>> /\ wire' = Tail(wire)
    PROVE  /\ wire' \in Seq(Frames)
           /\ \A k \in 1..Len(wire') : wire'[k].kind = "reply" => wire'[k].to \in replied
<1>1. CASE wire' = wire
    BY <1>1
<1>2. CASE wire' = <<>>
    BY <1>2
<1>3. CASE wire # <<>> /\ wire' = Tail(wire)
    <2>1. /\ wire' \in Seq(Frames) /\ Len(wire') = Len(wire) - 1
          /\ \A k \in 1..Len(wire') : wire'[k] = wire[k + 1]
        BY <1>3, HeadTailProperties
    <2>2. \A k \in 1..Len(wire') : k + 1 \in 1..Len(wire)
        BY <2>1
    <2> QED
        BY <2>1, <2>2
<1> QED
    BY <1>1, <1>2, <1>3

-----------------------------------------------------------------------------
(* Steps that change only flags of the entries: what is pending stays so.   *)

Core == <<next_id, call, outcome, carried, applied, asked, replied>>

FlagsOnly ==
    /\ UNCHANGED Core
    /\ DOMAIN pending' = DOMAIN pending
    /\ \A i \in DOMAIN pending :
           /\ pending'[i] \in Entry
           /\ pending'[i].edus = pending[i].edus
           /\ pending'[i].response => pending[i].response \/ i \in replied

FramesKept ==
    /\ wire' \in Seq(Frames) /\ queue' \in Seq(Relays) /\ tasks' \subseteq Relays
    /\ \A k \in 1..Len(wire') : wire'[k].kind = "reply" => wire'[k].to \in replied'

LEMMA FlagsKeep ==
    ASSUME IInv, FlagsOnly, FramesKept
    PROVE  IInv'
<1>1. Types'
    BY DEF IInv, Types, FlagsOnly, FramesKept, Core
<1>2. Numbered'
    BY DEF IInv, Numbered, FlagsOnly, Core
<1>3. Owned'
    BY DEF IInv, Owned, FlagsOnly, Core
<1>4. Accounts'
    BY DEF IInv, Accounts, FlagsOnly, Core
<1>5. Truthful'
    BY DEF IInv, Truthful, FlagsOnly, FramesKept, Core
<1> QED
    BY <1>1, <1>2, <1>3, <1>4, <1>5 DEF IInv

LEMMA FlagsSettle ==
    ASSUME IInv, FlagsOnly, NEW S \in SUBSET Ids,
           \A i \in DOMAIN pending : pending'[i].ready = (pending[i].ready \/ i \in S)
    PROVE  Calls!Settle(S)
<1>1. /\ DOMAIN pending' = DOMAIN pending /\ outcome' = outcome
      /\ UNCHANGED <<carried, applied, replied>>
    BY DEF FlagsOnly, Core
<1>2. \A i \in DOMAIN pending : pending[i].ready \in BOOLEAN /\ pending'[i].ready \in BOOLEAN
    BY EntryFacts DEF IInv, Types, FlagsOnly
<1>3. outcome \in [Ids -> {"unused", "answered", "failed"}]
    BY DEF IInv, Types
<1>4. Status' = [i \in Ids |-> IF i \in S /\ Status[i] = "open" THEN "settled" ELSE Status[i]]
    <2>1. SUFFICES ASSUME NEW i \in Ids
                   PROVE  Status'[i] = IF i \in S /\ Status[i] = "open" THEN "settled" ELSE Status[i]
        BY <1>1 DEF Status
    <2>2. CASE i \in DOMAIN pending
        BY <1>1, <1>2, <2>2 DEF Status
    <2>3. CASE i \notin DOMAIN pending
        BY <1>1, <1>3, <2>3 DEF Status
    <2> QED
        BY <2>2, <2>3
<1> QED
    BY <1>1, <1>4 DEF Calls!Settle

LEMMA FlagsStutter ==
    ASSUME IInv, FlagsOnly, \A i \in DOMAIN pending : pending'[i].ready = pending[i].ready
    PROVE  UNCHANGED Calls!vars
<1>1. /\ DOMAIN pending' = DOMAIN pending /\ outcome' = outcome
      /\ UNCHANGED <<carried, applied, replied>>
    BY DEF FlagsOnly, Core
<1>2. Status' = Status
    BY <1>1 DEF Status
<1> QED
    BY <1>1, <1>2 DEF Calls!vars

-----------------------------------------------------------------------------
(* Every step keeps IInv, and is a step of WorkerCalls or none.             *)

Implements == IInv' /\ [Calls!Next]_(Calls!vars)

LEMMA SettleImplements ==
    ASSUME IInv, FlagsOnly, FramesKept, NEW S \in SUBSET Ids,
           \A i \in DOMAIN pending : pending'[i].ready = (pending[i].ready \/ i \in S)
    PROVE  Implements
BY FlagsKeep, FlagsSettle DEF Implements, Calls!Next

LEMMA StutterImplements ==
    ASSUME IInv, FlagsOnly, FramesKept,
           \A i \in DOMAIN pending : pending'[i].ready = pending[i].ready
    PROVE  Implements
BY FlagsKeep, FlagsStutter DEF Implements

LEMMA QuietImplements ==
    ASSUME IInv, UNCHANGED <<next_id, call, outcome, carried, applied, asked, replied, pending>>,
           FramesKept
    PROVE  Implements
<1>1. FlagsOnly
    BY DEF FlagsOnly, Core, IInv, Types
<1> QED
    BY <1>1, StutterImplements

LEMMA AllReadyImplements ==
    ASSUME IInv, UNCHANGED Core, pending' = AllReady, FramesKept
    PROVE  Implements
<1>1. /\ DOMAIN pending' = DOMAIN pending
      /\ \A i \in DOMAIN pending : pending'[i] = [pending[i] EXCEPT !.ready = TRUE]
    BY DEF AllReady
<1>2. DOMAIN pending \subseteq Ids /\ \A i \in DOMAIN pending : pending[i] \in Entry
    BY DEF IInv, Types
<1>3. \A i \in DOMAIN pending :
          /\ pending'[i] \in Entry /\ pending'[i].edus = pending[i].edus
          /\ pending'[i].response = pending[i].response
          /\ pending'[i].ready = TRUE /\ pending[i].ready \in BOOLEAN
    <2> SUFFICES ASSUME NEW i \in DOMAIN pending
                 PROVE  /\ pending'[i] \in Entry /\ pending'[i].edus = pending[i].edus
                        /\ pending'[i].response = pending[i].response
                        /\ pending'[i].ready = TRUE /\ pending[i].ready \in BOOLEAN
        BY Zenon
    <2>1. pending[i] \in Entry /\ pending'[i] = [pending[i] EXCEPT !.ready = TRUE]
        BY <1>1, <1>2
    <2> QED
        BY <2>1, ReadiedEntry, EntryFacts, Zenon
<1>4. FlagsOnly
    BY <1>1, <1>3 DEF FlagsOnly
<1>5. \A i \in DOMAIN pending : pending'[i].ready = (pending[i].ready \/ i \in Ids)
    BY <1>2, <1>3, Zenon
<1> QED
    BY <1>4, <1>5, SettleImplements

LEMMA ExpireImplements ==
    ASSUME IInv, NEW j \in Ids, Expire(j)
    PROVE  Implements
<1>1. /\ UNCHANGED Core /\ UNCHANGED <<wire, queue, tasks>>
      /\ j \in DOMAIN pending /\ pending' = [pending EXCEPT ![j].expired = TRUE]
    BY DEF Expire, callVars, peerVars, handleVars, Core
<1>2. /\ DOMAIN pending' = DOMAIN pending
      /\ \A i \in DOMAIN pending :
            pending'[i] = IF i = j THEN [pending[i] EXCEPT !.expired = TRUE] ELSE pending[i]
    BY <1>1, Zenon
<1>3. \A i \in DOMAIN pending : pending[i] \in Entry
    BY DEF IInv, Types
<1>4. \A i \in DOMAIN pending :
          /\ pending'[i] \in Entry /\ pending'[i].edus = pending[i].edus
          /\ pending'[i].response = pending[i].response /\ pending'[i].ready = pending[i].ready
    <2>1. pending[j] \in Entry /\ pending'[j] = [pending[j] EXCEPT !.expired = TRUE]
        BY <1>1, <1>2, <1>3
    <2> QED
        BY <2>1, <1>2, <1>3, ExpiredEntry
<1>5. FlagsOnly /\ FramesKept
    BY <1>1, <1>2, <1>4 DEF FlagsOnly, FramesKept, Core, IInv, Types, Truthful
<1> QED
    BY <1>4, <1>5, StutterImplements

LEMMA ReplyReadImplements ==
    ASSUME IInv, ReadReply
    PROVE  Implements
<1> DEFINE f == Head(wire)
<1>1. /\ UNCHANGED Core /\ UNCHANGED <<queue, tasks>>
      /\ wire # <<>> /\ f.kind = "reply"
      /\ wire' = Tail(wire) \/ wire' = <<>>
    BY Zenon DEF ReadReply, Onward, callVars, peerVars, handleVars, Core
<1>2. /\ DOMAIN pending' = DOMAIN pending
      /\ \A i \in DOMAIN pending :
            pending'[i] = IF i = f.to THEN [pending[i] EXCEPT !.ready = TRUE, !.response = @ \/ f.answer]
                                      ELSE pending[i]
    BY Zenon DEF ReadReply
<1>3. \A i \in DOMAIN pending : pending[i] \in Entry
    BY DEF IInv, Types
<1>4. wire \in Seq(Frames) /\ \A k \in 1..Len(wire) : wire[k].kind = "reply" => wire[k].to \in replied
    BY DEF IInv, Types, Truthful
<1>5. f \in Frames /\ f.to \in Ids /\ f.answer \in BOOLEAN /\ f.to \in replied
    <2>1. f \in Frames /\ 1 \in 1..Len(wire) /\ f = wire[1]
        BY <1>1, <1>4
    <2> QED
        BY <2>1, <1>1, <1>4, FrameFacts
<1>6. \A i \in DOMAIN pending :
          /\ pending'[i] \in Entry /\ pending'[i].edus = pending[i].edus
          /\ pending'[i].response => pending[i].response \/ i \in replied
          /\ pending'[i].ready = (pending[i].ready \/ i \in {f.to})
    <2>1. SUFFICES ASSUME NEW i \in DOMAIN pending
                   PROVE  /\ pending'[i] \in Entry /\ pending'[i].edus = pending[i].edus
                          /\ pending'[i].response => pending[i].response \/ i \in replied
                          /\ pending'[i].ready = (pending[i].ready \/ i \in {f.to})
        OBVIOUS
    <2>2. pending[i] \in Entry /\ pending[i].ready \in BOOLEAN /\ pending[i].response \in BOOLEAN
        BY <1>3, EntryFacts
    <2>3. CASE i = f.to
        <3>1. pending'[i] = [pending[i] EXCEPT !.ready = TRUE, !.response = @ \/ f.answer]
            BY <1>2, <2>3, Zenon
        <3>2. /\ pending'[i] \in Entry /\ pending'[i].ready = TRUE
              /\ pending'[i].edus = pending[i].edus
            BY <3>1, <2>2, <1>5, AnsweredEntry, Zenon
        <3> QED
            BY <3>2, <2>2, <2>3, <1>5, Zenon
    <2>4. CASE i # f.to
        BY <2>2, <2>4, <1>2, Zenon
    <2> QED
        BY <2>3, <2>4
<1>7. FlagsOnly
    BY <1>1, <1>2, <1>6, Zenon DEF FlagsOnly
<1>8. FramesKept
    <2>1. wire' \in Seq(Frames) /\ \A k \in 1..Len(wire') : wire'[k].kind = "reply" => wire'[k].to \in replied
        BY <1>1, <1>4, WireShrinks
    <2> QED
        BY <2>1, <1>1 DEF FramesKept, Core, IInv, Types
<1>9. {f.to} \in SUBSET Ids
    BY <1>5
<1> QED
    BY <1>6, <1>7, <1>8, <1>9, SettleImplements, Zenon

LEMMA ReaderImplements ==
    ASSUME IInv, Reader
    PROVE  Implements
<1>1. wire \in Seq(Frames) /\ \A k \in 1..Len(wire) : wire[k].kind = "reply" => wire[k].to \in replied
    BY DEF IInv, Types, Truthful
<1>2. queue \in Seq(Relays) /\ tasks \subseteq Relays
    BY DEF IInv, Types
<1>3. ASSUME ReadRelay PROVE Implements
    <2>1. /\ UNCHANGED <<next_id, call, outcome, carried, applied, asked, replied, pending>>
          /\ wire # <<>> /\ Head(wire).kind = "relay"
          /\ wire' = Tail(wire) \/ wire' = <<>>
          /\ queue' = Append(queue, Head(wire)) /\ tasks' = tasks
        BY <1>3 DEF ReadRelay, Onward, callVars, peerVars
    <2>2. Head(wire) \in Relays
        BY <2>1, <1>1, HeadTailProperties, FrameFacts
    <2>3. queue' \in Seq(Relays)
        BY <2>1, <2>2, <1>2
    <2>4. wire' \in Seq(Frames) /\ \A k \in 1..Len(wire') : wire'[k].kind = "reply" => wire'[k].to \in replied
        BY <2>1, <1>1, WireShrinks
    <2>5. FramesKept
        BY <2>1, <2>3, <2>4, <1>2 DEF FramesKept
    <2> QED
        BY <2>1, <2>5, QuietImplements
<1>4. ASSUME ReadFlood \/ ReadFails PROVE Implements
    <2>1. /\ UNCHANGED <<next_id, call, outcome, carried, applied, asked, replied, pending, queue, tasks>>
          /\ wire' = <<>>
        BY <1>4 DEF ReadFlood, ReadFails, callVars, peerVars, handleVars
    <2>2. FramesKept
        BY <2>1, <1>1, <1>2, WireShrinks DEF FramesKept
    <2> QED
        BY <2>1, <2>2, QuietImplements
<1>5. ASSUME ReaderEnds PROVE Implements
    <2>1. UNCHANGED Core /\ UNCHANGED <<wire, queue, tasks>> /\ pending' = AllReady
        BY <1>5 DEF ReaderEnds, callVars, peerVars, handleVars, Core
    <2>2. FramesKept
        BY <2>1, <1>1, <1>2 DEF FramesKept, Core
    <2> QED
        BY <2>1, <2>2, AllReadyImplements
<1> QED
    BY <1>3, <1>4, <1>5, ReplyReadImplements DEF Reader

LEMMA DispatcherImplements ==
    ASSUME IInv, Dispatcher
    PROVE  Implements
<1>1. /\ wire \in Seq(Frames) /\ \A k \in 1..Len(wire) : wire[k].kind = "reply" => wire[k].to \in replied
      /\ queue \in Seq(Relays) /\ tasks \subseteq Relays
    BY DEF IInv, Types, Truthful
<1>2. ASSUME Test \/ Wait PROVE Implements
    <2>1. UNCHANGED <<next_id, call, outcome, carried, applied, asked, replied, pending, wire, queue, tasks>>
        BY <1>2 DEF Test, Wait, callVars, peerVars
    <2>2. FramesKept
        BY <2>1, <1>1 DEF FramesKept
    <2> QED
        BY <2>1, <2>2, QuietImplements
<1>3. ASSUME queue # <<>> PROVE Head(queue) \in Relays /\ Tail(queue) \in Seq(Relays)
    BY <1>1, <1>3, HeadTailProperties
<1>4. ASSUME Dispatch PROVE Implements
    <2>1. /\ UNCHANGED <<next_id, call, outcome, carried, applied, asked, replied, pending, wire>>
          /\ queue # <<>> /\ queue' = Tail(queue)
          /\ tasks' \subseteq tasks \cup {Head(queue)}
        BY <1>4 DEF Dispatch, callVars, peerVars
    <2>2. FramesKept
        BY <2>1, <1>1, <1>3 DEF FramesKept
    <2> QED
        BY <2>1, <2>2, QuietImplements
<1>5. ASSUME HandlerThrows PROVE Implements
    <2>1. /\ UNCHANGED Core /\ UNCHANGED <<wire, tasks>> /\ pending' = AllReady
          /\ queue # <<>> /\ queue' = Tail(queue)
        BY <1>5 DEF HandlerThrows, callVars, peerVars, Core
    <2>2. FramesKept
        BY <2>1, <1>1, <1>3 DEF FramesKept, Core
    <2> QED
        BY <2>1, <2>2, AllReadyImplements
<1> QED
    BY <1>2, <1>4, <1>5 DEF Dispatcher

LEMMA StopperImplements ==
    ASSUME IInv, Stopper
    PROVE  Implements
<1>1. /\ wire \in Seq(Frames) /\ \A k \in 1..Len(wire) : wire[k].kind = "reply" => wire[k].to \in replied
      /\ queue \in Seq(Relays) /\ tasks \subseteq Relays
    BY DEF IInv, Types, Truthful
<1>2. ASSUME StopFlags \/ StopNotifies \/ StopCloses PROVE Implements
    <2>1. UNCHANGED <<next_id, call, outcome, carried, applied, asked, replied, pending, wire, queue, tasks>>
        BY <1>2, Zenon DEF StopFlags, StopNotifies, StopCloses, callVars, peerVars, handleVars
    <2>2. FramesKept
        BY <2>1, <1>1 DEF FramesKept
    <2> QED
        BY <2>1, <2>2, QuietImplements
<1>3. ASSUME StopWakes PROVE Implements
    <2>1. UNCHANGED Core /\ UNCHANGED <<wire, queue, tasks>> /\ pending' = AllReady
        BY <1>3, Zenon DEF StopWakes, callVars, peerVars, handleVars, Core
    <2>2. FramesKept
        BY <2>1, <1>1 DEF FramesKept, Core
    <2> QED
        BY <2>1, <2>2, AllReadyImplements
<1> QED
    BY <1>2, <1>3 DEF Stopper

-----------------------------------------------------------------------------
(* The worker's frames, and the life of a request.                          *)

LEMMA WorkerImplements ==
    ASSUME IInv, Worker
    PROVE  Implements
<1>1. /\ wire \in Seq(Frames) /\ \A k \in 1..Len(wire) : wire[k].kind = "reply" => wire[k].to \in replied
      /\ queue \in Seq(Relays) /\ tasks \subseteq Relays /\ asked \subseteq Ids
    BY DEF IInv, Types, Truthful
<1>2. ASSUME NEW frame \in Relays, WorkerRelays(frame) PROVE Implements
    <2>1. /\ UNCHANGED <<next_id, call, outcome, carried, applied, asked, replied, pending, queue, tasks>>
          /\ wire' = Append(wire, frame)
        BY <1>2 DEF WorkerRelays, callVars, handleVars
    <2>2. frame \in Frames /\ frame.kind # "reply"
        BY DEF Frames, Relays
    <2>3. wire' \in Seq(Frames) /\ \A k \in 1..Len(wire') : wire'[k].kind = "reply" => wire'[k].to \in replied
        BY <2>1, <2>2, <1>1
    <2>4. FramesKept
        BY <2>1, <2>3, <1>1 DEF FramesKept
    <2> QED
        BY <2>1, <2>4, QuietImplements
<1>3. ASSUME NEW i \in Ids, NEW answer \in BOOLEAN, WorkerReplies(i, answer) PROVE Implements
    <2> DEFINE f == [kind |-> "reply", to |-> i, answer |-> answer]
    <2>1. /\ UNCHANGED <<next_id, call, outcome, carried, applied, asked, pending, queue, tasks>>
          /\ i \in asked \ replied /\ replied' = replied \cup {i}
          /\ wire' = Append(wire, f)
        BY <1>3 DEF WorkerReplies, callVars, handleVars
    <2>2. f \in Frames /\ f.to = i
        BY DEF Frames
    <2>3. wire' \in Seq(Frames) /\ \A k \in 1..Len(wire') : wire'[k].kind = "reply" => wire'[k].to \in replied'
        <3>1. wire' \in Seq(Frames) /\ Len(wire') = Len(wire) + 1 /\ wire'[Len(wire) + 1] = f
            BY <2>1, <2>2, <1>1
        <3>2. \A k \in 1..Len(wire) : wire'[k] = wire[k]
            BY <2>1, <1>1
        <3> HIDE DEF f
        <3> QED
            BY <3>1, <3>2, <2>1, <2>2, <1>1
    <2>4. IInv'
        <3>1. Types'
            BY <2>1, <2>3 DEF IInv, Types
        <3>2. Numbered' /\ Owned' /\ Accounts'
            BY <2>1 DEF IInv, Numbered, Owned, Accounts
        <3>3. Truthful'
            BY <2>1, <2>3 DEF IInv, Truthful
        <3> QED
            BY <3>1, <3>2, <3>3 DEF IInv
    <2>5. Status[i] # "unused"
        <3>1. i \in DOMAIN pending \/ outcome[i] # "unused"
            BY <2>1 DEF IInv, Numbered
        <3> QED
            BY <3>1 DEF Status
    <2>6. Calls!Reply(i)
        BY <2>1, <2>5 DEF Calls!Reply, Status
    <2> QED
        BY <2>4, <2>6 DEF Implements, Calls!Next
<1> QED
    BY <1>2, <1>3 DEF Worker

LEMMA SendImplements ==
    ASSUME IInv, NEW c \in Callers, NEW origin \in Origins \cup {NoOrigin},
           NEW edus \in [Digests -> Copies], Send(c, origin, edus)
    PROVE  Implements
<1> DEFINE n == next_id
           e == [origin |-> origin, edus |-> edus, expired |-> FALSE, ready |-> FALSE, response |-> FALSE]
<1>1. /\ n \in Ids /\ call[c] = 0
      /\ next_id' = n + 1
      /\ call' = [call EXCEPT ![c] = n]
      /\ carried' = [carried EXCEPT ![n] = edus]
      /\ asked' = asked \cup {n}
      /\ UNCHANGED <<outcome, applied, replied, wire, queue, tasks>>
    BY Zenon DEF Send, handleVars
<1>2. /\ DOMAIN pending' = DOMAIN pending \cup {n}
      /\ pending'[n] = e
      /\ \A i \in DOMAIN pending \ {n} : pending'[i] = pending[i]
    BY DEF Send, Entered
<1>3. e \in Entry /\ e.ready = FALSE /\ e.response = FALSE /\ e.edus = edus
    BY NewEntry, Zenon
<1>4. /\ n \notin DOMAIN pending /\ outcome[n] = "unused" /\ n \notin asked
      /\ applied[n] = None /\ carried[n] = None
    BY <1>1 DEF IInv, Types, Numbered, Accounts
<1>5. edus \in [Digests -> Nat]
    BY IpcAssumption DEF Copies
<1> HIDE DEF e
<1>6. Types'
    <2>1. next_id' \in Nat \ {0} /\ n \in Nat
        BY <1>1, IdsAreNaturals, SMTT(20) DEF IInv, Types
    <2>2. DOMAIN pending' \subseteq Ids /\ \A i \in DOMAIN pending' : pending'[i] \in Entry
        BY <1>1, <1>2, <1>3 DEF IInv, Types
    <2>3. call' \in [Callers -> Nat]
        BY <1>1, <2>1 DEF IInv, Types
    <2>4. carried' \in [Ids -> [Digests -> Nat]]
        BY <1>1, <1>5 DEF IInv, Types
    <2>5. asked' \subseteq Ids
        BY <1>1 DEF IInv, Types
    <2> QED
        BY <1>1, <2>1, <2>2, <2>3, <2>4, <2>5 DEF IInv, Types
<1>7. Numbered'
    <2>1. next_id \in Nat /\ n = next_id /\ next_id' = n + 1
        BY <1>1, IdsAreNaturals
    <2>2. \A i \in DOMAIN pending' : i < next_id'
        BY <1>2, <2>1, IdsAreNaturals DEF IInv, Types, Numbered
    <2>3. \A i \in Ids : i >= next_id' => i >= next_id /\ i # n
        BY <2>1, IdsAreNaturals
    <2>4. \A i \in Ids : i >= next_id' => outcome'[i] = "unused" /\ i \notin asked'
        BY <1>1, <2>3, Zenon DEF IInv, Numbered
    <2>5. \A i \in asked' : i \in DOMAIN pending' \/ outcome'[i] # "unused"
        BY <1>1, <1>2 DEF IInv, Numbered
    <2> QED
        BY <2>2, <2>4, <2>5 DEF Numbered
<1>8. Owned'
    BY <1>1, <1>2, <1>4, Zenon DEF IInv, Types, Owned
<1>9. Accounts'
    <2>1. SUFFICES ASSUME NEW i \in Ids
                   PROVE  /\ i \in DOMAIN pending' =>
                                \A d \in Digests : pending'[i].edus[d] + applied'[i][d] = carried'[i][d]
                          /\ i \notin DOMAIN pending' => applied'[i] = None /\ carried'[i] = None
        BY DEF Accounts
    <2>2. CASE i = n
        <3>1. pending'[i].edus = edus /\ carried'[i] = edus /\ applied'[i] = None
            BY <2>2, <1>1, <1>2, <1>3, <1>4 DEF IInv, Types
        <3>2. \A d \in Digests : edus[d] + 0 = edus[d] /\ None[d] = 0
            BY <1>5, SMTT(20) DEF None
        <3> QED
            BY <3>1, <3>2, <2>2, <1>2, Zenon
    <2>3. CASE i # n
        BY <2>3, <1>1, <1>2, Zenon DEF IInv, Types, Accounts
    <2> QED
        BY <2>2, <2>3
<1>10. Truthful'
    BY <1>1, <1>2, <1>3 DEF IInv, Truthful
<1>11. Calls!Open(n, edus)
    <2>1. Status[n] = "unused"
        BY <1>1, <1>4 DEF Status
    <2>2. Status' = [Status EXCEPT ![n] = "open"]
        BY <1>1, <1>2, <1>3, <1>4, Zenon DEF Status
    <2> QED
        BY <2>1, <2>2, <1>1 DEF Calls!Open
<1> QED
    BY <1>1, <1>6, <1>7, <1>8, <1>9, <1>10, <1>11 DEF Implements, IInv, Calls!Next

LEMMA RefuseImplements ==
    ASSUME IInv, NEW c \in Callers, Refuse(c)
    PROVE  Implements
<1> DEFINE n == next_id
<1>1. /\ n \in Ids /\ next_id' = n + 1
      /\ outcome' = [outcome EXCEPT ![n] = "failed"]
      /\ UNCHANGED <<pending, call, carried, applied, asked, replied, wire, queue, tasks>>
    BY DEF Refuse, peerVars, handleVars
<1>2. /\ n \notin DOMAIN pending /\ outcome[n] = "unused"
      /\ applied[n] = None /\ carried[n] = None
    BY <1>1 DEF IInv, Types, Numbered, Accounts
<1>3. Types' /\ Numbered'
    <2>1. next_id \in Nat /\ next_id' = n + 1 /\ next_id' \in Nat \ {0}
        BY <1>1, IdsAreNaturals
    <2>2. outcome' \in [Ids -> {"unused", "answered", "failed"}]
        BY <1>1 DEF IInv, Types
    <2>3. Types'
        BY <1>1, <2>1, <2>2 DEF IInv, Types
    <2>4. \A i \in DOMAIN pending : i < next_id'
        BY <2>1, IdsAreNaturals DEF IInv, Types, Numbered
    <2>5. \A i \in Ids : i >= next_id' => i >= next_id /\ i # n
        BY <2>1, IdsAreNaturals
    <2>6. \A i \in Ids : i # n => outcome'[i] = outcome[i]
        BY <1>1 DEF IInv, Types
    <2>7. n \notin asked
        BY <1>1 DEF IInv, Types, Numbered
    <2>8. \A i \in asked : i \in Ids /\ i # n
        BY <2>7, Zenon DEF IInv, Types
    <2> QED
        BY <1>1, <2>3, <2>4, <2>5, <2>6, <2>8 DEF IInv, Numbered
<1>4. Owned' /\ Accounts' /\ Truthful'
    BY <1>1 DEF IInv, Owned, Accounts, Truthful
<1>5. Calls!Fail(n)
    <2>1. Status[n] = "unused"
        BY <1>1, <1>2 DEF Status
    <2>2. Status' = [Status EXCEPT ![n] = "failed"]
        BY <1>1, <1>2, Zenon DEF Status, IInv, Types
    <2>3. /\ carried' = [carried EXCEPT ![n] = Calls!None]
          /\ applied' = [applied EXCEPT ![n] = Calls!None]
        BY <1>1, <1>2 DEF IInv, Types, None, Calls!None
    <2> QED
        BY <2>1, <2>2, <2>3, <1>1 DEF Calls!Fail, Calls!Close
<1> QED
    BY <1>1, <1>3, <1>4, <1>5 DEF Implements, IInv, Calls!Next

LEMMA ResumeImplements ==
    ASSUME IInv, NEW c \in Callers, Resume(c)
    PROVE  Implements
<1> DEFINE n == call[c]
           result == IF pending[n].ready /\ pending[n].response THEN "answered" ELSE "failed"
<1>1. /\ n # 0
      /\ pending[n].ready \/ pending[n].expired
      /\ call' = [call EXCEPT ![c] = 0]
      /\ outcome' = [outcome EXCEPT ![n] = result]
      /\ carried' = [carried EXCEPT ![n] = None]
      /\ applied' = [applied EXCEPT ![n] = None]
      /\ UNCHANGED <<next_id, asked, replied, wire, queue, tasks>>
    BY DEF Resume, Return, peerVars, handleVars
<1>2. /\ DOMAIN pending' = DOMAIN pending \ {n}
      /\ \A i \in DOMAIN pending \ {n} : pending'[i] = pending[i]
    BY DEF Resume, Erased
<1>3. n \in DOMAIN pending /\ n \in Ids /\ n < next_id /\ pending[n] \in Entry
    BY <1>1 DEF IInv, Types, Numbered, Owned
<1>4. pending[n].ready \in BOOLEAN /\ pending[n].response \in BOOLEAN
    BY <1>3, EntryFacts
<1>5. result \in {"answered", "failed"}
    OBVIOUS
<1>6. None \in [Digests -> Nat]
    BY DEF None
<1> HIDE DEF result
<1>7. Types'
    <2>1. DOMAIN pending' \subseteq Ids /\ \A i \in DOMAIN pending' : pending'[i] \in Entry
        BY <1>2 DEF IInv, Types
    <2>2. call' \in [Callers -> Nat]
        BY <1>1 DEF IInv, Types
    <2>3. outcome' \in [Ids -> {"unused", "answered", "failed"}]
        BY <1>1, <1>5, Zenon DEF IInv, Types
    <2>4. carried' \in [Ids -> [Digests -> Nat]] /\ applied' \in [Ids -> [Digests -> Nat]]
        BY <1>1, <1>6, Zenon DEF IInv, Types
    <2> QED
        BY <1>1, <2>1, <2>2, <2>3, <2>4, Zenon DEF IInv, Types
<1>8. Numbered'
    <2>1. \A i \in Ids : outcome'[i] = IF i = n THEN result ELSE outcome[i]
        BY <1>1 DEF IInv, Types
    <2>2. \A i \in Ids : i >= next_id => i # n
        BY <1>3, IdsAreNaturals DEF IInv, Types
    <2>3. asked \subseteq Ids
        BY Zenon DEF IInv, Types
    <2> QED
        BY <1>1, <1>2, <1>5, <2>1, <2>2, <2>3 DEF IInv, Numbered
<1>9. Owned'
    BY <1>1, <1>2 DEF IInv, Types, Owned
<1>10. Accounts'
    BY <1>1, <1>2, SMTT(20) DEF IInv, Types, Accounts
<1>11. Truthful'
    BY <1>1, <1>2, Zenon DEF IInv, Truthful
<1>12. IInv'
    BY <1>7, <1>8, <1>9, <1>10, <1>11, Zenon DEF IInv
<1>13. /\ Status' = [Status EXCEPT ![n] = result]
       /\ carried' = [carried EXCEPT ![n] = Calls!None]
       /\ applied' = [applied EXCEPT ![n] = Calls!None]
    BY <1>1, <1>2, <1>3, Zenon DEF Status, None, Calls!None, IInv, Types
<1>14. Status[n] = IF pending[n].ready THEN "settled" ELSE "open"
    BY <1>3 DEF Status
<1>15. CASE pending[n].ready /\ pending[n].response
    <2>1. result = "answered" /\ Status[n] = "settled" /\ n \in replied
        BY <1>3, <1>14, <1>15 DEF result, IInv, Truthful
    <2>2. Calls!Answer(n)
        BY <2>1, <1>1, <1>13, Zenon DEF Calls!Answer, Calls!Close
    <2> QED
        BY <2>2, <1>3, <1>12 DEF Implements, Calls!Next
<1>16. CASE ~(pending[n].ready /\ pending[n].response)
    <2>1. result = "failed" /\ Status[n] \in {"open", "settled"}
        BY <1>4, <1>14, <1>16 DEF result
    <2>2. Calls!Fail(n)
        BY <2>1, <1>1, <1>13, Zenon DEF Calls!Fail, Calls!Close
    <2> QED
        BY <2>2, <1>3, <1>12 DEF Implements, Calls!Next
<1> QED
    BY <1>15, <1>16

LEMMA ConsumeImplements ==
    ASSUME IInv, NEW t \in tasks, Consume(t)
    PROVE  Implements
<1> DEFINE n == t.parent
           d == t.digest
<1>1. /\ UNCHANGED <<next_id, call, outcome, carried, asked, replied, wire, queue>>
      /\ tasks' = tasks \ {t}
      /\ pending' = [pending EXCEPT ![n].edus[d] = @ - 1]
      /\ applied' = [applied EXCEPT ![n][d] = @ + 1]
    BY DEF Consume, callVars, peerVars
<1>2. n \in DOMAIN pending /\ ~pending[n].ready /\ pending[n].edus[d] > 0
    BY DEF Consume, Unused, Admits
<1>3. t \in Relays /\ d \in Digests
    BY DEF IInv, Types, Relays
<1>4. n \in Ids /\ pending[n] \in Entry
    BY <1>2 DEF IInv, Types
<1>5. /\ DOMAIN pending' = DOMAIN pending
      /\ pending'[n] = [pending[n] EXCEPT !.edus[d] = @ - 1]
      /\ \A i \in DOMAIN pending \ {n} : pending'[i] = pending[i]
    BY <1>1, <1>2
<1> HIDE DEF n, d
<1>6. /\ pending'[n] \in Entry
      /\ pending'[n].edus = [pending[n].edus EXCEPT ![d] = @ - 1]
      /\ pending'[n].ready = pending[n].ready /\ pending'[n].response = pending[n].response
    <2> DEFINE e == pending[n]
               f == pending'[n]
    <2>1. /\ e \in Entry /\ d \in Digests /\ e.edus[d] > 0
          /\ f = [e EXCEPT !.edus = [e.edus EXCEPT ![d] = e.edus[d] - 1]]
        BY <1>2, <1>3, <1>4, <1>5
    <2> HIDE DEF e, f
    <2>2. /\ f \in Entry
          /\ f.edus = [e.edus EXCEPT ![d] = e.edus[d] - 1]
          /\ f.ready = e.ready /\ f.response = e.response
        <3>1. e.edus[d] \in Copies /\ e.edus[d] - 1 \in Copies
            BY <2>1, IpcAssumption DEF Entry, Copies
        <3>2. [e.edus EXCEPT ![d] = e.edus[d] - 1] \in [Digests -> Copies]
            BY <2>1, <3>1 DEF Entry
        <3> QED
            BY <2>1, <3>2 DEF Entry
    <2> QED
        BY <2>2 DEF e, f
<1>7. applied[n] \in [Digests -> Nat] /\ carried[n] \in [Digests -> Nat] /\ pending[n].edus \in [Digests -> Nat]
    <2>1. applied[n] \in [Digests -> Nat] /\ carried[n] \in [Digests -> Nat]
        BY <1>4 DEF IInv, Types
    <2>2. pending[n].edus \in [Digests -> Copies]
        BY <1>4, EntryFacts
    <2>3. \A k \in Copies : k \in Nat
        BY IpcAssumption DEF Copies
    <2> QED
        BY <2>1, <2>2, <2>3
<1>8. /\ applied'[n] = [applied[n] EXCEPT ![d] = @ + 1]
      /\ \A i \in Ids \ {n} : applied'[i] = applied[i]
    BY <1>1, <1>4 DEF IInv, Types
<1>9. Types'
    <2>1. DOMAIN pending' \subseteq Ids /\ \A i \in DOMAIN pending' : pending'[i] \in Entry
        BY <1>5, <1>6, Zenon DEF IInv, Types
    <2>2. applied'[n] \in [Digests -> Nat]
        BY <1>3, <1>7, <1>8
    <2>3. applied' \in [Ids -> [Digests -> Nat]]
        BY <1>1, <1>4, <2>2, <1>8 DEF IInv, Types
    <2>4. tasks' \subseteq Relays
        BY <1>1 DEF IInv, Types
    <2> QED
        BY <1>1, <2>1, <2>3, <2>4, Zenon DEF IInv, Types
<1>10. Numbered' /\ Owned'
    BY <1>1, <1>5 DEF IInv, Numbered, Owned
<1>11. Accounts'
    <2>1. \A x \in Digests : pending[n].edus[x] + applied[n][x] = carried[n][x]
        BY <1>2, <1>4 DEF IInv, Accounts
    <2>2. \A x \in Digests : pending'[n].edus[x] + applied'[n][x] = carried[n][x]
        BY <2>1, <1>3, <1>6, <1>7, <1>8
    <2>3. \A i \in Ids \ {n} :
              /\ i \in DOMAIN pending' =>
                     \A x \in Digests : pending'[i].edus[x] + applied'[i][x] = carried'[i][x]
              /\ i \notin DOMAIN pending' => applied'[i] = None /\ carried'[i] = None
        BY <1>1, <1>5, <1>8 DEF IInv, Accounts
    <2> QED
        BY <1>1, <1>2, <1>5, <2>2, <2>3, Zenon DEF Accounts
<1>12. Truthful'
    BY <1>1, <1>5, <1>6 DEF IInv, Truthful
<1>13. Calls!Apply(n, d)
    <2>1. Status[n] = "open"
        BY <1>2, <1>4, Zenon DEF Status
    <2>2. applied[n][d] < carried[n][d]
        BY <1>2, <1>3, <1>4, <1>7 DEF IInv, Accounts
    <2>3. Status' = Status
        BY <1>1, <1>5, <1>6 DEF Status
    <2> QED
        BY <2>1, <2>2, <2>3, <1>1 DEF Calls!Apply
<1> QED
    BY <1>3, <1>4, <1>9, <1>10, <1>11, <1>12, <1>13 DEF Implements, IInv, Calls!Next

LEMMA HandlerImplements ==
    ASSUME IInv, Handler
    PROVE  Implements
<1>1. ASSUME NEW t \in tasks, RefuseRelay(t) PROVE Implements
    <2>1. /\ UNCHANGED <<next_id, call, outcome, carried, applied, asked, replied, pending, wire, queue>>
          /\ tasks' = tasks \ {t}
        BY <1>1 DEF RefuseRelay, callVars, peerVars
    <2>2. FramesKept
        BY <2>1 DEF FramesKept, IInv, Types, Truthful
    <2> QED
        BY <2>1, <2>2, QuietImplements
<1> QED
    BY <1>1, ConsumeImplements DEF Handler

LEMMA CallerImplements ==
    ASSUME IInv, NEW c \in Callers, Caller(c)
    PROVE  Implements
<1>1. None \in [Digests -> Copies]
    BY IpcAssumption DEF None, Copies
<1>2. ASSUME NEW origin \in Origins, NEW edus \in [Digests -> Copies], Send(c, origin, edus)
      PROVE  Implements
    BY <1>2, SendImplements
<1>3. ASSUME Send(c, NoOrigin, None) PROVE Implements
    BY <1>1, <1>3, SendImplements
<1> QED
    BY <1>2, <1>3, RefuseImplements, ResumeImplements DEF Caller

LEMMA InitImplements ==
    ASSUME Init
    PROVE  IInv /\ Calls!Init
<1>1. DOMAIN pending = {}
    BY DEF Init
<1>2. None \in [Digests -> Nat]
    BY DEF None
<1>3. Types
    BY <1>1, <1>2 DEF Init, Types
<1>4. Numbered /\ Owned /\ Truthful
    BY <1>1 DEF Init, Numbered, Owned, Truthful
<1>5. Accounts
    BY <1>1 DEF Init, Accounts
<1>6. Calls!Init
    BY <1>1 DEF Init, Calls!Init, Calls!None, None, Status
<1> QED
    BY <1>3, <1>4, <1>5, <1>6 DEF IInv

LEMMA NextImplements ==
    ASSUME IInv, [Next]_vars
    PROVE  Implements
<1>1. ASSUME Next PROVE Implements
    BY <1>1, CallerImplements, ExpireImplements, WorkerImplements, ReaderImplements,
       DispatcherImplements, HandlerImplements, StopperImplements DEF Next
<1>2. ASSUME UNCHANGED vars PROVE Implements
    <2>1. UNCHANGED <<next_id, call, outcome, carried, applied, asked, replied, pending, wire, queue, tasks>>
        BY <1>2 DEF vars
    <2>2. FramesKept
        BY <2>1 DEF FramesKept, IInv, Types, Truthful
    <2> QED
        BY <2>1, <2>2, QuietImplements
<1> QED
    BY <1>1, <1>2

\* The channel keeps its promise to the callers, for any number of them, of
\* origins, EDUs, requests and relays, whatever the queue and in-flight limits:
\* a request is answered only by the worker's reply to it, and an EDU relay is
\* applied only while its request is open and no more often than the verified
\* body carried it (send_request, reader_loop, consume_pending_edu).
THEOREM KeepsCalls == Spec => CallsAreKept
<1>1. Init => IInv /\ Calls!Init
    BY InitImplements
<1>2. IInv /\ [Next]_vars => IInv' /\ [Calls!Next]_(Calls!vars)
    BY NextImplements DEF Implements
<1> QED
    BY <1>1, <1>2, PTL DEF Spec, CallsAreKept, Calls!Spec

-----------------------------------------------------------------------------
(* No caller is stranded.                                                   *)

LEMMA SendMarked ==
    ASSUME Marked, NEW c \in Callers, NEW origin, NEW edus, Send(c, origin, edus)
    PROVE  Marked'
<1>1. /\ running /\ healthy
      /\ UNCHANGED <<running, healthy, reader, dispatcher, stopper>>
    BY DEF Send, handleVars
<1>2. reader = "reading" /\ dispatcher # "threw" /\ stopper = "no"
    BY <1>1 DEF Marked
<1> QED
    BY <1>1, <1>2 DEF Marked, NoStrandedCaller

LEMMA SmallerMarked ==
    ASSUME Marked,
           UNCHANGED <<running, healthy, reader, dispatcher, stopper>>,
           DOMAIN pending' \subseteq DOMAIN pending,
           \A i \in DOMAIN pending' : pending[i].ready => pending'[i].ready
    PROVE  Marked'
BY DEF Marked, NoStrandedCaller

LEMMA CallerMarked ==
    ASSUME Marked, NEW c \in Callers, Caller(c)
    PROVE  Marked'
<1>1. ASSUME Refuse(c) PROVE Marked'
    BY <1>1, SmallerMarked DEF Refuse, handleVars
<1>2. ASSUME Resume(c) PROVE Marked'
    BY <1>2, SmallerMarked DEF Resume, Erased, handleVars
<1> QED
    BY <1>1, <1>2, SendMarked DEF Caller

LEMMA OtherMarked ==
    ASSUME Marked, \/ \E i \in Ids : Expire(i)
                   \/ Worker \/ Handler
    PROVE  Marked'
<1>1. ASSUME NEW i \in Ids, Expire(i) PROVE Marked'
    BY <1>1, SmallerMarked, Zenon DEF Expire, handleVars
<1>2. ASSUME Worker PROVE Marked'
    BY <1>2, SmallerMarked, Zenon DEF Worker, WorkerReplies, WorkerRelays, handleVars
<1>3. ASSUME NEW t \in tasks, Consume(t) PROVE Marked'
    BY <1>3, SmallerMarked DEF Consume
<1>4. ASSUME NEW t \in tasks, RefuseRelay(t) PROVE Marked'
    BY <1>4, SmallerMarked DEF RefuseRelay
<1> QED
    BY <1>1, <1>2, <1>3, <1>4 DEF Handler

LEMMA ThreadsMarked ==
    ASSUME IInv, Marked, Reader \/ Dispatcher \/ Stopper
    PROVE  Marked'
<1>1. ASSUME ReadReply PROVE Marked'
    <2>1. /\ UNCHANGED <<running, healthy, dispatcher, stopper>>
          /\ reader = "reading" /\ reader' = IF running THEN "reading" ELSE "leaving"
        BY <1>1, Zenon DEF ReadReply, Onward, handleVars
    <2>2. DOMAIN pending' = DOMAIN pending /\ \A i \in DOMAIN pending : pending[i].ready => pending'[i].ready
        <3>1. \A i \in DOMAIN pending :
                  pending[i] \in Entry /\ (pending'[i] = pending[i] \/ pending'[i].ready)
            BY <1>1, Zenon DEF ReadReply, IInv, Types, Entry
        <3> QED
            BY <1>1, <3>1, Zenon DEF ReadReply
    <2> QED
        BY <2>1, <2>2 DEF Marked, NoStrandedCaller
<1>2. ASSUME ReadRelay PROVE Marked'
    BY <1>2 DEF ReadRelay, Onward, Marked, NoStrandedCaller
<1>3. ASSUME ReadFlood PROVE Marked'
    BY <1>3 DEF ReadFlood, Marked, NoStrandedCaller, handleVars
<1>4. ASSUME ReadFails PROVE Marked'
    BY <1>4 DEF ReadFails, Marked, NoStrandedCaller, handleVars
<1>5. ASSUME pending' = AllReady PROVE \A i \in DOMAIN pending' : pending'[i].ready
    BY <1>5, ReadiedEntry, Zenon DEF AllReady, IInv, Types
<1>6. ASSUME ReaderEnds PROVE Marked'
    BY <1>5, <1>6 DEF ReaderEnds, Marked, NoStrandedCaller, handleVars
<1>7. ASSUME Dispatcher PROVE Marked'
    BY <1>5, <1>7 DEF Dispatcher, Test, Wait, Dispatch, HandlerThrows, Marked, NoStrandedCaller
<1>8. ASSUME Stopper PROVE Marked'
    <2>1. ASSUME StopFlags PROVE Marked'
        BY <2>1 DEF StopFlags, Marked, NoStrandedCaller, handleVars
    <2>2. ASSUME StopWakes PROVE Marked'
        <3>1. \A i \in DOMAIN pending' : pending'[i].ready
            BY <1>5, <2>2, Zenon DEF StopWakes
        <3> QED
            BY <2>2, <3>1, Zenon DEF StopWakes, Marked, NoStrandedCaller, handleVars
    <2>3. ASSUME StopNotifies PROVE Marked'
        BY <2>3, Zenon DEF StopNotifies, Marked, NoStrandedCaller
    <2>4. ASSUME StopCloses PROVE Marked'
        BY <2>4, Zenon DEF StopCloses, Marked, NoStrandedCaller, handleVars
    <2> QED
        BY <1>8, <2>1, <2>2, <2>3, <2>4 DEF Stopper
<1> QED
    BY <1>1, <1>2, <1>3, <1>4, <1>6, <1>7, <1>8 DEF Reader

\* When the reader has ended, a handler has thrown or stop() has woken the
\* waiters, every pending request is ready: no caller of send_request is left
\* to its deadline, for any number of callers.
THEOREM StrandsNoCaller == Spec => []NoStrandedCaller
<1>1. Init => Marked
    BY DEF Init, Marked, NoStrandedCaller
<1>2. IInv /\ Marked /\ [Next]_vars => IInv' /\ Marked'
    <2>1. ASSUME IInv, Marked, Next PROVE Marked'
        BY <2>1, CallerMarked, OtherMarked, ThreadsMarked DEF Next
    <2>2. ASSUME Marked, UNCHANGED vars PROVE Marked'
        BY <2>2 DEF vars, Marked, NoStrandedCaller
    <2> QED
        BY <2>1, <2>2, NextImplements DEF Implements
<1>3. Marked => NoStrandedCaller
    BY DEF Marked
<1>4. Init => IInv
    BY InitImplements
<1> QED
    BY <1>1, <1>2, <1>3, <1>4, PTL DEF Spec
-----------------------------------------------------------------------------
(* Types.  An entry in pending_ is waited for by a caller, so none is left  *)
(* behind; an EDU is applied no more often than a body may carry it.        *)

Bounds ==
    /\ running \in BOOLEAN /\ healthy \in BOOLEAN /\ fd \in {"open", "shut", "closed"}
    /\ next_id <= MaxId + 1 /\ relays \in 0..MaxRelays
    /\ carried \in [Ids -> [Digests -> Copies]]
    /\ replied \subseteq asked
    /\ reader \in {"reading", "leaving", "ended"}
    /\ dispatcher \in {"awake", "deciding", "asleep", "ended", "threw"}
    /\ stopper \in {"no", "flagged", "joining reader", "joining dispatcher", "stopped"}

Waited == \A i \in DOMAIN pending : \E c \in Callers : call[c] = i

LEMMA NoneIsNone == None \in [Digests -> Copies]
BY IpcAssumption DEF None, Copies

LEMMA BoundsNext ==
    ASSUME IInv, Bounds, [Next]_vars
    PROVE  Bounds'
<1> DEFINE Numbers == <<next_id, relays, carried, asked, replied>>
<1> DEFINE Flags == <<running, healthy, fd, reader, dispatcher, stopper>>
<1>1. ASSUME NEW c \in Callers, NEW origin, NEW edus \in [Digests -> Copies], Send(c, origin, edus)
      PROVE  Bounds'
    <2>1. UNCHANGED <<Flags, relays, replied>> /\ asked \subseteq asked'
        BY <1>1 DEF Send, handleVars
    <2>2. next_id' <= MaxId + 1
        BY <1>1, IpcAssumption DEF Send, Ids, IInv, Types
    <2>3. carried' \in [Ids -> [Digests -> Copies]]
        BY <1>1, Zenon DEF Send, Bounds
    <2> QED
        BY <2>1, <2>2, <2>3, Zenon DEF Bounds
<1>2. ASSUME NEW c \in Callers, Refuse(c) PROVE Bounds'
    <2>1. UNCHANGED <<Flags, relays, replied, asked, carried>>
        BY <1>2 DEF Refuse, handleVars, peerVars
    <2>2. next_id' <= MaxId + 1
        BY <1>2, IpcAssumption DEF Refuse, Ids, IInv, Types
    <2> QED
        BY <2>1, <2>2, Zenon DEF Bounds
<1>3. ASSUME NEW c \in Callers, Resume(c) PROVE Bounds'
    <2>1. UNCHANGED <<Flags, relays, replied, asked, next_id>>
        BY <1>3 DEF Resume, handleVars, peerVars
    <2>2. carried' \in [Ids -> [Digests -> Copies]]
        BY <1>3, NoneIsNone, Zenon DEF Resume, Return, Bounds
    <2> QED
        BY <2>1, <2>2, Zenon DEF Bounds
<1>4. ASSUME NEW i \in Ids, NEW answer, WorkerReplies(i, answer) PROVE Bounds'
    BY <1>4, Zenon DEF WorkerReplies, callVars, handleVars, Bounds
<1>5. ASSUME NEW frame \in Relays, WorkerRelays(frame) PROVE Bounds'
    <2>1. UNCHANGED <<Flags, next_id, replied, asked, carried>>
        BY <1>5 DEF WorkerRelays, handleVars, callVars
    <2>2. frame.id \in 1..MaxRelays
        BY DEF Relays
    <2>3. relays' = frame.id
        BY <1>5 DEF WorkerRelays
    <2>4. relays' \in 0..MaxRelays
        BY <2>2, <2>3, IpcAssumption
    <2> QED
        BY <2>1, <2>4, Zenon DEF Bounds
<1>6. ASSUME Reader PROVE Bounds'
    <2>1. UNCHANGED <<Numbers, running, fd, stopper>>
        BY <1>6, Zenon DEF Reader, ReadReply, ReadRelay, ReadFlood, ReadFails, ReaderEnds, callVars, peerVars
    <2>2. healthy' \in BOOLEAN
        BY <1>6, Zenon DEF Reader, ReadReply, ReadRelay, ReadFlood, ReadFails, ReaderEnds, Bounds
    <2>3. /\ reader' \in {"reading", "leaving", "ended"}
          /\ dispatcher' = dispatcher \/ dispatcher' = "awake"
        BY <1>6, Zenon DEF Reader, ReadReply, ReadRelay, ReadFlood, ReadFails, ReaderEnds, Onward, handleVars
    <2> QED
        BY <2>1, <2>2, <2>3, Zenon DEF Bounds
<1>7. ASSUME Dispatcher PROVE Bounds'
    <2>1. UNCHANGED <<Numbers, running, fd, stopper, reader>>
        BY <1>7, Zenon DEF Dispatcher, Test, Wait, Dispatch, HandlerThrows, callVars, peerVars
    <2>2. healthy' \in BOOLEAN
        BY <1>7, Zenon DEF Dispatcher, Test, Wait, Dispatch, HandlerThrows, Bounds
    <2>3. dispatcher' \in {"awake", "deciding", "asleep", "ended", "threw"}
        BY <1>7 DEF Dispatcher, Test, Wait, Dispatch, HandlerThrows
    <2> QED
        BY <2>1, <2>2, <2>3, Zenon DEF Bounds
<1>8. ASSUME NEW t \in tasks, Consume(t) \/ RefuseRelay(t) PROVE Bounds'
    <2>1. UNCHANGED <<Numbers, Flags>>
        BY <1>8, Zenon DEF Consume, RefuseRelay, callVars, peerVars
    <2> QED
        BY <2>1, Zenon DEF Bounds
<1>9. ASSUME Stopper PROVE Bounds'
    <2>1. UNCHANGED <<Numbers, reader>>
        BY <1>9, Zenon DEF Stopper, StopFlags, StopWakes, StopNotifies, StopCloses, callVars, peerVars
    <2>2. running' \in BOOLEAN /\ healthy' \in BOOLEAN
        BY <1>9, Zenon DEF Stopper, StopFlags, StopWakes, StopNotifies, StopCloses, Bounds
    <2>3. /\ dispatcher' = dispatcher \/ dispatcher' = "awake"
          /\ stopper' \in {"flagged", "joining reader", "joining dispatcher", "stopped"}
          /\ fd' = fd \/ fd' \in {"shut", "closed"}
        BY <1>9, Zenon DEF Stopper, StopFlags, StopWakes, StopNotifies, StopCloses, handleVars
    <2> QED
        BY <2>1, <2>2, <2>3, Zenon DEF Bounds
<1>10. ASSUME \/ UNCHANGED vars
              \/ \E i \in Ids : Expire(i)
       PROVE  Bounds'
    <2>1. UNCHANGED <<Numbers, Flags>>
        BY <1>10, Zenon DEF Expire, vars, callVars, peerVars, handleVars
    <2> QED
        BY <2>1, Zenon DEF Bounds
<1> QED
    BY <1>1, <1>2, <1>3, <1>4, <1>5, <1>6, <1>7, <1>8, <1>9, <1>10, NoneIsNone
       DEF Next, Caller, Worker, Handler

\* Only send_request's own caller adds and erases an entry.
LEMMA WaitedNext ==
    ASSUME IInv, Waited, [Next]_vars
    PROVE  Waited'
<1>1. CASE DOMAIN pending' = DOMAIN pending /\ call' = call
    BY <1>1 DEF Waited
<1>2. ASSUME NEW c \in Callers, NEW origin, NEW edus, Send(c, origin, edus) PROVE Waited'
    <2>1. /\ call[c] = 0 /\ call' = [call EXCEPT ![c] = next_id]
          /\ DOMAIN pending' = DOMAIN pending \cup {next_id}
        BY <1>2 DEF Send, Entered
    <2>2. ASSUME NEW i \in DOMAIN pending PROVE \E e \in Callers : call'[e] = i
        <3>1. PICK e \in Callers : call[e] = i
            BY <2>2 DEF Waited
        <3>2. i # 0
            BY <2>2, IpcAssumption DEF IInv, Types, Ids
        <3> QED
            BY <2>1, <3>1, <3>2 DEF IInv, Types
    <2>3. call'[c] = next_id
        BY <2>1 DEF IInv, Types
    <2> QED
        BY <2>1, <2>2, <2>3, Zenon DEF Waited
<1>3. ASSUME NEW c \in Callers, Resume(c) PROVE Waited'
    <2>1. /\ call' = [call EXCEPT ![c] = 0]
          /\ DOMAIN pending' = DOMAIN pending \ {call[c]}
        BY <1>3 DEF Resume, Return, Erased
    <2> QED
        BY <2>1 DEF Waited, IInv, Types
<1>4. ASSUME \/ \E c \in Callers : Refuse(c)
             \/ \E i \in Ids : Expire(i)
             \/ Worker \/ Reader \/ Dispatcher \/ Handler \/ Stopper
             \/ UNCHANGED vars
      PROVE  DOMAIN pending' = DOMAIN pending /\ call' = call
    <2>1. call' = call
        BY <1>4, Zenon DEF Refuse, Expire, Worker, WorkerReplies, WorkerRelays, Reader, ReadReply, ReadRelay,
           ReadFlood, ReadFails, ReaderEnds, Dispatcher, Test, Wait, Dispatch, HandlerThrows, Handler, Consume,
           RefuseRelay, Stopper, StopFlags, StopWakes, StopNotifies, StopCloses, vars, callVars
    <2>2. \/ pending' = pending
          \/ pending' = AllReady
          \/ ReadReply
          \/ \E i \in Ids : Expire(i)
          \/ \E t \in tasks : Consume(t)
        BY <1>4, Zenon DEF Refuse, Worker, WorkerReplies, WorkerRelays, Reader, ReadRelay,
           ReadFlood, ReadFails, ReaderEnds, Dispatcher, Test, Wait, Dispatch, HandlerThrows, Handler,
           RefuseRelay, Stopper, StopFlags, StopWakes, StopNotifies, StopCloses, vars
    <2>3. DOMAIN pending' = DOMAIN pending
        BY <2>2, Zenon DEF AllReady, ReadReply, Expire, Consume
    <2> QED
        BY <2>1, <2>3
<1> QED
    BY <1>1, <1>2, <1>3, <1>4, Zenon DEF Next, Caller

\* Type correctness for any number of callers, requests and relays; in
\* particular pending_ holds no entry that no thread waits for, and no EDU is
\* applied more often than a body may carry it (send_request,
\* consume_pending_edu).
THEOREM TypeCorrect == Spec => []TypeOK
<1> DEFINE J == IInv /\ Bounds /\ Waited
<1>1. Init => J
    <2>1. Init => Bounds /\ Waited
        BY NoneIsNone, IpcAssumption DEF Init, Bounds, Waited
    <2> QED
        BY <2>1, InitImplements
<1>2. J /\ [Next]_vars => J'
    BY NextImplements, BoundsNext, WaitedNext DEF Implements
<1>3. J => TypeOK
    <2> SUFFICES ASSUME J PROVE TypeOK
        OBVIOUS
    <2>1. call \in [Callers -> 0..MaxId]
        <3>1. ASSUME NEW c \in Callers PROVE call[c] \in 0..MaxId
            BY IpcAssumption DEF IInv, Types, Owned, Ids
        <3> QED
            BY <3>1 DEF IInv, Types
    <2>2. applied \in [Ids -> [Digests -> Copies]]
        <3>1. ASSUME NEW i \in Ids, i \in DOMAIN pending, NEW d \in Digests PROVE applied[i][d] \in Copies
            <4>1. carried[i][d] \in Copies /\ applied[i][d] \in Nat
                BY Zenon DEF IInv, Types, Bounds
            <4>2. pending[i].edus[d] \in Copies
                BY <3>1, EntryFacts DEF IInv, Types
            <4>3. pending[i].edus[d] + applied[i][d] = carried[i][d]
                BY <3>1 DEF IInv, Accounts
            <4> QED
                BY <4>1, <4>2, <4>3, IpcAssumption DEF Copies
        <3>2. ASSUME NEW i \in Ids, i \notin DOMAIN pending PROVE applied[i] \in [Digests -> Copies]
            BY <3>2, NoneIsNone DEF IInv, Accounts
        <3>3. ASSUME NEW i \in Ids, i \in DOMAIN pending PROVE applied[i] \in [Digests -> Copies]
            BY <3>1, <3>3 DEF IInv, Types
        <3> QED
            BY <3>2, <3>3 DEF IInv, Types
    <2>3. next_id \in 1..MaxId + 1
        <3>1. next_id \in Nat \ {0} /\ next_id <= MaxId + 1
            BY Zenon DEF IInv, Types, Bounds
        <3> QED
            BY <3>1, IpcAssumption
    <2> QED
        BY <2>1, <2>2, <2>3, Zenon DEF TypeOK, IInv, Types, Bounds, Waited
<1> QED
    BY <1>1, <1>2, <1>3, PTL DEF Spec
=============================================================================
