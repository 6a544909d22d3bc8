------------------------- MODULE LongPollWakeProofs -------------------------
(***************************************************************************)
(* Proofs about LongPoll, for any number of users, polls, writers, threads  *)
(* and orderings.  Here: no poll sleeps through an event of its user, and   *)
(* every variable keeps its type.                                           *)
(***************************************************************************)
EXTENDS LongPollProofs, FiniteSetTheorems

Reaches == {"idle", "new", "woken", "overdue", "check", "rerun", "park", "parked", "ready", "resume",
            "resumeLate", "held", "heldMoved", "heldRerun", "final"}

Watching(p) == pc[p] \in {"check", "rerun", "park", "held", "heldMoved", "heldRerun"}

\* The cursor of a poll is of the past, and its user has an entry.
CursorOK(p) ==
    Watching(p) =>
        /\ UserOf[p] \in known
        /\ cursor[p].user <= generation[UserOf[p]] /\ cursor[p].all <= broadcasts

\* So is the cursor of a thread in SyncNotifier::park.
ParkerOK(k) ==
    /\ k = [poll |-> k.poll, ticket |-> k.ticket, cursor |-> k.cursor, step |-> k.step]
    /\ k.poll \in Polls /\ k.cursor \in Cursors
    /\ k.cursor.user <= generation[UserOf[k.poll]] /\ k.cursor.all <= broadcasts

Notifying ==
    /\ published \in Int /\ broadcasts \in Nat
    /\ generation \in [Users -> Nat] /\ known \subseteq Users
    /\ pc \in [Polls -> Reaches] /\ cursor \in [Polls -> Cursors]
    /\ ticket = [p \in Polls |-> ticket[p]]
    /\ \A p \in Polls : CursorOK(p)
    /\ \A k \in parkers : ParkerOK(k)

\* Event e is visible to poll p and past its token.
UnseenEvent(p, e) ==
    UserOf[p] \in e.aud /\ e.ord > tok[p] /\ e.ord <= visible_stream_position

\* Writer w has yet to raise the published position to e.
WillPublish(w, e) ==
    /\ pub[w].visible >= e.ord
    /\ \/ wpc[w] = "announce" /\ (pub[w].scope = "everyone" \/ work[w] = e)
       \/ wpc[w] = "notify" /\ pub[w].users = e.aud

\* Writer w has yet to move a generation that user u's polls watch.
WillMove(w, u) ==
    \/ wpc[w] = "announce" /\ pub[w].scope = "everyone"
    \/ wpc[w] \in {"announce", "announced", "accepted"} /\ u \in work[w].aud
    \/ wpc[w] = "notify" /\ u \in pub[w].users

\* Writer w has yet to wake user u's parked polls.
WillWake(w, u) ==
    \/ wpc[w] \in {"announce", "announced"} /\ pub[w].scope = "everyone"
    \/ wpc[w] \in {"announce", "announced", "accepted"} /\ u \in work[w].aud
    \/ wpc[w] \in {"notify", "notified"} /\ u \in pub[w].users

\* Thread k, inside SyncNotifier::park, is going to wake the parked poll p.
WakesParked(k, p) ==
    /\ k.poll = p /\ k.ticket = ticket[p]
    /\ k.step = "wake" \/ (k.step = "compare" /\ Moved(UserOf[p], k.cursor))

\* Before its first look at the published position.
FirstPass(p) ==
    pc[p] \in {"new", "check"} =>
        \A e \in events : UnseenEvent(p, e) =>
            e.ord <= published \/ \E w \in Writers : WillPublish(w, e)

\* After the last look, before or instead of parking.
Settled(p) ==
    pc[p] \in {"park", "held"} =>
        (Unseen(p) => Moved(UserOf[p], cursor[p]) \/ \E w \in Writers : WillMove(w, UserOf[p]))

Sleeping(p) ==
    pc[p] = "parked" =>
        (Unseen(p) => \/ \E k \in parkers : WakesParked(k, p)
                      \/ \E w \in Writers : WillWake(w, UserOf[p]))

Waking == \A p \in Polls : FirstPass(p) /\ Settled(p) /\ Sleeping(p)

IInv == Stream /\ Writing /\ Clients /\ Notifying /\ Waking

-----------------------------------------------------------------------------
(***************************************************************************)
(* Wake-ups: the steps of polls, of the registry and of a stop.             *)
(***************************************************************************)
\* The poll neither looks at the positions nor sleeps.
Away(p) == pc[p] \in {"idle", "woken", "overdue", "ready", "resume", "resumeLate", "final"}

\* A step that leaves poll p alone.
Same(p) ==
    /\ pc'[p] = pc[p] /\ cursor'[p] = cursor[p] /\ tok'[p] = tok[p]
    /\ pc[p] = "parked" => ticket'[p] = ticket[p]

LEMMA MovesBefore ==
    ASSUME NEW w, NEW u, WillMove(w, u)
    PROVE  WillWake(w, u)
BY DEF WillMove, WillWake

\* A step of a poll's side keeps the invariant when each poll is away, left
\* alone or accounted for, and a parked poll keeps the thread that wakes it.
LEMMA PollFrame ==
    ASSUME IInv, UNCHANGED store, UNCHANGED writing, UNCHANGED <<published, broadcasts, generation>>,
           known \subseteq known', known' \subseteq Users,
           pc' \in [Polls -> Reaches], cursor' \in [Polls -> Cursors],
           ticket' = [p \in Polls |-> ticket'[p]],
           \A k \in parkers' : ParkerOK(k)',
           \A k \in parkers, q \in Polls :
               pc'[q] = "parked" /\ Same(q) /\ WakesParked(k, q) => \E j \in parkers' : WakesParked(j, q)',
           \A q \in Polls : \/ Away(q)' \/ Same(q)
                            \/ CursorOK(q)' /\ FirstPass(q)' /\ Settled(q)' /\ Sleeping(q)'
    PROVE  Notifying' /\ Waking'
<1> USE DEF IInv
<1>1. UNCHANGED <<next, pending, events, disk, wpc, work, pub>>
    BY DEF store, writing
<1>2. visible_stream_position' = visible_stream_position
    BY <1>1 DEF visible_stream_position
<1>3. ASSUME NEW q \in Polls, Away(q)'
      PROVE  CursorOK(q)' /\ FirstPass(q)' /\ Settled(q)' /\ Sleeping(q)'
    BY <1>3 DEF Away, CursorOK, Watching, FirstPass, Settled, Sleeping
<1>4. ASSUME NEW q \in Polls, Same(q)
      PROVE  CursorOK(q)' /\ FirstPass(q)' /\ Settled(q)' /\ Sleeping(q)'
    <2>1. CursorOK(q) /\ FirstPass(q) /\ Settled(q) /\ Sleeping(q)
        BY DEF Notifying, Waking
    <2>2. CursorOK(q)'
        BY <1>4, <2>1 DEF CursorOK, Watching, Same
    <2>3. \A e : UnseenEvent(q, e)' <=> UnseenEvent(q, e)
        BY <1>2, <1>4 DEF UnseenEvent, Same
    <2>4. Unseen(q)' <=> Unseen(q)
        BY <1>1, <1>2, <1>4 DEF Unseen, Same
    <2>5. \A w \in Writers : /\ \A e : WillPublish(w, e)' <=> WillPublish(w, e)
                             /\ WillMove(w, UserOf[q])' <=> WillMove(w, UserOf[q])
                             /\ WillWake(w, UserOf[q])' <=> WillWake(w, UserOf[q])
        BY <1>1 DEF WillPublish, WillMove, WillWake
    <2>6. FirstPass(q)'
        BY <1>1, <1>4, <2>1, <2>3, <2>5 DEF FirstPass, Same
    <2>7. Settled(q)'
        BY <1>4, <2>1, <2>4, <2>5 DEF Settled, Same, Moved
    <2>8. Sleeping(q)'
        BY <1>4, <2>1, <2>4, <2>5, Zenon DEF Sleeping, Same
    <2> QED
        BY <2>2, <2>6, <2>7, <2>8
<1>5. \A q \in Polls : CursorOK(q)' /\ FirstPass(q)' /\ Settled(q)' /\ Sleeping(q)'
    BY <1>3, <1>4
<1>6. Notifying'
    BY <1>5 DEF Notifying
<1> QED
    BY <1>5, <1>6 DEF Waking

\* PollFrame for a step of one poll that leaves the parkers alone.
LEMMA OnePollFrame ==
    ASSUME IInv, NEW p \in Polls, UNCHANGED store, UNCHANGED writing, UNCHANGED parkers,
           UNCHANGED <<published, broadcasts, generation, ticket>>,
           known \subseteq known', known' \subseteq Users,
           NEW label \in Reaches, pc' = [pc EXCEPT ![p] = label], pc[p] # "parked",
           cursor' \in [Polls -> Cursors],
           \A q \in Polls : q # p => cursor'[q] = cursor[q] /\ tok'[q] = tok[q],
           Away(p)' \/ (CursorOK(p)' /\ FirstPass(p)' /\ Settled(p)' /\ Sleeping(p)')
    PROVE  Notifying' /\ Waking'
<1> USE DEF IInv
<1>1. /\ pc' \in [Polls -> Reaches] /\ ticket' = [q \in Polls |-> ticket'[q]]
      /\ \A q \in Polls : q # p => Same(q)
    BY DEF Notifying, Same
<1>2. \A k \in parkers' : ParkerOK(k)'
    BY DEF Notifying, ParkerOK
<1>3. ASSUME NEW k \in parkers, NEW q \in Polls, pc'[q] = "parked", Same(q), WakesParked(k, q)
      PROVE  WakesParked(k, q)'
    BY <1>3 DEF WakesParked, Moved, Same
<1>4. \A k \in parkers, q \in Polls :
          pc'[q] = "parked" /\ Same(q) /\ WakesParked(k, q) => \E j \in parkers' : WakesParked(j, q)'
    BY <1>3
<1> QED
    BY <1>1, <1>2, <1>4, PollFrame

\* With no advance over the token there is nothing unseen.
LEMMA NoAdvanceNothingUnseen ==
    ASSUME Stream, Clients, NEW p \in Polls, ~HasTimelineAdvance(p)
    PROVE  ~Unseen(p) /\ \A e \in events : ~UnseenEvent(p, e)
<1>1. visible_stream_position \in Nat /\ tok[p] \in Nat
    BY VisibleKinds DEF Clients
<1>2. \A e \in events : e.ord \in Nat
    BY DEF Stream, Events
<1>3. \A e \in events : ~(e.ord > tok[p] /\ e.ord <= visible_stream_position)
    BY <1>1, <1>2 DEF HasTimelineAdvance, Since
<1> QED
    BY <1>3 DEF Unseen, UnseenEvent

\* An answer is between the server and one client.
LEMMA AnswerLeavesOthers ==
    ASSUME Clients, NEW p \in Polls, Answer(p) \/ UNCHANGED client
    PROVE  \A q \in Polls : q # p => tok'[q] = tok[q]
BY DEF Answer, Clients, client

LEMMA LeaveIsAway ==
    ASSUME Notifying, NEW p \in Polls, Leave(p)
    PROVE  /\ pc' = [pc EXCEPT ![p] = "idle"] /\ Away(p)'
           /\ cursor' \in [Polls -> Cursors] /\ \A q \in Polls : q # p => cursor'[q] = cursor[q]
<1>1. NoCursor \in Cursors
    BY DEF NoCursor, Cursors
<1> QED
    BY <1>1 DEF Leave, Goto, Away, Notifying

LEMMA RequestWakes ==
    ASSUME IInv, NEW p \in Polls, Request(p)
    PROVE  Notifying' /\ Waking'
<1> USE DEF IInv
<1>1. /\ UNCHANGED store /\ UNCHANGED writing /\ UNCHANGED notifier
      /\ UNCHANGED <<cursor, expired, ticket, parkers>> /\ pc[p] = "idle"
      /\ Answer(p) \/ UNCHANGED client
    BY DEF Request
<1>2. /\ UNCHANGED <<published, broadcasts, generation, known>> /\ known' \subseteq Users
      /\ pc \in [Polls -> Reaches] /\ cursor' \in [Polls -> Cursors]
      /\ \A q \in Polls : q # p => cursor'[q] = cursor[q] /\ tok'[q] = tok[q]
    BY <1>1, AnswerLeavesOthers DEF notifier, Notifying
<1>3. CASE UNCHANGED pc
    <2>1. pc' = [pc EXCEPT ![p] = "idle"] /\ Away(p)'
        BY <1>1, <1>2, <1>3 DEF Away
    <2> QED
        BY <1>1, <1>2, <2>1, OnePollFrame, Zenon DEF Reaches
<1>4. CASE ~HasTimelineAdvance(p) /\ Goto(p, "new") /\ UNCHANGED client
    <2>1. pc' = [pc EXCEPT ![p] = "new"] /\ pc'[p] = "new"
        BY <1>2, <1>4 DEF Goto
    <2>2. \A e \in events : ~UnseenEvent(p, e)
        BY <1>4, NoAdvanceNothingUnseen
    <2>3. UNCHANGED <<next, pending, events, tok>>
        BY <1>1, <1>4 DEF store, client
    <2>4. \A e \in events' : ~UnseenEvent(p, e)'
        BY <2>2, <2>3 DEF UnseenEvent, visible_stream_position
    <2>5. CursorOK(p)' /\ FirstPass(p)' /\ Settled(p)' /\ Sleeping(p)'
        BY <2>1, <2>4 DEF CursorOK, Watching, FirstPass, Settled, Sleeping
    <2> QED
        BY <1>1, <1>2, <2>1, <2>5, OnePollFrame, Zenon DEF Reaches
<1> QED
    BY <1>3, <1>4 DEF Request

\* The observed cursor is the present one.
LEMMA ObserveWatches ==
    ASSUME Notifying, NEW p \in Polls, Observe(p), UNCHANGED <<broadcasts, generation>>
    PROVE  /\ known \subseteq known' /\ known' \subseteq Users /\ CursorOK(p)'
           /\ cursor' \in [Polls -> Cursors] /\ \A q \in Polls : q # p => cursor'[q] = cursor[q]
<1>1. UserOf[p] \in Users /\ generation[UserOf[p]] \in Nat /\ broadcasts \in Nat
    BY SyncAssumption DEF Notifying
<1>2. /\ cursor' = [cursor EXCEPT ![p] = [user |-> generation[UserOf[p]], all |-> broadcasts]]
      /\ known' = known \cup {UserOf[p]}
    BY DEF Observe
<1>3. [user |-> generation[UserOf[p]], all |-> broadcasts] \in Cursors
    BY <1>1 DEF Cursors
<1>4. cursor'[p] = [user |-> generation[UserOf[p]], all |-> broadcasts]
    BY <1>2 DEF Notifying
<1>5. CursorOK(p)'
    BY <1>1, <1>2, <1>4 DEF CursorOK
<1> QED
    BY <1>1, <1>2, <1>3, <1>5 DEF Notifying

LEMMA BeginWakes ==
    ASSUME IInv, NEW p \in Polls, Begin(p)
    PROVE  Notifying' /\ Waking'
<1> USE DEF IInv
<1>1. /\ UNCHANGED store /\ UNCHANGED writing /\ UNCHANGED client
      /\ UNCHANGED <<published, broadcasts, generation, ticket, parkers>>
      /\ pc[p] \in {"new", "woken", "overdue"}
    BY DEF Begin, Queued
<1>2. /\ pc \in [Polls -> Reaches] /\ cursor \in [Polls -> Cursors] /\ known \subseteq Users
      /\ \A q \in Polls : tok'[q] = tok[q]
    BY <1>1 DEF Notifying, client
<1>3. CASE Goto(p, "final") /\ UNCHANGED <<known, cursor>>
    <2>1. pc' = [pc EXCEPT ![p] = "final"] /\ Away(p)'
        BY <1>2, <1>3 DEF Goto, Away
    <2> QED
        BY <1>1, <1>2, <1>3, <2>1, OnePollFrame, Zenon DEF Reaches
<1>4. CASE Observe(p) /\ pc[p] = "new" /\ Goto(p, "check")
    <2>1. pc' = [pc EXCEPT ![p] = "check"] /\ pc'[p] = "check"
        BY <1>2, <1>4 DEF Goto
    <2>2. FirstPass(p)
        BY DEF Waking
    <2>3. UNCHANGED <<next, pending, events, tok, wpc, work, pub>>
        BY <1>1, Zenon DEF store, client, writing
    <2>4. FirstPass(p)'
        BY <1>1, <1>4, <2>1, <2>2, <2>3, Zenon DEF FirstPass, UnseenEvent, visible_stream_position, WillPublish
    <2>5. Settled(p)' /\ Sleeping(p)'
        BY <2>1 DEF Settled, Sleeping
    <2> QED
        BY <1>1, <1>2, <1>4, <2>1, <2>4, <2>5, ObserveWatches, OnePollFrame, Zenon DEF Reaches
<1>5. CASE Observe(p) /\ Goto(p, "rerun")
    <2>1. pc' = [pc EXCEPT ![p] = "rerun"] /\ pc'[p] = "rerun"
        BY <1>2, <1>5, Zenon DEF Goto
    <2>2. FirstPass(p)' /\ Settled(p)' /\ Sleeping(p)'
        BY <2>1 DEF FirstPass, Settled, Sleeping
    <2> QED
        BY <1>1, <1>2, <1>5, <2>1, <2>2, ObserveWatches, OnePollFrame, Zenon DEF Reaches
<1> QED
    BY <1>3, <1>4, <1>5 DEF Begin

LEMMA CheckWakes ==
    ASSUME IInv, NEW p \in Polls, Check(p)
    PROVE  Notifying' /\ Waking'
<1> USE DEF IInv
<1>1. /\ UNCHANGED store /\ UNCHANGED writing /\ UNCHANGED client /\ UNCHANGED notifier
      /\ UNCHANGED <<cursor, ticket, parkers>> /\ pc[p] = "check"
    BY DEF Check
<1>2. /\ pc \in [Polls -> Reaches] /\ cursor' \in [Polls -> Cursors]
      /\ UNCHANGED <<published, broadcasts, generation, known>> /\ known' \subseteq Users
      /\ \A q \in Polls : tok'[q] = tok[q]
      /\ UNCHANGED <<next, pending, events, tok, wpc, work, pub>>
    BY <1>1 DEF Notifying, client, notifier, store, writing
<1>3. CursorOK(p) /\ FirstPass(p)
    BY DEF Notifying, Waking
<1>4. CASE Goto(p, "rerun")
    <2>1. pc' = [pc EXCEPT ![p] = "rerun"] /\ pc'[p] = "rerun"
        BY <1>2, <1>4 DEF Goto
    <2>2. CursorOK(p)' /\ FirstPass(p)' /\ Settled(p)' /\ Sleeping(p)'
        BY <1>1, <1>2, <1>3, <2>1, Zenon DEF CursorOK, Watching, FirstPass, Settled, Sleeping
    <2> QED
        BY <1>1, <1>2, <2>1, <2>2, OnePollFrame, Zenon DEF Reaches
<1>5. CASE Goto(p, "park") /\ ~(published > Since(p))
    <2>1. pc' = [pc EXCEPT ![p] = "park"] /\ pc'[p] = "park"
        BY <1>2, <1>5 DEF Goto
    <2>2. CursorOK(p)' /\ FirstPass(p)' /\ Sleeping(p)'
        BY <1>1, <1>2, <1>3, <2>1, Zenon DEF CursorOK, Watching, FirstPass, Sleeping
    <2>3. ASSUME Unseen(p) PROVE \E w \in Writers : WillMove(w, UserOf[p])
        <3>1. PICK e \in events : UnseenEvent(p, e)
            BY <2>3 DEF Unseen, UnseenEvent
        <3>2. e.ord \in Nat /\ tok[p] \in Nat /\ visible_stream_position \in Nat /\ published \in Int
            BY VisibleKinds DEF Stream, Events, Clients, Notifying
        <3>3. ~(e.ord <= published)
            BY <1>5, <3>1, <3>2 DEF UnseenEvent, Since
        <3>4. PICK w \in Writers : WillPublish(w, e)
            BY <1>1, <1>3, <3>1, <3>3 DEF FirstPass
        <3>5. UserOf[p] \in e.aud
            BY <3>1, Zenon DEF UnseenEvent
        <3> QED
            BY <3>4, <3>5, Zenon DEF WillPublish, WillMove
    <2>4. Settled(p)'
        <3>1. Unseen(p)' <=> Unseen(p)
            BY <1>2 DEF Unseen, visible_stream_position
        <3>2. \A w \in Writers : WillMove(w, UserOf[p])' <=> WillMove(w, UserOf[p])
            BY <1>2 DEF WillMove
        <3> QED
            BY <2>3, <3>1, <3>2 DEF Settled
    <2> QED
        BY <1>1, <1>2, <2>1, <2>2, <2>4, OnePollFrame, Zenon DEF Reaches
<1> QED
    BY <1>4, <1>5 DEF Check

LEMMA RerunWakes ==
    ASSUME IInv, NEW p \in Polls, Rerun(p)
    PROVE  Notifying' /\ Waking'
<1> USE DEF IInv
<1>1. /\ UNCHANGED store /\ UNCHANGED writing /\ UNCHANGED notifier
      /\ UNCHANGED <<ticket, parkers>> /\ pc[p] \in {"rerun", "heldRerun"}
    BY DEF Rerun
<1>2. /\ pc \in [Polls -> Reaches] /\ UNCHANGED <<published, broadcasts, generation, known>>
      /\ known' \subseteq Users /\ UNCHANGED <<next, pending, events>>
    BY <1>1, Zenon DEF Notifying, notifier, store
<1>3. CASE Answer(p) /\ Leave(p)
    BY <1>1, <1>2, <1>3, AnswerLeavesOthers, LeaveIsAway, OnePollFrame, Zenon DEF Reaches
<1>4. ASSUME NEW label \in {"park", "held"}, ~HasTimelineAdvance(p), Goto(p, label),
             UNCHANGED client, UNCHANGED cursor
      PROVE  Notifying' /\ Waking'
    <2>1. /\ pc' = [pc EXCEPT ![p] = label] /\ pc'[p] = label /\ label \in Reaches
          /\ UNCHANGED tok /\ cursor' \in [Polls -> Cursors]
        BY <1>2, <1>4, Zenon DEF Goto, Reaches, client, Notifying
    <2>2. ~Unseen(p)'
        BY <1>2, <1>4, <2>1, NoAdvanceNothingUnseen DEF Unseen, visible_stream_position
    <2>3. CursorOK(p)
        BY Zenon DEF Notifying
    <2>4. CursorOK(p)' /\ FirstPass(p)' /\ Settled(p)' /\ Sleeping(p)'
        BY <1>1, <1>2, <1>4, <2>1, <2>2, <2>3, Zenon DEF CursorOK, Watching, FirstPass, Settled, Sleeping
    <2> QED
        BY <1>1, <1>2, <1>4, <2>1, <2>4, OnePollFrame, Zenon
<1> QED
    BY <1>1, <1>3, <1>4 DEF Rerun

LEMMA ParkWakes ==
    ASSUME IInv, NEW p \in Polls, Park(p)
    PROVE  Notifying' /\ Waking'
<1> USE DEF IInv
<1>1. /\ UNCHANGED store /\ UNCHANGED writing /\ UNCHANGED client /\ UNCHANGED notifier
      /\ pc[p] = "park"
    BY DEF Park
<1>2. /\ pc \in [Polls -> Reaches] /\ cursor \in [Polls -> Cursors] /\ UNCHANGED tok
      /\ UNCHANGED <<published, broadcasts, generation, known>> /\ known' \subseteq Users
      /\ UNCHANGED <<next, pending, events, wpc, work, pub>>
    BY <1>1 DEF Notifying, notifier, store, writing, client
<1>3. CursorOK(p) /\ Settled(p)
    BY DEF Notifying, Waking
<1>4. Unseen(p)' <=> Unseen(p)
    BY <1>2, Zenon DEF Unseen, visible_stream_position
<1>5. \A w \in Writers : /\ WillMove(w, UserOf[p])' <=> WillMove(w, UserOf[p])
                         /\ WillWake(w, UserOf[p])' <=> WillWake(w, UserOf[p])
    BY <1>2 DEF WillMove, WillWake
<1>6. CASE Goto(p, "final") /\ UNCHANGED <<cursor, ticket, parkers>>
    <2>1. pc' = [pc EXCEPT ![p] = "final"] /\ Away(p)'
        BY <1>2, <1>6 DEF Goto, Away
    <2> QED
        BY <1>1, <1>2, <1>6, <2>1, OnePollFrame, Zenon DEF Reaches
<1>7. CASE Goto(p, "held") /\ UNCHANGED <<cursor, ticket, parkers>>
    <2>1. pc' = [pc EXCEPT ![p] = "held"] /\ pc'[p] = "held"
        BY <1>2, <1>7 DEF Goto
    <2>2. CursorOK(p)' /\ FirstPass(p)' /\ Settled(p)' /\ Sleeping(p)'
        BY <1>1, <1>2, <1>3, <1>4, <1>5, <1>7, <2>1, Zenon
           DEF CursorOK, Watching, FirstPass, Settled, Sleeping, Moved
    <2> QED
        BY <1>1, <1>2, <1>7, <2>1, <2>2, OnePollFrame, Zenon DEF Reaches
<1>8. CASE /\ Goto(p, "parked")
           /\ ticket' = [ticket EXCEPT ![p] = NewTicket]
           /\ parkers' = parkers \cup {[poll |-> p, ticket |-> NewTicket, cursor |-> cursor[p],
                                        step |-> "compare"]}
           /\ cursor' = [cursor EXCEPT ![p] = NoCursor]
    <2>0. PICK t, k : t = NewTicket /\ k = [poll |-> p, ticket |-> t, cursor |-> cursor[p], step |-> "compare"]
        BY Zenon
    <2>1. /\ ticket' = [ticket EXCEPT ![p] = t] /\ parkers' = parkers \cup {k}
          /\ pc' = [pc EXCEPT ![p] = "parked"] /\ cursor' = [cursor EXCEPT ![p] = NoCursor]
        BY <1>8, <2>0, Zenon DEF Goto
    <2>2. /\ pc' \in [Polls -> Reaches] /\ pc'[p] = "parked"
          /\ cursor' \in [Polls -> Cursors]
          /\ \A q \in Polls : q # p => pc'[q] = pc[q] /\ cursor'[q] = cursor[q]
        BY <1>2, <2>1 DEF Reaches, NoCursor, Cursors
    <2>3. /\ ticket' = [q \in Polls |-> ticket'[q]] /\ ticket'[p] = t
          /\ \A q \in Polls : q # p => ticket'[q] = ticket[q]
        BY <2>1, Zenon DEF Notifying
    <2>4. \A q \in Polls : q # p => Same(q)
        BY <1>2, <2>2, <2>3 DEF Same
    <2>5. ParkerOK(k)'
        BY <1>1, <1>2, <1>3, <2>0, Zenon DEF ParkerOK, CursorOK, Watching
    <2>6. \A j \in parkers' : ParkerOK(j)'
        <3>1. \A j \in parkers : ParkerOK(j)'
            BY <1>2, Zenon DEF Notifying, ParkerOK
        <3> QED
            BY <2>1, <2>5, <3>1, Zenon
    <2>7. \A j \in parkers, q \in Polls :
              pc'[q] = "parked" /\ Same(q) /\ WakesParked(j, q) => \E i \in parkers' : WakesParked(i, q)'
        <3> SUFFICES ASSUME NEW j \in parkers, NEW q \in Polls, pc'[q] = "parked", Same(q), WakesParked(j, q)
                     PROVE  WakesParked(j, q)'
            BY <2>1
        <3> QED
            BY <1>2, Zenon DEF WakesParked, Same, Moved
    <2>8. Sleeping(p)'
        <3> SUFFICES ASSUME Unseen(p)
                     PROVE  \/ \E j \in parkers' : WakesParked(j, p)'
                            \/ \E w \in Writers : WillWake(w, UserOf[p])'
            BY <1>4 DEF Sleeping
        <3>1. CASE Moved(UserOf[p], cursor[p])
            <4>1. WakesParked(k, p)'
                BY <1>2, <2>0, <2>3, <3>1 DEF WakesParked, Moved
            <4> QED
                BY <2>1, <4>1
        <3>2. CASE \E w \in Writers : WillMove(w, UserOf[p])
            BY <1>5, <3>2, MovesBefore
        <3> QED
            BY <1>1, <1>3, <3>1, <3>2, Zenon DEF Settled
    <2>9. CursorOK(p)' /\ FirstPass(p)' /\ Settled(p)'
        BY <2>2, Zenon DEF CursorOK, Watching, FirstPass, Settled
    <2>10. \A q \in Polls : \/ Away(q)' \/ Same(q)
                            \/ CursorOK(q)' /\ FirstPass(q)' /\ Settled(q)' /\ Sleeping(q)'
        BY <2>4, <2>8, <2>9
    <2> QED
        BY <1>1, <1>2, <2>2, <2>3, <2>6, <2>7, <2>10, PollFrame
<1> QED
    BY <1>6, <1>7, <1>8, Zenon DEF Park

\* The thread of a poll that could not park, and the end of a poll.
LEMMA HeldWakes ==
    ASSUME IInv, NEW p \in Polls, HeldWait(p) \/ HeldObserve(p) \/ Final(p) \/ ClientGone(p)
    PROVE  Notifying' /\ Waking'
<1> USE DEF IInv
<1>1. /\ UNCHANGED store /\ UNCHANGED writing /\ UNCHANGED <<ticket, parkers>>
      /\ UNCHANGED <<published, broadcasts, generation>> /\ pc[p] # "parked"
      /\ Answer(p) \/ UNCHANGED client
    BY Zenon DEF HeldWait, HeldObserve, Final, ClientGone, Queued, notifier
<1>2. /\ pc \in [Polls -> Reaches] /\ cursor \in [Polls -> Cursors] /\ known \subseteq Users
      /\ CursorOK(p) /\ \A q \in Polls : q # p => tok'[q] = tok[q]
    BY <1>1, AnswerLeavesOthers DEF Notifying
<1>3. CASE HeldWait(p)
    <2>1. UNCHANGED <<cursor, known>> /\ pc[p] = "held"
        BY <1>3, Zenon DEF HeldWait, notifier
    <2>2. CASE Goto(p, "heldMoved")
        <3>1. pc' = [pc EXCEPT ![p] = "heldMoved"] /\ pc'[p] = "heldMoved"
            BY <1>2, <2>2 DEF Goto
        <3>2. CursorOK(p)' /\ FirstPass(p)' /\ Settled(p)' /\ Sleeping(p)'
            BY <1>1, <1>2, <2>1, <3>1, Zenon DEF CursorOK, Watching, FirstPass, Settled, Sleeping
        <3> QED
            BY <1>1, <1>2, <2>1, <3>1, <3>2, OnePollFrame, Zenon DEF Reaches
    <2>3. CASE Goto(p, "final")
        <3>1. pc' = [pc EXCEPT ![p] = "final"] /\ Away(p)'
            BY <1>2, <2>3 DEF Goto, Away
        <3> QED
            BY <1>1, <1>2, <2>1, <3>1, OnePollFrame, Zenon DEF Reaches
    <2> QED
        BY <1>3, <2>2, <2>3, Zenon DEF HeldWait
<1>4. CASE HeldObserve(p)
    <2>1. Observe(p) /\ Goto(p, "heldRerun")
        BY <1>4 DEF HeldObserve
    <2>2. pc' = [pc EXCEPT ![p] = "heldRerun"] /\ pc'[p] = "heldRerun"
        BY <1>2, <2>1, Zenon DEF Goto
    <2>3. FirstPass(p)' /\ Settled(p)' /\ Sleeping(p)'
        BY <2>2, Zenon DEF FirstPass, Settled, Sleeping
    <2> QED
        BY <1>1, <1>2, <2>1, <2>2, <2>3, ObserveWatches, OnePollFrame, Zenon DEF Reaches
<1>5. CASE Final(p) \/ ClientGone(p)
    <2>1. UNCHANGED known /\ Leave(p)
        BY <1>5 DEF Final, ClientGone, notifier
    <2> QED
        BY <1>1, <1>2, <2>1, LeaveIsAway, OnePollFrame, Zenon DEF Reaches
<1> QED
    BY <1>3, <1>4, <1>5, Zenon

\* PollFrame for a step that sends polls away and leaves the others alone.
LEMMA AwayFrame ==
    ASSUME IInv, UNCHANGED store, UNCHANGED writing, UNCHANGED client, UNCHANGED notifier,
           UNCHANGED parkers, UNCHANGED cursor, pc' \in [Polls -> Reaches],
           ticket' = [p \in Polls |-> ticket'[p]],
           \A q \in Polls : Away(q)' \/ (pc'[q] = pc[q] /\ (pc[q] = "parked" => ticket'[q] = ticket[q]))
    PROVE  Notifying' /\ Waking'
<1> USE DEF IInv
<1>1. /\ UNCHANGED <<published, broadcasts, generation, known, tok>> /\ known' \subseteq Users
      /\ cursor' \in [Polls -> Cursors]
    BY DEF notifier, client, Notifying
<1>2. \A q \in Polls : Away(q)' \/ Same(q)
    BY <1>1, Zenon DEF Same
<1>3. \A k \in parkers' : ParkerOK(k)'
    BY <1>1, Zenon DEF Notifying, ParkerOK
<1>4. ASSUME NEW k \in parkers, NEW q \in Polls, pc'[q] = "parked", Same(q), WakesParked(k, q)
      PROVE  WakesParked(k, q)'
    BY <1>1, <1>4 DEF WakesParked, Moved, Same
<1>5. \A k \in parkers, q \in Polls :
          pc'[q] = "parked" /\ Same(q) /\ WakesParked(k, q) => \E j \in parkers' : WakesParked(j, q)'
    BY <1>4, Zenon
<1> QED
    BY <1>1, <1>2, <1>3, <1>5, PollFrame

LEMMA CompareWakes ==
    ASSUME IInv, NEW k \in parkers, Compare(k)
    PROVE  Notifying' /\ Waking'
<1> USE DEF IInv
<1>1. /\ UNCHANGED store /\ UNCHANGED writing /\ UNCHANGED <<pc, cursor, ticket, tok>>
      /\ UNCHANGED <<published, broadcasts, generation, known>> /\ k.step = "compare"
    BY DEF Compare, polling, notifier, client
<1> DEFINE woken == [k EXCEPT !.step = "wake"]
<1>2. parkers' = (parkers \ {k}) \cup (IF Moved(UserOf[k.poll], k.cursor) THEN {woken} ELSE {})
    BY DEF Compare
<1>3. ParkerOK(k)
    BY DEF Notifying
<1>4. woken = [poll |-> k.poll, ticket |-> k.ticket, cursor |-> k.cursor, step |-> "wake"]
    <2> DEFINE x == [poll |-> k.poll, ticket |-> k.ticket, cursor |-> k.cursor, step |-> k.step]
    <2>1. k = x
        BY <1>3 DEF ParkerOK
    <2>2. [x EXCEPT !.step = "wake"]
              = [poll |-> k.poll, ticket |-> k.ticket, cursor |-> k.cursor, step |-> "wake"]
        BY SMTT(20)
    <2> QED
        BY <2>1, <2>2, Zenon
<1> HIDE DEF woken
<1>5. ParkerOK(woken)
    BY <1>3, <1>4, Zenon DEF ParkerOK
<1>6. \A j \in parkers' : ParkerOK(j)'
    <2>1. \A j \in parkers' : ParkerOK(j)
        BY <1>2, <1>5 DEF Notifying
    <2> QED
        BY <1>1, <2>1 DEF ParkerOK
<1>7. \A j \in parkers, q \in Polls :
          pc'[q] = "parked" /\ Same(q) /\ WakesParked(j, q) => \E i \in parkers' : WakesParked(i, q)'
    <2> SUFFICES ASSUME NEW j \in parkers, NEW q \in Polls, WakesParked(j, q)
                 PROVE  \E i \in parkers' : WakesParked(i, q)'
        OBVIOUS
    <2>1. CASE j # k
        <3>1. j \in parkers' /\ WakesParked(j, q)'
            BY <1>1, <1>2, <2>1, Zenon DEF WakesParked, Moved
        <3> QED
            BY <3>1
    <2>2. CASE j = k
        <3>1. k.poll = q /\ k.ticket = ticket[q] /\ Moved(UserOf[k.poll], k.cursor)
            BY <1>1, <2>2, Zenon DEF WakesParked
        <3>2. woken \in parkers' /\ WakesParked(woken, q)'
            BY <1>1, <1>2, <1>4, <3>1 DEF WakesParked
        <3> QED
            BY <3>2
    <2> QED
        BY <2>1, <2>2
<1>8. \A q \in Polls : Same(q)
    BY <1>1, Zenon DEF Same
<1>9. /\ known' \subseteq Users /\ pc' \in [Polls -> Reaches] /\ cursor' \in [Polls -> Cursors]
      /\ ticket' = [q \in Polls |-> ticket'[q]]
    BY <1>1, Zenon DEF Notifying
<1> QED
    BY <1>1, <1>6, <1>7, <1>8, <1>9, PollFrame

LEMMA WakeTicketWakes ==
    ASSUME IInv, NEW k \in parkers, WakeTicket(k)
    PROVE  Notifying' /\ Waking'
<1> USE DEF IInv
<1>1. /\ UNCHANGED store /\ UNCHANGED writing /\ UNCHANGED <<cursor, tok>>
      /\ UNCHANGED <<published, broadcasts, generation, known>>
      /\ k.step = "wake" /\ parkers' = parkers \ {k}
    BY Zenon DEF WakeTicket, notifier, client
<1> DEFINE P == {p \in Parked : ticket[p] = k.ticket}
<1>2. /\ pc' = [p \in Polls |-> IF p \in P THEN "ready" ELSE pc[p]]
      /\ ticket' = [p \in Polls |-> IF p \in P THEN NoTicket ELSE ticket[p]]
    BY Zenon DEF WakeTicket, Ready
<1>3. /\ pc' \in [Polls -> Reaches] /\ ticket' = [p \in Polls |-> ticket'[p]]
      /\ cursor' \in [Polls -> Cursors] /\ known' \subseteq Users
    BY <1>1, <1>2, Zenon DEF Notifying, Reaches
<1>4. \A q \in Polls : Away(q)' \/ Same(q)
    BY <1>1, <1>2, Zenon DEF Away, Same
<1>5. \A j \in parkers' : ParkerOK(j)'
    BY <1>1 DEF Notifying, ParkerOK
<1>6. \A j \in parkers, q \in Polls :
          pc'[q] = "parked" /\ Same(q) /\ WakesParked(j, q) => \E i \in parkers' : WakesParked(i, q)'
    <2> SUFFICES ASSUME NEW j \in parkers, NEW q \in Polls, pc'[q] = "parked", Same(q), WakesParked(j, q)
                 PROVE  j \in parkers' /\ WakesParked(j, q)'
        BY Zenon
    <2>1. pc[q] = "parked" /\ q \notin P
        BY <1>2
    <2>2. j # k
        BY <2>1 DEF WakesParked, Parked
    <2> QED
        BY <1>1, <2>1, <2>2, Zenon DEF WakesParked, Moved, Same
<1> HIDE DEF P
<1> QED
    BY <1>1, <1>3, <1>4, <1>5, <1>6, PollFrame

\* The registry's thread, a stop and the clock only send polls away.
LEMMA RegistryWakes ==
    ASSUME IInv, Take \/ request_stop \/ PoolStop \/ \E p \in Polls : TimeUp(p)
    PROVE  Notifying' /\ Waking'
<1> USE DEF IInv
<1>1. pc \in [Polls -> Reaches] /\ ticket = [p \in Polls |-> ticket[p]]
    BY Zenon DEF Notifying
<1>2. CASE Take
    <2>1. /\ UNCHANGED store /\ UNCHANGED writing /\ UNCHANGED client /\ UNCHANGED notifier
          /\ UNCHANGED parkers /\ UNCHANGED cursor
          /\ pc' = [p \in Polls |-> IF p \in Due THEN "resumeLate"
                                   ELSE IF pc[p] = "ready" THEN "resume" ELSE pc[p]]
          /\ ticket' = [p \in Polls |-> IF p \in Due THEN NoTicket ELSE ticket[p]]
        BY <1>2 DEF Take
    <2>2. pc' \in [Polls -> Reaches] /\ ticket' = [p \in Polls |-> ticket'[p]]
        BY <1>1, <2>1, Zenon DEF Reaches
    <2>3. \A q \in Polls : Away(q)' \/ (pc'[q] = pc[q] /\ (pc[q] = "parked" => ticket'[q] = ticket[q]))
        BY <2>1, Zenon DEF Away
    <2> QED
        BY <2>1, <2>2, <2>3, AwayFrame, Zenon
<1>3. CASE request_stop
    <2> DEFINE doomed == {p \in Polls : pc[p] \in {"parked", "ready"}}
    <2>1. /\ UNCHANGED store /\ UNCHANGED writing /\ UNCHANGED client /\ UNCHANGED notifier
          /\ UNCHANGED parkers /\ UNCHANGED cursor
          /\ pc' = [p \in Polls |-> IF p \in doomed THEN "idle" ELSE pc[p]]
          /\ ticket' = [p \in Polls |-> NoTicket]
        BY <1>3 DEF request_stop
    <2>2. pc' \in [Polls -> Reaches] /\ ticket' = [p \in Polls |-> ticket'[p]]
        BY <1>1, <2>1, Zenon DEF Reaches
    <2>3. \A q \in Polls : Away(q)' \/ (pc'[q] = pc[q] /\ (pc[q] = "parked" => ticket'[q] = ticket[q]))
        BY <2>1 DEF Away
    <2> QED
        BY <2>1, <2>2, <2>3, AwayFrame, Zenon
<1>4. CASE PoolStop \/ \E p \in Polls : TimeUp(p)
    <2>1. /\ UNCHANGED store /\ UNCHANGED writing /\ UNCHANGED client /\ UNCHANGED notifier
          /\ UNCHANGED parkers /\ UNCHANGED cursor /\ UNCHANGED pc /\ UNCHANGED ticket
        BY <1>4 DEF PoolStop, TimeUp, polling
    <2> QED
        BY <1>1, <2>1, AwayFrame, Zenon
<1> QED
    BY <1>2, <1>3, <1>4

LEMMA ResumeWakes ==
    ASSUME IInv, NEW p \in Polls, Resume(p)
    PROVE  Notifying' /\ Waking'
<1> USE DEF IInv
<1>1. /\ UNCHANGED store /\ UNCHANGED writing /\ UNCHANGED client /\ UNCHANGED notifier
      /\ UNCHANGED <<ticket, parkers>> /\ pc[p] \in {"resume", "resumeLate"}
    BY DEF Resume, Batch
<1>2. /\ UNCHANGED <<published, broadcasts, generation, known, tok>> /\ known' \subseteq Users
      /\ pc \in [Polls -> Reaches] /\ cursor \in [Polls -> Cursors]
    BY <1>1, Zenon DEF notifier, client, Notifying
<1>3. CASE Leave(p)
    BY <1>1, <1>2, <1>3, LeaveIsAway, OnePollFrame DEF Reaches
<1>4. ASSUME NEW label \in {"woken", "overdue"}, Goto(p, label), UNCHANGED cursor
      PROVE  Notifying' /\ Waking'
    <2>1. pc' = [pc EXCEPT ![p] = label] /\ Away(p)' /\ label \in Reaches
        BY <1>2, <1>4 DEF Goto, Away, Reaches
    <2> QED
        BY <1>1, <1>2, <1>4, <2>1, OnePollFrame, Zenon
<1> QED
    BY <1>1, <1>3, <1>4 DEF Resume

-----------------------------------------------------------------------------
(***************************************************************************)
(* Wake-ups: the steps of writers.                                          *)
(***************************************************************************)
\* A step of a writer that publishes nothing keeps the invariant when what
\* becomes visible is still to be announced by a writer.
LEMMA WriteFrame ==
    ASSUME IInv, UNCHANGED <<notifier, polling, parkers, client>>,
           \A p \in Polls, e \in events' :
               UnseenEvent(p, e)' =>
                   \/ e \in events /\ UnseenEvent(p, e)
                   \/ \E w \in Writers : WillPublish(w, e)' /\ WillMove(w, UserOf[p])',
           \A w \in Writers : /\ \A e \in events : WillPublish(w, e) => WillPublish(w, e)'
                              /\ \A u : WillMove(w, u) => WillMove(w, u)'
                              /\ \A u : WillWake(w, u) => WillWake(w, u)'
    PROVE  Notifying' /\ Waking'
<1> USE DEF IInv
<1>1. UNCHANGED <<published, broadcasts, generation, known, pc, cursor, ticket, parkers, tok>>
    BY Zenon DEF notifier, polling, client
<1>2. Notifying'
    BY <1>1, Zenon DEF Notifying, CursorOK, Watching, ParkerOK
<1>3. ASSUME NEW p \in Polls
      PROVE  FirstPass(p)' /\ Settled(p)' /\ Sleeping(p)'
    <2>1. FirstPass(p) /\ Settled(p) /\ Sleeping(p)
        BY DEF Waking
    <2>2. FirstPass(p)'
        BY <1>1, <2>1, Zenon DEF FirstPass
    <2>3. Unseen(p)' => Unseen(p) \/ \E w \in Writers : WillMove(w, UserOf[p])'
        <3> SUFFICES ASSUME Unseen(p)'
                     PROVE  Unseen(p) \/ \E w \in Writers : WillMove(w, UserOf[p])'
            OBVIOUS
        <3>1. PICK e \in events' : UnseenEvent(p, e)'
            BY Zenon DEF Unseen, UnseenEvent
        <3>2. CASE e \in events /\ UnseenEvent(p, e)
            BY <3>2, Zenon DEF Unseen, UnseenEvent
        <3> QED
            BY <3>1, <3>2, Zenon
    <2>4. Settled(p)'
        BY <1>1, <2>1, <2>3, Zenon DEF Settled, Moved
    <2>5. \A w \in Writers : WillMove(w, UserOf[p])' => WillWake(w, UserOf[p])'
        BY Zenon DEF WillMove, WillWake
    <2>6. \A k \in parkers : WakesParked(k, p) => WakesParked(k, p)'
        BY <1>1, Zenon DEF WakesParked, Moved
    <2>7. Sleeping(p)'
        BY <1>1, <2>1, <2>3, <2>5, <2>6, Zenon DEF Sleeping
    <2> QED
        BY <2>2, <2>4, <2>7, Zenon
<1> QED
    BY <1>2, <1>3 DEF Waking

\* What a writer has yet to do does not depend on the others.
LEMMA OtherWriters ==
    ASSUME NEW v \in Writers, wpc'[v] = wpc[v], work'[v] = work[v], pub'[v] = pub[v]
    PROVE  /\ \A e : WillPublish(v, e)' <=> WillPublish(v, e)
           /\ \A u : WillMove(v, u)' <=> WillMove(v, u)
           /\ \A u : WillWake(v, u)' <=> WillWake(v, u)
BY Zenon DEF WillPublish, WillMove, WillWake

\* A writer without an applied event has nothing to do for anybody.
LEMMA NothingToTell ==
    ASSUME NEW w \in Writers, wpc[w] \in {"idle", "commit", "apply"}
    PROVE  \A e, u : ~WillPublish(w, e) /\ ~WillMove(w, u) /\ ~WillWake(w, u)
BY Zenon DEF WillPublish, WillMove, WillWake

LEMMA ReserveWakes ==
    ASSUME IInv, Stream', NEW w \in Writers, Reserve(w)
    PROVE  Notifying' /\ Waking'
<1> USE DEF IInv
<1>1. /\ UNCHANGED <<notifier, polling, parkers, client>> /\ UNCHANGED events /\ UNCHANGED pub
      /\ wpc[w] = "idle" /\ next' = next + 1 /\ pending' = pending \cup {next}
      /\ wpc' = [wpc EXCEPT ![w] = "commit"]
    BY Zenon DEF Reserve, allocate_stream_ordering, At
<1>2. \A v \in Writers : v # w => wpc'[v] = wpc[v] /\ work'[v] = work[v] /\ pub'[v] = pub[v]
    BY <1>1 DEF Reserve, Writing
<1>3. visible_stream_position' <= visible_stream_position
    <2> DEFINE x == visible_stream_position'
    <2>1. x \in Nat /\ x < next' /\ \A o \in pending' : x < o
        BY VisibleKindsNext
    <2> HIDE DEF x
    <2>2. x < next /\ \A o \in pending : x < o
        BY <1>1, <2>1
    <2>3. x <= visible_stream_position
        BY <2>1, <2>2, VisibleKinds, SMTT(20)
    <2> QED
        BY <2>3 DEF x
<1>4. \A p \in Polls, e \in events' : UnseenEvent(p, e)' => e \in events /\ UnseenEvent(p, e)
    <2>1. /\ visible_stream_position \in Nat /\ visible_stream_position' \in Nat
          /\ UNCHANGED tok /\ \A e \in events : e.ord \in Nat
        BY <1>1, VisibleKinds, VisibleKindsNext DEF client, Stream, Events
    <2> QED
        BY <1>1, <1>3, <2>1, SMTT(20) DEF UnseenEvent
<1>5. \A v \in Writers : /\ \A e \in events : WillPublish(v, e) => WillPublish(v, e)'
                         /\ \A u : WillMove(v, u) => WillMove(v, u)'
                         /\ \A u : WillWake(v, u) => WillWake(v, u)'
    BY <1>1, <1>2, OtherWriters, NothingToTell, Zenon
<1> QED
    BY <1>1, <1>4, <1>5, WriteFrame

LEMMA CommitWakes ==
    ASSUME IInv, NEW w \in Writers, Commit(w)
    PROVE  Notifying' /\ Waking'
<1> USE DEF IInv
<1>1. /\ UNCHANGED <<notifier, polling, parkers, client>> /\ UNCHANGED <<next, pending, events, pub>>
      /\ wpc[w] = "commit" /\ wpc' = [wpc EXCEPT ![w] = "apply"]
    BY DEF Commit, At
<1>2. \A v \in Writers : v # w => wpc'[v] = wpc[v] /\ work'[v] = work[v] /\ pub'[v] = pub[v]
    BY <1>1, Zenon DEF Commit, Writing
<1>3. \A p \in Polls, e \in events' : UnseenEvent(p, e)' => e \in events /\ UnseenEvent(p, e)
    BY <1>1 DEF UnseenEvent, visible_stream_position, client
<1>4. \A v \in Writers : /\ \A e \in events : WillPublish(v, e) => WillPublish(v, e)'
                         /\ \A u : WillMove(v, u) => WillMove(v, u)'
                         /\ \A u : WillWake(v, u) => WillWake(v, u)'
    BY <1>1, <1>2, OtherWriters, NothingToTell, Zenon
<1> QED
    BY <1>1, <1>3, <1>4, WriteFrame

\* What becomes visible with an ordering that is no longer pending is the
\* writer's own event, or lies above it and is announced to everyone.
LEMMA ApplyWakes ==
    ASSUME IInv, Stream', Writing', NEW w \in Writers, Apply(w)
    PROVE  Notifying' /\ Waking'
<1> USE DEF IInv
<1> DEFINE V == visible_stream_position'
           o == work[w].ord
<1>1. /\ UNCHANGED <<notifier, polling, parkers, client>> /\ UNCHANGED <<next, work>>
      /\ wpc[w] = "apply" /\ wpc' = [wpc EXCEPT ![w] = "announce"]
      /\ pending' = pending \ {o}
      /\ events' = IF work[w].aud = {} THEN events ELSE events \cup {work[w]}
    BY DEF Apply, At
<1>2. /\ pub' = [pub EXCEPT ![w] = [visible |-> V, users |-> {},
                                   scope |-> IF V > o THEN "everyone" ELSE "users"]]
    BY <1>1, Zenon DEF Apply, EndReservation, visible_stream_position
<1>3. /\ wpc'[w] = "announce" /\ work'[w] = work[w] /\ pub'[w].visible = V
      /\ pub'[w].scope = IF V > o THEN "everyone" ELSE "users"
      /\ \A v \in Writers : v # w => wpc'[v] = wpc[v] /\ work'[v] = work[v] /\ pub'[v] = pub[v]
    <2>1. DOMAIN wpc = Writers /\ DOMAIN pub = Writers
        BY DEF Writing
    <2> QED
        BY ONLY <1>1, <1>2, <2>1, w \in Writers, Zenon
<1>4. \A v \in Writers : /\ \A e \in events : WillPublish(v, e) => WillPublish(v, e)'
                         /\ \A u : WillMove(v, u) => WillMove(v, u)'
                         /\ \A u : WillWake(v, u) => WillWake(v, u)'
    BY <1>1, <1>3, OtherWriters, NothingToTell, Zenon
<1>5. /\ o \in pending /\ o \in Nat /\ V \in Nat /\ V < next
      /\ \A x \in pending : x = o \/ V < x
    BY <1>1, VisibleKindsNext, Zenon DEF Writing, Reserved, Stream
<1>6. ASSUME NEW p \in Polls, NEW e \in events', UnseenEvent(p, e)'
      PROVE  \/ e \in events /\ UnseenEvent(p, e)
             \/ WillPublish(w, e)' /\ WillMove(w, UserOf[p])'
    <2>1. /\ UserOf[p] \in e.aud /\ e.ord > tok[p] /\ e.ord <= V
          /\ e.ord \in Nat
        BY <1>1, <1>6, Zenon DEF UnseenEvent, client, Stream, Events
    <2>2. CASE e = work[w]
        BY <1>3, <2>1, <2>2, Zenon DEF WillPublish, WillMove
    <2>3. CASE e \in events /\ V > o
        BY <1>3, <2>1, <2>3, Zenon DEF WillPublish, WillMove
    <2>4. CASE e \in events /\ ~(V > o)
        <3>1. e.ord # o
            BY <1>5, <2>4, Zenon DEF Stream
        <3> HIDE DEF V, o
        <3>2. e.ord < next /\ \A x \in pending : e.ord < x
            <4>1. next \in Nat
                BY Zenon DEF Stream
            <4>2. e.ord < o /\ e.ord < next
                BY <1>5, <2>1, <2>4, <3>1, <4>1, SMTT(20)
            <4>3. ASSUME NEW x \in pending PROVE e.ord < x
                <5>1. x \in Nat /\ (x = o \/ V < x)
                    BY <1>5, Zenon DEF Stream
                <5> QED
                    BY <1>5, <2>1, <4>2, <5>1, SMTT(20)
            <4> QED
                BY <4>2, <4>3
        <3>3. e.ord <= visible_stream_position
            BY <2>1, <3>2, VisibleKinds, SMTT(20)
        <3> QED
            BY <2>1, <2>4, <3>3, Zenon DEF UnseenEvent
    <2> QED
        BY <1>1, <2>2, <2>3, <2>4, Zenon
<1> HIDE DEF V, o
<1>7. \A p \in Polls, e \in events' :
          UnseenEvent(p, e)' => \/ e \in events /\ UnseenEvent(p, e)
                                \/ \E v \in Writers : WillPublish(v, e)' /\ WillMove(v, UserOf[p])'
    BY <1>6
<1> QED
    BY <1>1, <1>4, <1>7, WriteFrame, Zenon

LEMMA LocalWriteWakes ==
    ASSUME IInv, Stream', NEW w \in Writers, LocalWrite(w)
    PROVE  Notifying' /\ Waking'
<1> USE DEF IInv
<1>1. /\ UNCHANGED <<notifier, polling, parkers, client>> /\ next' = next + 1 /\ UNCHANGED pending
      /\ wpc[w] = "idle"
    BY Zenon DEF LocalWrite, allocate_stream_ordering
\* An event that was hidden stays hidden: only the new ordering can be passed.
<1>2. ASSUME NEW p \in Polls, NEW e \in events, UnseenEvent(p, e)' PROVE UnseenEvent(p, e)
    <2> DEFINE V == visible_stream_position'
    <2>1. /\ UserOf[p] \in e.aud /\ e.ord > tok[p] /\ e.ord <= V
          /\ e.ord \in Nat /\ e.ord < next
        BY <1>1, <1>2, Zenon DEF UnseenEvent, client, Stream, Events
    <2>2. V \in Nat /\ \A x \in pending : V < x
        BY <1>1, VisibleKindsNext, Zenon
    <2> HIDE DEF V
    <2>3. ASSUME NEW x \in pending PROVE e.ord < x
        <3>1. x \in Nat /\ V < x
            BY <2>2, Zenon DEF Stream
        <3> QED
            BY <2>1, <2>2, <3>1
    <2>4. e.ord <= visible_stream_position
        BY <2>1, <2>3, VisibleKinds, SMTT(20)
    <2> QED
        BY <2>1, <2>4 DEF UnseenEvent
<1>3. CASE UNCHANGED <<work, events, disk, pub, mutex, wpc>>
    <2>1. \A p \in Polls, e \in events' : UnseenEvent(p, e)' => e \in events /\ UnseenEvent(p, e)
        BY <1>2, <1>3
    <2>2. \A v \in Writers : /\ \A e \in events : WillPublish(v, e) => WillPublish(v, e)'
                             /\ \A u : WillMove(v, u) => WillMove(v, u)'
                             /\ \A u : WillWake(v, u) => WillWake(v, u)'
        BY <1>3, OtherWriters, Zenon
    <2> QED
        BY <1>1, <2>1, <2>2, WriteFrame
<1>4. ASSUME NEW a \in Audiences, NEW d, d = [ord |-> next, aud |-> a],
             /\ work' = [work EXCEPT ![w] = d]
             /\ events' = events \cup {d}
             /\ pub' = [pub EXCEPT ![w] = [visible |-> VisiblePosition(next + 1, pending),
                                           scope |-> "users", users |-> a]]
             /\ At(w, "notify")
      PROVE  Notifying' /\ Waking'
    <2>1. /\ wpc'[w] = "notify" /\ pub'[w].visible = visible_stream_position' /\ pub'[w].users = d.aud
          /\ \A v \in Writers : v # w => wpc'[v] = wpc[v] /\ work'[v] = work[v] /\ pub'[v] = pub[v]
        BY <1>1, <1>4, Zenon DEF Writing, At, visible_stream_position
    <2>2. \A v \in Writers : /\ \A e \in events : WillPublish(v, e) => WillPublish(v, e)'
                             /\ \A u : WillMove(v, u) => WillMove(v, u)'
                             /\ \A u : WillWake(v, u) => WillWake(v, u)'
        BY <1>1, <2>1, OtherWriters, NothingToTell, Zenon
    <2>3. ASSUME NEW p \in Polls, UnseenEvent(p, d)'
          PROVE  WillPublish(w, d)' /\ WillMove(w, UserOf[p])'
        <3>1. UserOf[p] \in d.aud /\ d.ord <= visible_stream_position' /\ d.ord \in Nat
            BY <1>4, <2>3, Zenon DEF UnseenEvent, Stream
        <3>2. visible_stream_position' \in Nat
            BY VisibleKindsNext, Zenon
        <3> QED
            BY <2>1, <3>1, <3>2, Zenon DEF WillPublish, WillMove
    <2>4. \A p \in Polls, e \in events' :
              UnseenEvent(p, e)' => \/ e \in events /\ UnseenEvent(p, e)
                                    \/ \E v \in Writers : WillPublish(v, e)' /\ WillMove(v, UserOf[p])'
        BY <1>2, <1>4, <2>3, Zenon
    <2> QED
        BY <1>1, <2>2, <2>4, WriteFrame
<1> QED
    BY <1>3, <1>4, Zenon DEF LocalWrite

LEMMA ReadAudienceWakes ==
    ASSUME IInv, NEW w \in Writers, ReadAudience(w)
    PROVE  Notifying' /\ Waking'
<1> USE DEF IInv
<1>1. /\ UNCHANGED <<notifier, polling, parkers, client>> /\ UNCHANGED <<next, pending, events, work>>
      /\ wpc[w] = "accepted" /\ wpc' = [wpc EXCEPT ![w] = "notify"]
    BY Zenon DEF ReadAudience, At, store
<1>2. /\ wpc'[w] = "notify" /\ pub'[w].users = work[w].aud
      /\ \A v \in Writers : v # w => wpc'[v] = wpc[v] /\ work'[v] = work[v] /\ pub'[v] = pub[v]
    BY <1>1 DEF ReadAudience, Writing
<1>3. \A p \in Polls, e \in events' : UnseenEvent(p, e)' => e \in events /\ UnseenEvent(p, e)
    BY <1>1, Zenon DEF UnseenEvent, visible_stream_position, client
<1>4. /\ \A e : ~WillPublish(w, e)
      /\ \A u : WillMove(w, u) => WillMove(w, u)'
      /\ \A u : WillWake(w, u) => WillWake(w, u)'
    BY <1>1, <1>2, Zenon DEF WillPublish, WillMove, WillWake
<1>5. \A v \in Writers : /\ \A e \in events : WillPublish(v, e) => WillPublish(v, e)'
                         /\ \A u : WillMove(v, u) => WillMove(v, u)'
                         /\ \A u : WillWake(v, u) => WillWake(v, u)'
    BY <1>2, <1>4, OtherWriters, Zenon
<1> QED
    BY <1>1, <1>3, <1>5, WriteFrame, Zenon

LEMMA AtMostTransitive ==
    ASSUME NEW a \in Int, NEW b \in Int, NEW c \in Int, a <= b, b <= c
    PROVE  a <= c
    OBVIOUS

\* The position and the generations only rise.
LEMMA MoveRises ==
    ASSUME Writing, Notifying, NEW w \in Writers, Move(w)
    PROVE  /\ published' \in Int /\ published <= published' /\ pub[w].visible <= published'
           /\ broadcasts' \in Nat /\ broadcasts <= broadcasts'
           /\ pub[w].scope = "everyone" => broadcasts < broadcasts'
           /\ generation' \in [Users -> Nat] /\ UNCHANGED known
           /\ \A u \in Users : /\ generation[u] <= generation'[u]
                               /\ u \in pub[w].users /\ u \in known => generation[u] < generation'[u]
<1>1. /\ pub[w].visible \in Int /\ published \in Int /\ broadcasts \in Nat
      /\ generation \in [Users -> Nat]
    BY Zenon DEF Writing, Notifying, Publications
<1>2. /\ published' \in Int /\ published <= published' /\ pub[w].visible <= published'
    BY <1>1, SMTT(20) DEF Move
<1>3. /\ broadcasts' \in Nat /\ broadcasts <= broadcasts'
      /\ pub[w].scope = "everyone" => broadcasts < broadcasts'
    BY <1>1, SMTT(20) DEF Move
<1>4. /\ generation' = [u \in Users |-> IF u \in pub[w].users \cap known
                                        THEN generation[u] + 1 ELSE generation[u]]
      /\ UNCHANGED known
    BY Zenon DEF Move
<1>5. /\ generation' \in [Users -> Nat]
      /\ \A u \in Users : /\ generation[u] <= generation'[u]
                          /\ u \in pub[w].users /\ u \in known => generation[u] < generation'[u]
    BY <1>1, <1>4, SMTT(20)
<1> QED
    BY <1>2, <1>3, <1>4, <1>5, Zenon

\* A cursor of the past stays one, and once passed stays passed.
LEMMA MovedStays ==
    ASSUME NEW u \in Users, NEW c \in Cursors,
           generation[u] \in Nat, generation'[u] \in Nat, broadcasts \in Nat, broadcasts' \in Nat,
           generation[u] <= generation'[u], broadcasts <= broadcasts',
           c.user <= generation[u], c.all <= broadcasts
    PROVE  /\ c.user <= generation'[u] /\ c.all <= broadcasts'
           /\ Moved(u, c) => Moved(u, c)'
           /\ generation[u] < generation'[u] => Moved(u, c)'
           /\ broadcasts < broadcasts' => Moved(u, c)'
<1>1. c.user \in Nat /\ c.all \in Nat
    BY DEF Cursors
<1> QED
    BY <1>1 DEF Moved

\* The first half of a publish: whoever counted on the writer now finds the
\* position past its token or its cursor passed.
LEMMA MoveWakes ==
    ASSUME IInv, NEW w \in Writers, Announce(w) \/ Notify(w)
    PROVE  Notifying' /\ Waking'
<1> USE DEF IInv
<1>1. /\ UNCHANGED store /\ UNCHANGED client /\ UNCHANGED polling /\ UNCHANGED <<work, pub, parkers>>
      /\ Move(w)
    BY DEF Announce, Notify
<1>2. UNCHANGED <<next, pending, events, tok, pc, cursor, ticket>>
    BY <1>1, Zenon DEF store, client, polling
<1>3. /\ \A v \in Writers : v # w => wpc'[v] = wpc[v]
      /\ \/ wpc[w] = "announce" /\ wpc'[w] = "announced"
         \/ wpc[w] = "notify" /\ wpc'[w] = "notified"
    BY DEF Announce, Notify, At, Writing
<1>4. /\ published' \in Int /\ published <= published' /\ pub[w].visible <= published'
      /\ broadcasts' \in Nat /\ broadcasts <= broadcasts'
      /\ pub[w].scope = "everyone" => broadcasts < broadcasts'
      /\ generation' \in [Users -> Nat] /\ UNCHANGED known
      /\ \A u \in Users : /\ generation[u] <= generation'[u]
                          /\ u \in pub[w].users /\ u \in known => generation[u] < generation'[u]
    BY <1>1, MoveRises, Zenon
<1>5. /\ generation \in [Users -> Nat] /\ broadcasts \in Nat /\ published \in Int
      /\ \A p \in Polls : UserOf[p] \in Users /\ cursor[p] \in Cursors
    BY SyncAssumption DEF Notifying
<1>6. ASSUME NEW p \in Polls, Watching(p)
      PROVE  /\ CursorOK(p)'
             /\ Moved(UserOf[p], cursor[p]) => Moved(UserOf[p], cursor[p])'
             /\ pub[w].scope = "everyone" => Moved(UserOf[p], cursor[p])'
             /\ UserOf[p] \in pub[w].users => Moved(UserOf[p], cursor[p])'
    <2>1. /\ UserOf[p] \in known /\ cursor[p].user <= generation[UserOf[p]] /\ cursor[p].all <= broadcasts
        BY <1>6 DEF Notifying, CursorOK
    <2>2. PICK c : c = cursor[p]
        OBVIOUS
    <2>3. /\ c.user <= generation'[UserOf[p]] /\ c.all <= broadcasts'
          /\ Moved(UserOf[p], c) => Moved(UserOf[p], c)'
          /\ generation[UserOf[p]] < generation'[UserOf[p]] => Moved(UserOf[p], c)'
          /\ broadcasts < broadcasts' => Moved(UserOf[p], c)'
        BY <1>4, <1>5, <2>1, <2>2, MovedStays, Zenon
    <2>4. cursor'[p] = c
        BY <1>2, <2>2
    <2>5. CursorOK(p)'
        BY <1>4, <2>1, <2>3, <2>4, Zenon DEF CursorOK
    <2>6. Moved(UserOf[p], c)' <=> Moved(UserOf[p], cursor[p])'
        BY <2>4, Zenon DEF Moved
    <2> QED
        BY <1>4, <1>5, <2>1, <2>2, <2>3, <2>5, <2>6, Zenon
<1>7. ASSUME NEW k \in parkers
      PROVE  ParkerOK(k)' /\ (Moved(UserOf[k.poll], k.cursor) => Moved(UserOf[k.poll], k.cursor)')
    <2>1. ParkerOK(k)
        BY Zenon DEF Notifying
    <2>2. /\ k.cursor.user <= generation'[UserOf[k.poll]] /\ k.cursor.all <= broadcasts'
          /\ Moved(UserOf[k.poll], k.cursor) => Moved(UserOf[k.poll], k.cursor)'
        BY <1>4, <1>5, <2>1, MovedStays, Zenon DEF ParkerOK
    <2> QED
        BY <2>1, <2>2 DEF ParkerOK
<1>8. Notifying'
    <2>1. \A p \in Polls : CursorOK(p)'
        BY <1>2, <1>6, Zenon DEF CursorOK, Watching
    <2> QED
        BY <1>1, <1>2, <1>4, <1>7, <2>1 DEF Notifying
<1>9. ASSUME NEW v \in Writers, v # w
      PROVE  /\ \A e : WillPublish(v, e)' <=> WillPublish(v, e)
             /\ \A u : WillMove(v, u)' <=> WillMove(v, u)
             /\ \A u : WillWake(v, u)' <=> WillWake(v, u)
    BY <1>1, <1>3, <1>9, OtherWriters, Zenon
<1>10. ASSUME NEW p \in Polls PROVE FirstPass(p)' /\ Settled(p)' /\ Sleeping(p)'
    <2>1. FirstPass(p) /\ Settled(p) /\ Sleeping(p)
        BY DEF Waking
    <2>2. \A e : UnseenEvent(p, e)' <=> UnseenEvent(p, e)
        BY <1>2, Zenon DEF UnseenEvent, visible_stream_position
    <2>3. Unseen(p)' <=> Unseen(p)
        BY <1>2, Zenon DEF Unseen, visible_stream_position
    <2>4. FirstPass(p)'
        <3> SUFFICES ASSUME pc[p] \in {"new", "check"}, NEW e \in events, UnseenEvent(p, e)
                     PROVE  e.ord <= published' \/ \E v \in Writers : WillPublish(v, e)'
            BY <1>2, <2>2, Zenon DEF FirstPass
        <3>1. e.ord \in Int /\ pub[w].visible \in Int
            BY DEF Stream, Events, Writing, Publications
        <3>2. CASE e.ord <= published
            <4>1. e.ord <= published'
                BY ONLY <1>4, <1>5, <3>1, <3>2, AtMostTransitive, Zenon
            <4> QED
                BY ONLY <4>1, Zenon
        <3>3. CASE WillPublish(w, e)
            <4>1. e.ord <= pub[w].visible
                BY <3>1, <3>3, Zenon DEF WillPublish
            <4>2. e.ord <= published'
                BY ONLY <1>4, <3>1, <4>1, AtMostTransitive, Zenon
            <4> QED
                BY ONLY <4>2, Zenon
        <3>4. ASSUME NEW v \in Writers, v # w, WillPublish(v, e) PROVE WillPublish(v, e)'
            BY <1>9, <3>4
        <3> QED
            BY <2>1, <3>2, <3>3, <3>4, Zenon DEF FirstPass
    <2>5. Settled(p)'
        <3> SUFFICES ASSUME pc[p] \in {"park", "held"}, Unseen(p)
                     PROVE  \/ Moved(UserOf[p], cursor[p])'
                            \/ \E v \in Writers : WillMove(v, UserOf[p])'
            BY <1>2, <2>3, Zenon DEF Settled
        <3>1. Watching(p)
            BY DEF Watching
        <3>2. CASE Moved(UserOf[p], cursor[p])
            BY <1>6, <3>1, <3>2, Zenon
        <3>3. CASE WillMove(w, UserOf[p])
            <4>1. \/ pub[w].scope = "everyone" \/ UserOf[p] \in pub[w].users
                  \/ WillMove(w, UserOf[p])'
                BY <1>1, <1>3, <3>3, Zenon DEF WillMove
            <4> QED
                BY <1>6, <3>1, <4>1, Zenon
        <3>4. ASSUME NEW v \in Writers, v # w, WillMove(v, UserOf[p]) PROVE WillMove(v, UserOf[p])'
            BY <1>9, <3>4, Zenon
        <3> QED
            BY <2>1, <3>2, <3>3, <3>4, Zenon DEF Settled
    <2>6. Sleeping(p)'
        <3>1. \A v \in Writers : WillWake(v, UserOf[p]) => WillWake(v, UserOf[p])'
            <4>1. WillWake(w, UserOf[p]) => WillWake(w, UserOf[p])'
                BY <1>1, <1>3, Zenon DEF WillWake
            <4> QED
                BY <1>9, <4>1
        <3>2. \A k \in parkers : WakesParked(k, p) => WakesParked(k, p)'
            BY <1>2, <1>7, Zenon DEF WakesParked
        <3> QED
            BY <1>1, <1>2, <2>1, <2>3, <3>1, <3>2, Zenon DEF Sleeping
    <2> QED
        BY <2>4, <2>5, <2>6
<1> QED
    BY <1>8, <1>10 DEF Waking

\* The second half of a publish: a parked poll that counted on the writer is
\* made ready, or the writer has its own event still to tell.
LEMMA WakeWakes ==
    ASSUME IInv, NEW w \in Writers, Announced(w) \/ Notified(w)
    PROVE  Notifying' /\ Waking'
<1> USE DEF IInv
<1> DEFINE P == {p \in Parked : pub[w].scope = "everyone" \/ UserOf[p] \in pub[w].users}
<1>1. /\ UNCHANGED store /\ UNCHANGED client /\ UNCHANGED notifier /\ UNCHANGED <<cursor, parkers>>
      /\ pc' = [p \in Polls |-> IF p \in P THEN "ready" ELSE pc[p]]
      /\ ticket' = [p \in Polls |-> IF p \in P THEN NoTicket ELSE ticket[p]]
    BY Zenon DEF Announced, Notified, Wake, Ready
<1>2. UNCHANGED <<next, pending, events, tok, published, broadcasts, generation, known>>
    BY <1>1 DEF store, client, notifier
<1>3. /\ \A v \in Writers : v # w => wpc'[v] = wpc[v] /\ work'[v] = work[v] /\ pub'[v] = pub[v]
      /\ \/ wpc[w] = "notified"
         \/ wpc[w] = "announced" /\ work[w].aud = {}
         \/ wpc[w] = "announced" /\ wpc'[w] = "accepted" /\ work'[w] = work[w]
    <2>1. DOMAIN wpc = Writers /\ DOMAIN work = Writers /\ DOMAIN pub = Writers
        BY DEF Writing
    <2>2. CASE Announced(w)
        BY ONLY <2>1, <2>2, w \in Writers, Zenon DEF Announced, Done, At
    <2>3. CASE Notified(w)
        BY ONLY <2>1, <2>3, w \in Writers, Zenon DEF Notified, Done, At
    <2> QED
        BY <2>2, <2>3, Zenon
<1>4. ASSUME NEW v \in Writers, v # w
      PROVE  /\ \A e : WillPublish(v, e)' <=> WillPublish(v, e)
             /\ \A u : WillMove(v, u)' <=> WillMove(v, u)
             /\ \A u : WillWake(v, u)' <=> WillWake(v, u)
    BY <1>3, <1>4, OtherWriters, Zenon
<1>5. /\ \A e : ~WillPublish(w, e)
      /\ \A u : WillMove(w, u) => WillMove(w, u)'
      /\ \A u : WillWake(w, u) => \/ WillWake(w, u)'
                                  \/ pub[w].scope = "everyone" \/ u \in pub[w].users
    BY <1>3, Zenon DEF WillPublish, WillMove, WillWake
<1>6. \A p \in Polls : \/ pc'[p] = "ready"
                       \/ p \notin P /\ pc'[p] = pc[p] /\ ticket'[p] = ticket[p]
    BY <1>1, Zenon
<1>7. Notifying'
    <2>1. pc' \in [Polls -> Reaches] /\ ticket' = [p \in Polls |-> ticket'[p]]
        BY <1>1, Zenon DEF Notifying, Reaches
    <2>2. \A p \in Polls : CursorOK(p)'
        BY <1>1, <1>2, <1>6, Zenon DEF Notifying, CursorOK, Watching
    <2>3. \A k \in parkers' : ParkerOK(k)'
        BY <1>1, <1>2 DEF Notifying, ParkerOK
    <2> QED
        BY <1>1, <1>2, <2>1, <2>2, <2>3, Zenon DEF Notifying
<1>8. ASSUME NEW p \in Polls PROVE FirstPass(p)' /\ Settled(p)' /\ Sleeping(p)'
    <2>1. FirstPass(p) /\ Settled(p) /\ Sleeping(p)
        BY DEF Waking
    <2>2. \A e : UnseenEvent(p, e)' <=> UnseenEvent(p, e)
        BY <1>2, Zenon DEF UnseenEvent, visible_stream_position
    <2>3. Unseen(p)' <=> Unseen(p)
        BY <1>2 DEF Unseen, visible_stream_position
    <2>4. CASE pc'[p] = "ready"
        BY <2>4, Zenon DEF FirstPass, Settled, Sleeping
    <2>5. CASE p \notin P /\ pc'[p] = pc[p] /\ ticket'[p] = ticket[p]
        <3>1. FirstPass(p)'
            BY <1>2, <1>4, <1>5, <2>1, <2>2, <2>5, Zenon DEF FirstPass
        <3>2. Settled(p)'
            <4>1. \A v \in Writers : WillMove(v, UserOf[p]) => WillMove(v, UserOf[p])'
                BY <1>4, <1>5, Zenon
            <4> QED
                BY <1>1, <1>2, <2>1, <2>3, <2>5, <4>1, Zenon DEF Settled, Moved
        <3>3. Sleeping(p)'
            <4> SUFFICES ASSUME pc[p] = "parked", Unseen(p)
                         PROVE  \/ \E k \in parkers' : WakesParked(k, p)'
                                \/ \E v \in Writers : WillWake(v, UserOf[p])'
                BY <2>3, <2>5, Zenon DEF Sleeping
            <4>1. ~(pub[w].scope = "everyone") /\ UserOf[p] \notin pub[w].users
                BY <2>5 DEF Parked
            <4>2. \A v \in Writers : WillWake(v, UserOf[p]) => WillWake(v, UserOf[p])'
                BY <1>4, <1>5, <4>1, Zenon
            <4>3. \A k \in parkers : WakesParked(k, p) => WakesParked(k, p)'
                BY <1>2, <2>5, Zenon DEF WakesParked, Moved
            <4> QED
                BY <1>1, <2>1, <4>2, <4>3, Zenon DEF Sleeping
        <3> QED
            BY <3>1, <3>2, <3>3
    <2> QED
        BY <1>6, <2>4, <2>5, Zenon
<1> QED
    BY <1>7, <1>8 DEF Waking

LEMMA FreshWakes ==
    ASSUME Restart
    PROVE  Notifying' /\ Waking'
<1>1. /\ published' = 0 /\ broadcasts' = 0 /\ generation' = [u \in Users |-> 0] /\ known' = {}
      /\ pc' = [p \in Polls |-> "idle"] /\ cursor' = [p \in Polls |-> NoCursor]
      /\ ticket' = [p \in Polls |-> NoTicket] /\ parkers' = {}
    BY DEF Restart
<1>2. \A p \in Polls : pc'[p] = "idle"
    BY <1>1
<1>3. Notifying'
    <2>1. NoCursor \in Cursors
        BY DEF NoCursor, Cursors
    <2> QED
        BY <1>1, <1>2, <2>1 DEF Notifying, CursorOK, Watching, Reaches
<1> QED
    BY <1>2, <1>3, Zenon DEF Waking, FirstPass, Settled, Sleeping

LEMMA WakingInit ==
    ASSUME Init
    PROVE  Notifying /\ Waking
<1>1. \A p \in Polls : pc[p] = "idle"
    BY Zenon DEF Init
<1>2. NoCursor \in Cursors
    BY DEF NoCursor, Cursors
<1>3. Notifying
    BY <1>1, <1>2, SMTT(20) DEF Init, Notifying, CursorOK, Watching, Reaches
<1> QED
    BY <1>1, <1>3, Zenon DEF Waking, FirstPass, Settled, Sleeping

LEMMA StutterWakes ==
    ASSUME IInv, UNCHANGED vars
    PROVE  Notifying' /\ Waking'
<1> USE DEF IInv
<1>1. /\ UNCHANGED store /\ UNCHANGED writing /\ UNCHANGED client /\ UNCHANGED notifier
      /\ UNCHANGED parkers /\ UNCHANGED cursor /\ UNCHANGED pc /\ UNCHANGED ticket
    BY Zenon DEF vars, polling
<1> QED
    BY <1>1, AwayFrame DEF Notifying

LEMMA WakingStep ==
    ASSUME IInv, Stream', Writing', [Next]_vars
    PROVE  Notifying' /\ Waking'
<1>1. ASSUME NEW w \in Writers, Reserve(w) \/ LocalWrite(w) PROVE Notifying' /\ Waking'
    BY <1>1, ReserveWakes, LocalWriteWakes
<1>2. ASSUME NEW w \in Writers, WriterStep(w) PROVE Notifying' /\ Waking'
    BY <1>2, CommitWakes, ApplyWakes, MoveWakes, WakeWakes, ReadAudienceWakes, Zenon DEF WriterStep
<1>3. ASSUME NEW p \in Polls, Request(p) \/ PollStep(p) \/ ClientGone(p) PROVE Notifying' /\ Waking'
    BY <1>3, RequestWakes, BeginWakes, CheckWakes, RerunWakes, ParkWakes, HeldWakes DEF PollStep
<1>4. ASSUME ParkerStep PROVE Notifying' /\ Waking'
    BY <1>4, CompareWakes, WakeTicketWakes DEF ParkerStep
<1>5. ASSUME RegistryStep \/ request_stop \/ PoolStop \/ \E p \in Polls : TimeUp(p)
      PROVE  Notifying' /\ Waking'
    BY <1>5, RegistryWakes, ResumeWakes, Zenon DEF RegistryStep
<1> QED
    BY <1>1, <1>2, <1>3, <1>4, <1>5, FreshWakes, StutterWakes DEF Next

LEMMA SleepersAreCovered == IInv => NoMissedWake
<1> SUFFICES ASSUME IInv, \A w \in Writers : wpc[w] \in {"idle", "commit", "apply"},
                    NEW p \in Polls, Asleep(p), Unseen(p)
             PROVE  FALSE
    BY DEF NoMissedWake
<1>1. Settled(p) /\ Sleeping(p)
    BY DEF IInv, Waking
<1>2. \A w \in Writers : ~WillMove(w, UserOf[p]) /\ ~WillWake(w, UserOf[p])
    BY NothingToTell
<1>3. CASE pc[p] = "parked" /\ \A k \in parkers : k.poll # p
    BY <1>1, <1>2, <1>3, Zenon DEF Sleeping, WakesParked
<1>4. CASE pc[p] = "held" /\ ~Moved(UserOf[p], cursor[p])
    BY <1>1, <1>2, <1>4, Zenon DEF Settled
<1> QED
    BY <1>3, <1>4 DEF Asleep

\* No poll sleeps through an event of its user: when every writer has published,
\* a poll that is parked or holds its thread has nothing visible past its token
\* (SyncNotifier::park: insert first, compare second; the broadcast of
\* ~PublishedStreamOrdering; the first pass's look at the published position).
\* This needs no assumption about failed watermark writes.
THEOREM NoWakeIsMissed == Spec => []NoMissedWake
<1>1. Init => IInv
    BY StoreInit, WakingInit DEF IInv
<1>2. IInv /\ [Next]_vars => IInv'
    BY StoreStep, ClientsStep, WakingStep DEF IInv
<1>3. IInv => NoMissedWake
    BY SleepersAreCovered
<1> QED
    BY <1>1, <1>2, <1>3, PTL DEF Spec
-----------------------------------------------------------------------------
(***************************************************************************)
(* Types.                                                                   *)
(***************************************************************************)
Flags ==
    /\ mutex \in Writers \cup {Free} /\ expired \subseteq Polls
    /\ stopping \in BOOLEAN /\ poolStopped \in BOOLEAN
    /\ requests \in Nat /\ boots \in Nat /\ faults \in Nat

\* A ticket is a number while finitely many are out.
Tickets ==
    /\ ticket \in [Polls -> Nat] /\ IsFiniteSet(parkers)
    /\ \A k \in parkers : k.ticket \in Nat /\ k.step \in {"compare", "wake"}

\* The least number above zero outside a finite set.
LEMMA LeastUnused ==
    ASSUME NEW S, IsFiniteSet(S)
    PROVE  LET n == CHOOSE n \in 1..(Cardinality(S) + 1) : n \notin S /\ \A m \in 1..(n - 1) : m \in S
           IN  n \in Nat \ {0} /\ n \notin S
<1> DEFINE c == Cardinality(S)
           F == {n \in 1..(c + 1) : n \notin S}
           Q(n) == n \notin S /\ \A m \in 1..(n - 1) : m \in S
<1>1. c \in Nat
    BY FS_CardinalityType
<1>2. F # {}
    <2>1. Cardinality(1..(c + 1)) = c + 1
        <3> HIDE DEF c
        <3>1. 1 \in Int /\ c + 1 \in Int /\ ~(1 > c + 1)
            BY <1>1
        <3> QED
            BY <1>1, <3>1, FS_Interval
    <2>2. ASSUME 1..(c + 1) \subseteq S PROVE FALSE
        <3>1. Cardinality(1..(c + 1)) <= c
            BY <2>2, FS_Subset, Zenon
        <3> HIDE DEF c
        <3> QED
            BY <1>1, <2>1, <3>1
    <2> QED
        BY <2>2, Zenon
<1> HIDE DEF c
<1>3. PICK m \in F : \A n \in F : m <= n
    <2>1. F \subseteq Nat
        BY <1>1
    <2> HIDE DEF F
    <2> QED
        BY <1>2, <2>1, LeastExists, Zenon
<1>4. m \in 1..(c + 1) /\ Q(m)
    BY <1>1, <1>3
<1>5. \E n \in 1..(c + 1) : Q(n)
    BY <1>4, Zenon
<1> DEFINE x == CHOOSE n \in 1..(c + 1) : Q(n)
<1>6. x \in 1..(c + 1) /\ Q(x)
    <2> HIDE DEF Q
    <2> QED
        BY <1>5, Zenon
<1>7. x \in Nat \ {0} /\ x \notin S
    <2> HIDE DEF x
    <2> QED
        BY <1>1, <1>6
<1> QED
    BY <1>7, Zenon DEF c

\* m_next_ticket++ gives a number no entry and no thread in park has.
LEMMA NewTicketIsNew ==
    ASSUME IsFiniteSet(Polls), IsFiniteSet(parkers)
    PROVE  /\ NewTicket \in Nat /\ NewTicket # NoTicket
           /\ \A p \in Polls : ticket[p] # NewTicket
           /\ \A k \in parkers : k.ticket # NewTicket
<1> DEFINE A == {ticket[p] : p \in Polls}
           B == {k.ticket : k \in parkers}
           used == A \cup B \cup {NoTicket}
<1>1. IsFiniteSet(A)
    <2> DEFINE f == [p \in Polls |-> ticket[p]]
    <2>1. f \in Surjection(Polls, A)
        BY DEF Surjection
    <2> HIDE DEF f, A
    <2> QED
        BY <2>1, FS_Surjection, Zenon
<1>2. IsFiniteSet(B)
    <2> DEFINE f == [k \in parkers |-> k.ticket]
    <2>1. f \in Surjection(parkers, B)
        BY DEF Surjection
    <2> HIDE DEF f, B
    <2> QED
        BY <2>1, FS_Surjection, Zenon
<1>3. IsFiniteSet(used)
    <2> HIDE DEF A, B
    <2>1. IsFiniteSet(A \cup B) /\ IsFiniteSet({NoTicket})
        BY <1>1, <1>2, FS_Union, FS_Singleton, Zenon
    <2> QED
        BY <2>1, FS_Union, Zenon
<1>4. NewTicket \in Nat \ {0} /\ NewTicket \notin used
    <2>1. NewTicket = CHOOSE n \in 1..(Cardinality(used) + 1) :
                          n \notin used /\ \A m \in 1..(n - 1) : m \in used
        BY Zenon DEF NewTicket
    <2> HIDE DEF used
    <2> QED
        BY <1>3, <2>1, LeastUnused, Zenon
<1> HIDE DEF NewTicket
<1>5. NewTicket \in Nat /\ NewTicket # NoTicket
    BY <1>4 DEF NoTicket
<1> QED
    BY <1>4, <1>5, Zenon

LEMMA TicketsPark ==
    ASSUME IsFiniteSet(Polls), Tickets, NEW p \in Polls, Park(p)
    PROVE  Tickets'
<1>1. CASE UNCHANGED <<ticket, parkers>>
    BY <1>1, Zenon DEF Tickets
<1>2. CASE /\ ticket' = [ticket EXCEPT ![p] = NewTicket]
           /\ parkers' = parkers \cup {[poll |-> p, ticket |-> NewTicket, cursor |-> cursor[p],
                                        step |-> "compare"]}
    <2> DEFINE k0 == [poll |-> p, ticket |-> NewTicket, cursor |-> cursor[p], step |-> "compare"]
               n == NewTicket
    <2>1. n \in Nat
        BY NewTicketIsNew, Zenon DEF Tickets
    <2>2. k0.ticket = n /\ k0.step = "compare"
        OBVIOUS
    <2>3. parkers' = parkers \cup {k0} /\ ticket' = [ticket EXCEPT ![p] = n]
        BY <1>2, Zenon
    <2>4. IsFiniteSet(parkers')
        BY <2>3, FS_Singleton, FS_Union, Zenon DEF Tickets
    <2> HIDE DEF k0, n
    <2>5. ticket' \in [Polls -> Nat]
        BY <2>1, <2>3, Zenon DEF Tickets
    <2>6. \A k \in parkers' : k.ticket \in Nat /\ k.step \in {"compare", "wake"}
        BY <2>1, <2>2, <2>3 DEF Tickets
    <2> QED
        BY <2>4, <2>5, <2>6, Zenon DEF Tickets
<1> QED
    BY <1>1, <1>2, Zenon DEF Park

\* Entries leave the registry, threads leave park.
LEMMA TicketsShrink ==
    ASSUME Tickets, NEW P, ticket' = [p \in Polls |-> IF p \in P THEN NoTicket ELSE ticket[p]],
           parkers' \subseteq parkers
    PROVE  Tickets'
<1>1. IsFiniteSet(parkers')
    BY FS_Subset, Zenon DEF Tickets
<1>2. ticket' \in [Polls -> Nat]
    BY DEF Tickets, NoTicket
<1> QED
    BY <1>1, <1>2, Zenon DEF Tickets

LEMMA TicketsCompare ==
    ASSUME Tickets, \A k \in parkers : ParkerOK(k), NEW k \in parkers, Compare(k)
    PROVE  Tickets'
<1> DEFINE k2 == [k EXCEPT !.step = "wake"]
<1>1. k2.ticket = k.ticket /\ k2.step = "wake"
    BY DEF ParkerOK
<1>2. UNCHANGED ticket
    BY DEF Compare, polling
<1>3. parkers' \subseteq parkers \cup {k2}
    BY Zenon DEF Compare
<1>4. IsFiniteSet(parkers')
    <2>1. IsFiniteSet(parkers \cup {k2})
        BY FS_Singleton, FS_Union, Zenon DEF Tickets
    <2> QED
        BY <1>3, <2>1, FS_Subset, Zenon
<1> HIDE DEF k2
<1>5. \A j \in parkers' : j.ticket \in Nat /\ j.step \in {"compare", "wake"}
    BY <1>1, <1>3 DEF Tickets
<1> QED
    BY <1>2, <1>4, <1>5, Zenon DEF Tickets

LEMMA TicketsNext ==
    ASSUME IsFiniteSet(Polls), IInv, Tickets, [Next]_vars
    PROVE  Tickets'
<1>1. ASSUME UNCHANGED <<ticket, parkers>> PROVE Tickets'
    BY <1>1, Zenon DEF Tickets
<1>2. ASSUME NEW w \in Writers, Wake(w), UNCHANGED parkers PROVE Tickets'
    BY <1>2, TicketsShrink, Zenon DEF Wake, Ready
<1>3. ASSUME NEW w \in Writers, Reserve(w) \/ LocalWrite(w) \/ WriterStep(w) PROVE Tickets'
    BY <1>1, <1>2, <1>3, Zenon DEF Reserve, LocalWrite, WriterStep, Commit, Apply, Announce, Announced,
       ReadAudience, Notify, Notified, polling
<1>4. ASSUME NEW p \in Polls, Request(p) \/ PollStep(p) \/ ClientGone(p) \/ TimeUp(p) PROVE Tickets'
    <2>1. CASE Park(p)
        BY <2>1, TicketsPark
    <2> QED
        BY <1>1, <1>4, <2>1, Zenon DEF Request, PollStep, ClientGone, TimeUp, Begin, Check, Rerun, HeldWait,
           HeldObserve, Final
<1>5. ASSUME NEW k \in parkers, Compare(k) \/ WakeTicket(k) PROVE Tickets'
    <2>1. CASE Compare(k)
        BY <2>1, TicketsCompare DEF IInv, Notifying
    <2>2. CASE WakeTicket(k)
        <3>1. parkers' \subseteq parkers
            BY <2>2, Zenon DEF WakeTicket
        <3> QED
            BY <2>2, <3>1, TicketsShrink, Zenon DEF WakeTicket, Ready
    <2> QED
        BY <1>5, <2>1, <2>2, Zenon
<1>6. CASE RegistryStep
    <2>1. CASE Take
        BY <2>1, TicketsShrink, Zenon DEF Take
    <2> QED
        BY <1>1, <1>6, <2>1, Zenon DEF RegistryStep, Resume
<1>7. CASE request_stop
    <2>1. ticket' = [p \in Polls |-> IF p \in Polls THEN NoTicket ELSE ticket[p]]
        BY <1>7, Zenon DEF request_stop
    <2> QED
        BY <1>7, <2>1, TicketsShrink, Zenon DEF request_stop
<1>8. CASE PoolStop \/ UNCHANGED vars
    BY <1>1, <1>8, Zenon DEF PoolStop, polling, vars
<1>9. CASE Restart
    <2>1. ticket' = [p \in Polls |-> IF p \in Polls THEN NoTicket ELSE ticket[p]]
        BY <1>9, Zenon DEF Restart
    <2>2. parkers' \subseteq parkers
        BY <1>9, Zenon DEF Restart
    <2> QED
        BY <2>1, <2>2, TicketsShrink, Zenon
<1> QED
    BY <1>3, <1>4, <1>5, <1>6, <1>7, <1>8, <1>9, Zenon DEF Next, ParkerStep

LEMMA FlagsNext ==
    ASSUME Flags, [Next]_vars
    PROVE  Flags'
<1>1. ASSUME NEW w \in Writers, Reserve(w) \/ LocalWrite(w) PROVE Flags'
    <2>1. UNCHANGED <<expired, stopping, poolStopped, requests, boots>> /\ mutex' \in {mutex, w}
        BY <1>1, Zenon DEF Reserve, LocalWrite, polling, stop
    <2>2. faults' \in {faults, faults + 1}
        BY <1>1, Zenon DEF Reserve, LocalWrite, allocate_stream_ordering
    <2>3. faults' \in Nat
        BY ONLY <2>2, Flags DEF Flags
    <2> QED
        BY <2>1, <2>3, Zenon DEF Flags
<1>2. ASSUME NEW w \in Writers, WriterStep(w) PROVE Flags'
    <2>1. UNCHANGED <<expired, stopping, poolStopped, requests, boots, faults>> /\ mutex' \in {mutex, w, Free}
        BY <1>2, Zenon DEF WriterStep, Commit, Apply, Announce, Announced, ReadAudience, Notify, Notified,
           polling, stop, bounds
    <2> QED
        BY <2>1, Zenon DEF Flags
<1>3. ASSUME NEW p \in Polls, Request(p) PROVE Flags'
    <2>1. UNCHANGED <<mutex, expired, stopping, poolStopped, boots, faults>>
        BY <1>3, Zenon DEF Request, stop
    <2>2. requests' \in Nat
        BY <1>3 DEF Request, Flags
    <2> QED
        BY <2>1, <2>2, Zenon DEF Flags
<1>4. ASSUME NEW p \in Polls, PollStep(p) \/ ClientGone(p) \/ TimeUp(p) \/ Resume(p) PROVE Flags'
    <2>1. UNCHANGED <<mutex, stopping, poolStopped, requests, boots, faults>>
        BY <1>4, Zenon DEF PollStep, Begin, Check, Rerun, Park, HeldWait, HeldObserve, Final, ClientGone,
           TimeUp, Resume, stop, bounds
    <2>2. expired' \subseteq expired \cup {p}
        BY <1>4, Zenon DEF PollStep, Begin, Check, Rerun, Park, HeldWait, HeldObserve, Final, ClientGone,
           TimeUp, Resume, Leave
    <2> QED
        BY <2>1, <2>2, Zenon DEF Flags
<1>5. ASSUME ParkerStep \/ Take \/ UNCHANGED vars PROVE Flags'
    <2>1. UNCHANGED <<mutex, expired, stopping, poolStopped, requests, boots, faults>>
        BY <1>5, Zenon DEF ParkerStep, Compare, WakeTicket, Take, stop, bounds, polling, vars
    <2> QED
        BY <2>1, Zenon DEF Flags
<1>6. ASSUME request_stop \/ PoolStop PROVE Flags'
    <2>1. /\ UNCHANGED <<mutex, requests, boots, faults>> /\ expired' \subseteq expired
          /\ stopping' \in {stopping, TRUE} /\ poolStopped' \in {poolStopped, TRUE}
        BY <1>6, Zenon DEF request_stop, PoolStop, bounds, polling
    <2> QED
        BY <2>1, Zenon DEF Flags
<1>7. ASSUME Restart PROVE Flags'
    <2>1. boots' \in Nat
        BY <1>7 DEF Restart, Flags
    <2> QED
        BY <1>7, <2>1, Zenon DEF Restart, Flags
<1> QED
    BY <1>1, <1>2, <1>3, <1>4, <1>5, <1>6, <1>7, Zenon DEF Next, RegistryStep

LEMMA TypesInit ==
    ASSUME Init
    PROVE  Flags /\ Tickets
<1>1. Flags
    <2>1. requests \in Nat /\ boots \in Nat /\ faults \in Nat
        BY Zenon DEF Init
    <2> QED
        BY <2>1, Zenon DEF Init, Flags
<1>2. ticket \in [Polls -> Nat] /\ parkers = {}
    BY DEF Init, NoTicket
<1>3. IsFiniteSet(parkers)
    BY <1>2, FS_EmptySet, Zenon
<1> QED
    BY <1>1, <1>2, <1>3, Zenon DEF Tickets

LEMMA TypesFollow == IInv /\ Flags /\ Tickets => TypeOK
<1> SUFFICES ASSUME IInv, Flags, Tickets PROVE TypeOK
    BY Zenon
<1>1. /\ next \in Nat \ {0} /\ watermark \in Nat /\ pending \subseteq Nat \ {0}
      /\ events \subseteq Events /\ disk \subseteq Events
    BY SMTT(20) DEF IInv, Stream
<1>2. parkers \subseteq [poll : Polls, ticket : Nat, cursor : Cursors, step : {"compare", "wake"}]
    <2> SUFFICES ASSUME NEW k \in parkers
                 PROVE  k \in [poll : Polls, ticket : Nat, cursor : Cursors, step : {"compare", "wake"}]
        BY Zenon
    <2>1. ParkerOK(k) /\ k.ticket \in Nat /\ k.step \in {"compare", "wake"}
        BY DEF IInv, Notifying, Tickets
    <2> QED
        BY <2>1 DEF ParkerOK
<1> QED
    BY <1>1, <1>2, Zenon DEF TypeOK, IInv, Writing, Writes, Clients, Notifying, Reaches, Flags, Tickets

\* Every variable of the stream, the notifier, the registry and the polls keeps
\* its shape, over stops and restarts, for finitely many clients.
THEOREM TypeCorrect == IsFiniteSet(Polls) => (Spec => []TypeOK)
<1> SUFFICES ASSUME IsFiniteSet(Polls) PROVE Spec => []TypeOK
    OBVIOUS
<1>1. Init => IInv /\ Flags /\ Tickets
    BY StoreInit, WakingInit, TypesInit, Zenon DEF IInv
<1>2. IInv /\ Flags /\ Tickets /\ [Next]_vars => (IInv /\ Flags /\ Tickets)'
    BY StoreStep, ClientsStep, WakingStep, TicketsNext, FlagsNext DEF IInv
<1> QED
    BY <1>1, <1>2, TypesFollow, PTL DEF Spec
=============================================================================
