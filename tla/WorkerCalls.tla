----------------------------- MODULE WorkerCalls -----------------------------
(***************************************************************************)
(* What the main process is promised about its calls to a federation        *)
(* worker, whatever threads and frames are between them.  A call is opened  *)
(* with the EDUs that the verified body carried, is settled once, and ends  *)
(* answered or failed.  A worker may relay an EDU of a call back to main:   *)
(* main applies it only while the call is open and no more often than the   *)
(* body carried it.                                                         *)
(***************************************************************************)
EXTENDS Integers

CONSTANTS
    Ids,                   \* request ids of one channel
    Digests,               \* EDUs, told apart by their digest
    Copies                 \* how often a body may carry one EDU

VARIABLES
    status,                \* of each call
    carried,               \* how often the body of a call carried each EDU
    applied,               \* how often main applied each EDU of a call
    replied                \* calls that the worker has answered

vars == <<status, carried, applied, replied>>

Statuses == {"unused", "open", "settled", "answered", "failed"}
None     == [d \in Digests |-> 0]

Init ==
    /\ status = [i \in Ids |-> "unused"]
    /\ carried = [i \in Ids |-> None]
    /\ applied = [i \in Ids |-> None]
    /\ replied = {}

Open(i, body) ==
    /\ status[i] = "unused"
    /\ status' = [status EXCEPT ![i] = "open"]
    /\ carried' = [carried EXCEPT ![i] = body]
    /\ UNCHANGED <<applied, replied>>

\* The account of a call's EDUs is closed with it.
Close(i, result) ==
    /\ status' = [status EXCEPT ![i] = result]
    /\ carried' = [carried EXCEPT ![i] = None]
    /\ applied' = [applied EXCEPT ![i] = None]
    /\ UNCHANGED replied

\* A call that is refused before the worker hears of it, or whose deadline
\* passes.
Fail(i) ==
    /\ status[i] \in {"unused", "open", "settled"}
    /\ Close(i, "failed")

Apply(i, d) ==
    /\ status[i] = "open"
    /\ applied[i][d] < carried[i][d]
    /\ applied' = [applied EXCEPT ![i][d] = @ + 1]
    /\ UNCHANGED <<status, carried, replied>>

Reply(i) ==
    /\ status[i] # "unused"
    /\ i \notin replied
    /\ replied' = replied \cup {i}
    /\ UNCHANGED <<status, carried, applied>>

\* One call is settled by its reply, or all of them by the end of the channel.
Settle(S) ==
    /\ status' = [i \in Ids |-> IF i \in S /\ status[i] = "open" THEN "settled" ELSE status[i]]
    /\ UNCHANGED <<carried, applied, replied>>

Answer(i) ==
    /\ status[i] = "settled"
    /\ i \in replied
    /\ Close(i, "answered")

Next ==
    \/ \E i \in Ids : \/ \E body \in [Digests -> Copies] : Open(i, body)
                      \/ Fail(i) \/ Reply(i) \/ Answer(i)
                      \/ \E d \in Digests : Apply(i, d)
    \/ \E S \in SUBSET Ids : Settle(S)

Spec == Init /\ [][Next]_vars
=============================================================================
