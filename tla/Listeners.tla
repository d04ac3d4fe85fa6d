----------------------------- MODULE Listeners -----------------------------
(***************************************************************************)
(* The choice of a listening socket when Apache listens on several: the    *)
(* worker that holds the accept token polls them and accepts from one.     *)
(***************************************************************************)
EXTENDS Integers, SequencesExt

CONSTANTS
    Sockets,      \* 1 .. n, in the order of the pollset
    Workers,      \* the worker threads
    MaxBacklog    \* bound: connections waiting on a socket

VARIABLES
    waiting,       \* of each socket: the connections to be accepted
    lastPollIdx,   \* last_poll_idx of each worker's worker_loop
    holder,        \* the worker that has polled and will accept
    lr             \* the listener it has chosen

vars == <<waiting, lastPollIdx, holder, lr>>

None == "none"

Init ==
    /\ waiting = [s \in Sockets |-> 0]
    /\ lastPollIdx = [w \in Workers |-> 0]
    /\ holder = None
    /\ lr = 0

\* apr_pollset_poll: the sockets with a connection, in the pollset's order.
Polled == SetToSortSeq({s \in Sockets : waiting[s] > 0}, <)

\* get_listener.  The increment goes to the pointer, not to the index that it
\* points to.
GetListener(w) ==
    /\ holder = None
    /\ Polled # <<>>
    /\ LET idx == IF lastPollIdx[w] >= Len(Polled) THEN 0 ELSE lastPollIdx[w]
       IN  /\ lr' = Polled[idx + 1]
           /\ lastPollIdx' = [lastPollIdx EXCEPT ![w] = idx]
    /\ holder' = w
    /\ UNCHANGED waiting

Accept(w) ==
    /\ holder = w
    /\ waiting[lr] > 0
    /\ waiting' = [waiting EXCEPT ![lr] = @ - 1]
    /\ holder' = None
    /\ UNCHANGED <<lastPollIdx, lr>>

Arrive(s) ==
    /\ waiting[s] < MaxBacklog
    /\ waiting' = [waiting EXCEPT ![s] = @ + 1]
    /\ UNCHANGED <<lastPollIdx, holder, lr>>

Serve == \E w \in Workers : GetListener(w) \/ Accept(w)

Next == Serve \/ \E s \in Sockets : Arrive(s)

\* Some worker always comes round for the next connection.
Spec == Init /\ [][Next]_vars /\ WF_vars(Serve)

\* "The round-robin should ensure that a socket will eventually be serviced."
SocketServiced ==
    \A s \in Sockets : waiting[s] > 0 ~> (holder # None /\ lr = s)
=============================================================================
