---------------------------- MODULE HttpdClient ----------------------------
(***************************************************************************)
(* The client library over RHttpd (symbian/httpdc, class CHttpd): the      *)
(* state subject that follows the server's state with one asynchronous     *)
(* request after the other and tells the observers, and the calls that     *)
(* connect, close, attach and detach around it.  An observer does not call *)
(* back into the library from its UpdateStateL, as PAMP's own does not.    *)
(*                                                                         *)
(* A client sends a request and goes on, and the server takes its messages *)
(* in order: until the server has taken the request the client makes no    *)
(* other step here.                                                        *)
(***************************************************************************)
EXTENDS HttpdServer

VARIABLES
    observed,   \* of each client: ipObservers is not empty
    doing,      \* of each client: what it waits for the server to take
    seen        \* of each client: the state its observers were told last

clientVars == <<observed, doing, seen>>
allVars == <<vars, clientVars>>

Doings == {"nothing", "ask", "ask_attach", "ask_connect", "read_attach", "read_connect"}
Final == {"Stopped", "Terminated"}

\* Of the type, and a call under way has a session.
ClientTypeOK ==
    /\ TypeOK
    /\ observed \in [Clients -> BOOLEAN]
    /\ doing \in [Clients -> Doings]
    /\ seen \in [Clients -> States]
    /\ \A c \in Clients : doing[c] # "nothing" => handle[c] # "none"

ClientInit ==
    /\ Init
    /\ observed = [c \in Clients |-> FALSE]
    /\ doing = [c \in Clients |-> "nothing"]
    /\ seen = [c \in Clients |-> "NotStarted"]

Free(c) == doing[c] = "nothing"
Goes(c, to) == doing' = [doing EXCEPT ![c] = to]
Tell(c, s) == seen' = [seen EXCEPT ![c] = IF observed[c] THEN s ELSE @]

\* ConnectL: the session, the subject if there are observers, then StateL.
ConnectL(c) ==
    /\ Free(c)
    /\ Connect(c)
    /\ Goes(c, IF observed[c] THEN "ask_connect" ELSE "read_connect")
    /\ UNCHANGED <<observed, seen>>

\* Close: the subject is cancelled and the session closed.
CloseL(c) ==
    /\ Free(c)
    /\ Disconnect(c)
    /\ UNCHANGED clientVars

\* Wrong: the observer is not told the present state.
AttachUntold(c) ==
    /\ Free(c)
    /\ ~observed[c]
    /\ handle[c] # "none"
    /\ observed' = [observed EXCEPT ![c] = TRUE]
    /\ Goes(c, "ask")
    /\ UNCHANGED <<vars, seen>>

\* AttachL of the first observer: the subject is started, then StateL.  Without
\* a session StateL connects, and that starts the subject; or, when the library
\* is not to connect by itself, it leaves.
AttachL(c) ==
    /\ Free(c)
    /\ ~observed[c]
    /\ observed' = [observed EXCEPT ![c] = TRUE]
    /\ \/ handle[c] # "none" /\ Goes(c, "ask_attach") /\ UNCHANGED vars
       \/ Connect(c) /\ Goes(c, "ask_connect")
       \/ handle[c] = "none" /\ UNCHANGED <<vars, doing>>
    /\ UNCHANGED seen

\* Wrong: the subject is not cancelled.
DetachRunning(c) ==
    /\ Free(c)
    /\ observed[c]
    /\ observed' = [observed EXCEPT ![c] = FALSE]
    /\ UNCHANGED <<vars, doing, seen>>

\* Detach of the last observer: the subject is cancelled, and an answer that
\* has arrived already is dropped.
Detach(c) ==
    /\ Free(c)
    /\ observed[c]
    /\ observed' = [observed EXCEPT ![c] = FALSE]
    /\ req' = [req EXCEPT ![c] = "idle"]
    /\ UNCHANGED <<apacheVars, processVars, handle, data, doing, seen>>

\* The server, or the kernel in its stead, takes the subject's request.
Ask(c) ==
    /\ doing[c] \in {"ask", "ask_attach", "ask_connect"}
    /\ GetStateAsync(c) \/ GetStateOfDead(c)
    /\ Goes(c, CASE doing[c] = "ask" -> "nothing"
                 [] doing[c] = "ask_attach" -> "read_attach"
                 [] doing[c] = "ask_connect" -> "read_connect")
    /\ UNCHANGED <<observed, seen>>

\* StateL of AttachL and ConnectL; in the latter a final state closes.
ReadState(c) ==
    LET s == IF handle[c] = "live" THEN state ELSE "Terminated"
    IN  /\ doing[c] \in {"read_attach", "read_connect"}
        /\ Tell(c, s)
        /\ Goes(c, "nothing")
        /\ IF doing[c] = "read_connect" /\ s \in Final THEN Disconnect(c)
                                                       ELSE UNCHANGED vars
        /\ UNCHANGED observed

Answer(c) == IF req[c] = "terminated" THEN "Terminated" ELSE data[c]

\* Wrong: the subject does not ask again.
RunLOnce(c) ==
    /\ Free(c)
    /\ req[c] \in {"answered", "terminated"}
    /\ Tell(c, Answer(c))
    /\ IF Answer(c) \in Final THEN Disconnect(c) ELSE TakeOrCancel(c)
    /\ UNCHANGED <<observed, doing>>

\* RunL of the subject: the observers are told; a final state closes, any other
\* is followed by the next request.
RunL(c) ==
    /\ Free(c)
    /\ req[c] \in {"answered", "terminated"}
    /\ Tell(c, Answer(c))
    /\ IF Answer(c) \in Final
       THEN Disconnect(c) /\ UNCHANGED doing
       ELSE TakeOrCancel(c) /\ Goes(c, "ask")
    /\ UNCHANGED observed

StartL(c) == Free(c) /\ StartHttpd(c) /\ UNCHANGED clientVars
StopL(c) == Free(c) /\ StopHttpd(c) /\ UNCHANGED clientVars
RestartL(c) == Free(c) /\ RestartHttpd(c) /\ UNCHANGED clientVars

ClientStep(c) == Ask(c) \/ ReadState(c) \/ RunL(c)

ClientNext ==
    \/ \E c \in Clients :
          \/ ConnectL(c) \/ CloseL(c) \/ AttachL(c) \/ Detach(c)
          \/ StartL(c) \/ StopL(c) \/ RestartL(c) \/ ClientStep(c)
    \/ /\ ServerStep \/ ApacheRuns \/ AcceptFails \/ ConfigExits \/ MainPanics
       /\ UNCHANGED clientVars

ClientSpec == ClientInit /\ [][ClientNext]_allVars

\* The server and Apache are fair; the schedulers of the clients serve the
\* subject, and calls under way return.
ClientFairSpec ==
    ClientSpec /\ Fairness /\ \A c \in Clients : WF_allVars(ClientStep(c))

-----------------------------------------------------------------------------
(* Properties.                                                             *)

\* The subject is started only when it is not active: a second start would be
\* a second outstanding request, for which the client is paniced.
NoDoubleStart ==
    \A c \in Clients : doing[c] \in {"ask", "ask_attach", "ask_connect"} =>
        req[c] = "idle" /\ handle[c] # "none" /\ observed[c]

\* While the subject waits for a change its observers have been told the state
\* the server is in, Stopping apart, however attaching, detaching, cancelling
\* and changes of the state have overtaken one another.
WatcherInformed ==
    \A c \in Clients :
        Free(c) /\ observed[c] /\ req[c] = "pending" =>
            seen[c] = state \/ state = "Stopping"

\* An observer of a connected client learns every state the server stays in,
\* Stopping apart.
WatcherLearns ==
    \A c \in Clients, s \in States \ {"Stopping"} :
        observed[c] /\ handle[c] = "live" /\ state = s ~>
            seen[c] = s \/ state # s \/ ~observed[c] \/ handle[c] # "live"

\* When the server is gone, an observed client that was connected to it finds
\* out and closes the session, so that it can connect anew.
EndLearned ==
    \A c \in Clients :
        observed[c] /\ handle[c] = "dead" ~> ~observed[c] \/ handle[c] = "none"

\* The subject keeps its observers informed as long as there is anything to say.
ObserverLearns == WatcherLearns /\ EndLearned
=============================================================================
