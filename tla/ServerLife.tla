---------------------------- MODULE ServerLife ----------------------------
(***************************************************************************)
(* What the clients of the Symbian server may rely on, however it comes to *)
(* be and goes: one server serves at a time, a session is one with the     *)
(* server that serves, and with the server all of its sessions end, so     *)
(* that a new one begins with none.                                        *)
(*                                                                         *)
(* ServerStartup implements it with the kernel's calls and the race of     *)
(* several clients; HttpdServer with a Connect of one step and the reasons *)
(* for the process to end.                                                 *)
(***************************************************************************)
CONSTANTS
    Clients,   \* who may connect
    Servers    \* the processes that may serve

VARIABLES
    serving,   \* the processes that serve
    sessions   \* the clients with a session

lifeVars == <<serving, sessions>>

LifeInit == serving = {} /\ sessions = {}

\* A process takes the name of the server.
Begin(s) ==
    /\ serving = {}
    /\ serving' = {s}
    /\ UNCHANGED sessions

Open(c) ==
    /\ serving # {}
    /\ sessions' = sessions \cup {c}
    /\ UNCHANGED serving

\* A client that finds no server starts one; it need not be alone with it for
\* longer than a step.
BeginAndOpen(s, c) ==
    /\ serving = {}
    /\ serving' = {s}
    /\ sessions' = {c}

Shut(c) ==
    /\ sessions' = sessions \ {c}
    /\ UNCHANGED serving

\* In good order or not: the process takes its sessions with it.
End ==
    /\ serving # {}
    /\ serving' = {}
    /\ sessions' = {}

LifeNext ==
    \/ \E s \in Servers : Begin(s) \/ \E c \in Clients : BeginAndOpen(s, c)
    \/ \E c \in Clients : Open(c) \/ Shut(c)
    \/ End

LifeSpec == LifeInit /\ [][LifeNext]_lifeVars
=============================================================================
