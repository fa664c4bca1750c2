------------------------------- MODULE MCXpio -------------------------------
(* Three parts of xpio that share no state, in one run: readProcess over    *)
(* pipes (ReadProcess), the plan for a child's descriptors (FdJuggle) and   *)
(* sockets (XPSocket).  One of them moves in a behaviour; the others stay   *)
(* as they start.                                                           *)
EXTENDS ReadProcess, FdJuggle, XPSocket, TLC

\* Of ReadProcess: a program that reads more input than a pipe holds, one with
\* more output than that, and one that never ends.
CONSTANTS filter, printer, server

Inputs  == (filter :> 2) @@ (printer :> 0) @@ (server :> 0)
Outputs == (filter :> <<0, 0>>) @@ (printer :> <<2, 0>>) @@ (server :> <<0, 0>>)

CONSTANTS client, other   \* of XPSocket, beside the server

ASSUME XpioAssumption == FdAssumption /\ SocketAssumption

VARIABLES moves           \* "process", "plan" or "socket"

\* A server, a client, and a task that makes pairs, copies and kills.
Roles == (server :> {"socket", "listen", "accept", "read", "close"})
         @@ (client :> {"socket", "connect", "write", "shutdown"})
         @@ (other :> {"pair", "fdopen", "kill"})

\* Two tasks that read from pairs, and either closes what the other reads.
CarelessRoles == [t \in {server, client, other} |-> IF t = client THEN {} ELSE {"pair", "read", "close"}]

XpioInit ==
    /\ moves \in {"process", "plan", "socket"}
    /\ Init /\ PlanInit /\ SocketInit
    /\ moves # "plan" => open = {}

ProcessMoves == moves = "process" /\ Next /\ UNCHANGED <<moves, planVars, socketVars>>
PlanMoves == moves = "plan" /\ PlanNext /\ UNCHANGED <<moves, vars, socketVars>>
SocketMoves == moves = "socket" /\ SocketNext /\ UNCHANGED <<moves, vars, planVars>>
\* Tasks that use sockets may stop.
SocketsRest == moves = "socket" /\ UNCHANGED <<moves, vars, planVars, socketVars>>

XpioNext == ProcessMoves \/ PlanMoves \/ SocketMoves \/ SocketsRest

\* The fairness of ReadProcess.
XpioSpec ==
    /\ XpioInit /\ [][XpioNext]_<<moves, vars, planVars, socketVars>>
    /\ WF_vars(moves = "process" /\ \E c \in Call : ParentStep(c))
    /\ WF_vars(moves = "process" /\ \E c \in Call : ExecStep(c))
    /\ \A c \in Ending : WF_vars(moves = "process" /\ ChildStep(c))

-----------------------------------------------------------------------------
\* A readProcess whose program ends returns (as long as not both its input and
\* its output are more than pipes hold), and the plan for a child's descriptors
\* comes to an end for every fdmap, self-references and cycles included.
CallsEnd == CallReturns /\ PlanProgresses
=============================================================================
