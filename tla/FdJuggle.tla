------------------------------ MODULE FdJuggle ------------------------------
(***************************************************************************)
(* The descriptors of a spawned process: fdjuggle of luau/xpio.lua plans a *)
(* sequence of dup2 and close actions, and the child of _spawn in          *)
(* luau/xpio_c.c carries them out before exec.  Here each action is        *)
(* carried out as it is planned.  An open file is called after the         *)
(* descriptor the parent has it on.  The order in which Lua's pairs visits *)
(* a table is any order.                                                   *)
(***************************************************************************)
EXTENDS Integers, FiniteSets, Functions

CONSTANTS
    MaxFd,  \* bound: the descriptors named by fdmap or open are 0..MaxFd
    Nil

Fd   == 0..MaxFd
Slot == 0..(MaxFd + 1)   \* one more, which tmpfd may need

\* What the constants are; the module that gives them values assumes it.
FdAssumption == MaxFd \in Nat /\ Nil \notin Slot /\ Nil \notin [a : Slot, b : Fd \cup {Nil}]

VARIABLES
    open,      \* the descriptors that are open when spawn is called
    to,        \* fdmap: child descriptor -> parent descriptor
    table,     \* the child's descriptors: slot -> file, or Nil when closed
    blocking,  \* files whose O_NONBLOCK flag was cleared
    newnames,  \* visited parent descriptor -> the slot its file was moved to
    tmpfd,
    call,      \* the pending call of dupChain, or Nil
    todo,      \* keys the current loop has still to visit
    at

planVars == <<open, to, table, blocking, newnames, tmpfd, call, todo, at>>

from == Range(to)
Put(f, k, v) == [x \in DOMAIN f \cup {k} |-> IF x = k THEN v ELSE f[x]]

PlanTypeOK ==
    /\ open \subseteq Fd
    /\ DOMAIN to \subseteq Fd /\ from \subseteq open
    /\ table \in [Slot -> Fd \cup {Nil}]
    /\ blocking \subseteq Fd
    /\ DOMAIN newnames \subseteq Fd /\ Range(newnames) \subseteq Slot
    /\ tmpfd \in Slot \cup {Nil}
    /\ call = Nil \/ call \in [a : Slot, b : Fd \cup {Nil}]
    /\ todo \subseteq DOMAIN to
    /\ at \in {"close", "chains", "cycles", "exec"}

PlanInit ==
    /\ open \in SUBSET Fd
    /\ \E D \in SUBSET Fd : to \in [D -> open]
    /\ table = [s \in Slot |-> IF s \in open THEN s ELSE Nil]
    /\ blocking = {}
    /\ newnames = [x \in {} |-> x]
    /\ tmpfd = Nil /\ call = Nil /\ todo = {} /\ at = "close"

-----------------------------------------------------------------------------
\* An action {a, b}: dup2, and the granted descriptor becomes blocking
dup2(b, a) ==
    /\ table' = [table EXCEPT ![a] = table[b]]
    /\ blocking' = blocking \cup ({table[b]} \ {Nil})

\* close unreferenced descriptors
CloseOthers ==
    /\ at = "close"
    /\ table' = [s \in Slot |-> IF s \in DOMAIN to \cup from THEN table[s] ELSE Nil]
    /\ todo' = DOMAIN to
    /\ at' = "chains"
    /\ UNCHANGED <<open, to, blocking, newnames, tmpfd, call>>

\* dupChain: the end of a chain, a descriptor visited before, or one step along
DupChainEnd ==
    /\ call # Nil /\ call.b = Nil
    /\ table' = [table EXCEPT ![call.a] = Nil]
    /\ call' = Nil
    /\ UNCHANGED <<open, to, blocking, newnames, tmpfd, todo, at>>

DupChainVisited ==
    /\ call # Nil /\ call.b \in DOMAIN newnames
    /\ dup2(newnames[call.b], call.a)
    /\ call' = Nil
    /\ UNCHANGED <<open, to, newnames, tmpfd, todo, at>>

\* Wrong variant of DupChainStep: where a file went is not noted.
DupChainForget ==
    /\ call # Nil /\ call.b \in Fd /\ call.b \notin DOMAIN newnames
    /\ dup2(call.b, call.a)
    /\ call' = [a |-> call.b, b |-> IF call.b \in DOMAIN to THEN to[call.b] ELSE Nil]
    /\ UNCHANGED <<open, to, newnames, tmpfd, todo, at>>

DupChainStep ==
    /\ call # Nil /\ call.b \in Fd /\ call.b \notin DOMAIN newnames
    /\ dup2(call.b, call.a)
    /\ newnames' = Put(newnames, call.b, call.a)
    /\ call' = [a |-> call.b, b |-> IF call.b \in DOMAIN to THEN to[call.b] ELSE Nil]
    /\ UNCHANGED <<open, to, tmpfd, todo, at>>

Visit(a) == call = Nil /\ a \in todo /\ todo' = todo \ {a}

\* Wrong variant of VisitChain: a chain is begun anywhere.
VisitAny(a) ==
    /\ at = "chains" /\ Visit(a)
    /\ call' = [a |-> a, b |-> to[a]]
    /\ UNCHANGED <<open, to, table, blocking, newnames, tmpfd, at>>

\* visit chains, from their heads
VisitChain(a) ==
    /\ at = "chains" /\ Visit(a)
    /\ call' = IF a \in from THEN Nil ELSE [a |-> a, b |-> to[a]]
    /\ UNCHANGED <<open, to, table, blocking, newnames, tmpfd, at>>

ChainsDone ==
    /\ at = "chains" /\ call = Nil /\ todo = {}
    /\ todo' = DOMAIN to
    /\ at' = "cycles"
    /\ UNCHANGED <<open, to, table, blocking, newnames, tmpfd, call>>

\* the least descriptor that is no key of fdmap
Unused == CHOOSE s \in Slot : s \notin DOMAIN to /\ \A r \in 0..(s - 1) : r \in DOMAIN to

\* visit cycles: a descriptor that stays, a cycle nobody has visited, or
\* nothing left to do
VisitCycle(a) ==
    /\ at = "cycles" /\ Visit(a)
    /\ \/ /\ to[a] = a
          /\ dup2(a, a)
          /\ UNCHANGED <<tmpfd, call>>
       \/ /\ to[a] # a /\ a \in from /\ a \notin DOMAIN newnames
          /\ tmpfd' = IF tmpfd = Nil THEN Unused ELSE tmpfd
          /\ call' = [a |-> tmpfd', b |-> a]
          /\ UNCHANGED <<table, blocking>>
       \/ /\ to[a] # a /\ (a \notin from \/ a \in DOMAIN newnames)
          /\ UNCHANGED <<table, blocking, tmpfd, call>>
    /\ UNCHANGED <<open, to, newnames, at>>

CyclesDone ==
    /\ at = "cycles" /\ call = Nil /\ todo = {}
    /\ table' = IF tmpfd = Nil THEN table ELSE [table EXCEPT ![tmpfd] = Nil]
    /\ at' = "exec"
    /\ UNCHANGED <<open, to, blocking, newnames, tmpfd, call, todo>>

Execs == at = "exec" /\ UNCHANGED planVars

PlanNext ==
    \/ CloseOthers
    \/ DupChainEnd \/ DupChainVisited \/ DupChainStep
    \/ \E a \in Fd : VisitChain(a) \/ VisitCycle(a)
    \/ ChainsDone \/ CyclesDone
    \/ Execs

PlanSpec == PlanInit /\ [][PlanNext]_planVars

-----------------------------------------------------------------------------
(* Properties.                                                             *)

\* The child starts with exactly the files fdmap grants, each on its
\* descriptor and in blocking mode; every other descriptor is closed (xpio.lua:
\* "Descriptors not named as keys will be closed in the child process").
StartsAsGranted ==
    at = "exec" =>
        /\ \A s \in Slot : table[s] = IF s \in DOMAIN to THEN to[s] ELSE Nil
        /\ from \subseteq blocking

\* No file is lost before its last use: whatever a descriptor has still to
\* receive is open where newnames says, or where it always was.
SourceKept ==
    \A a \in DOMAIN to : table[a] # to[a] =>
        table[IF to[a] \in DOMAIN newnames THEN newnames[to[a]] ELSE to[a]] = to[a]

\* A child gets what fdmap says, and nothing is lost on the way.
ChildGetsFdmap == StartsAsGranted /\ SourceKept

\* Loops left, keys left in this one, descriptors not moved yet, and whether a
\* call of dupChain is pending, the first that differs deciding.
Rank ==
    LET n == MaxFd + 2
        loops == CASE at = "close" -> 3 [] at = "chains" -> 2 [] at = "cycles" -> 1 [] OTHER -> 0
    IN  ((loops * n + Cardinality(todo)) * n + Cardinality(Fd \ DOMAIN newnames)) * 2
            + (IF call = Nil THEN 0 ELSE 1)

\* Every chain and every cycle has an end, self-references included: each step
\* of the plan leaves less to do.
PlanProgresses == [][Rank' < Rank]_planVars
=============================================================================
