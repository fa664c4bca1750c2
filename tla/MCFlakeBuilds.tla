---------------------------- MODULE MCFlakeBuilds ---------------------------
(* Two build descriptions in one run: the one the constants give, in the    *)
(* run a diamond with two targets and with edits that bring back old        *)
(* contents, and a chain with failures and crashes.  Beside them, the       *)
(* working directory that the tasks of any build share.  A behaviour is one *)
(* of the three; the others stay as they were before they began.            *)
EXTENDS Flake, WorkDir

CONSTANTS app, left, right, gen, pure   \* builders

NoReturns == [b \in {} |-> b]

\* app is linked from two objects that include the same generated file.
DiamondDeps == (app :> <<left, right>>) @@ (left :> <<gen>>) @@ (right :> <<gen>>)
               @@ (gen :> <<>>)
DiamondCalls == [b \in {app, left, right, gen} |-> b]

\* gen, then left, then app, the middle one found through a pure builder
ChainDeps == (app :> <<pure>>) @@ (pure :> <<gen>>) @@ (left :> <<gen>>) @@ (gen :> <<>>)
ChainReturns == pure :> left
ChainCalls == [b \in {app, left, gen, pure} |-> b]

\* two builders that do not depend on each other
SiblingDeps == [b \in {left, right} |-> <<>>]
SiblingCalls == [b \in {left, right} |-> b]

AppOnly == <<app>>
GenAndApp == <<gen, app>>
Siblings == <<left, right>>

VARIABLES
    shows,      \* "diamond", "chain" or "directories"
    csrc, cout, cdisk, cmem, cobj, clast, cvalid, cvalue, cthunk,
    ctask, cjob, cstack, cmode, cruns, cedits, cquiet, cclean     \* the chain's

chainVars == <<csrc, cout, cdisk, cmem, cobj, clast, cvalid, cvalue, cthunk, ctask,
               cjob, cstack, cmode, cruns, cedits, cquiet, cclean>>

Chain == INSTANCE Flake WITH
    Builder <- {app, left, gen, pure}, Targets <- AppOnly, Deps <- ChainDeps,
    Call <- {app, left, gen, pure}, CallOf <- ChainCalls, Untracked <- {gen}, Listed <- {app},
    Returns <- ChainReturns, MaxRuns <- 3, MaxEdits <- 2,
    CanFail <- TRUE, CanCrash <- TRUE, Reverts <- FALSE,
    src <- csrc, out <- cout, disk <- cdisk, mem <- cmem, obj <- cobj, last <- clast,
    valid <- cvalid, value <- cvalue, thunk <- cthunk, task <- ctask, job <- cjob, stack <- cstack,
    mode <- cmode, runs <- cruns, edits <- cedits, quiet <- cquiet, clean <- cclean

\* No builder of either description is an input of itself.
ASSUME DescriptionsEnd == NoCycles /\ Chain!NoCycles

BuildsInit == shows \in {"diamond", "chain", "directories"} /\ Init /\ Chain!Init /\ DirInit

BuildsNext ==
    /\ UNCHANGED shows
    /\ \/ shows = "diamond" /\ Next /\ UNCHANGED <<chainVars, dirVars>>
       \/ shows = "chain" /\ Chain!Next /\ UNCHANGED <<vars, dirVars>>
       \/ shows = "directories" /\ DirNext /\ UNCHANGED <<vars, chainVars>>

\* The fairness of Flake, for either build.
BuildsSpec ==
    /\ BuildsInit /\ [][BuildsNext]_<<shows, vars, chainVars, dirVars>>
    /\ WF_vars(shows = "diamond" /\ MainStep)
    /\ WF_chainVars(shows = "chain" /\ Chain!MainStep)
    /\ \A b \in Builder : WF_vars(shows = "diamond" /\ TaskStep(b))
    /\ \A b \in {app, left, gen, pure} : WF_chainVars(shows = "chain" /\ Chain!TaskStep(b))

\* The build that the constants give, alone.
OneBuildSpec ==
    shows = "diamond" /\ BuildsInit /\ [][BuildsNext]_<<shows, vars, chainVars, dirVars>>

-----------------------------------------------------------------------------
\* In the chain, where builders fail and the program is killed at any point, too:
\* what is marked valid is what a build from nothing would make, a run that ends
\* well is complete, and a rerun computes only what is untracked (the properties
\* of Flake).
ChainKept == Chain!ValidMeansBuilt /\ Chain!SuccessIsComplete /\ Chain!NothingRecomputed

\* Every run of either build comes to an end (RunEnds of Flake).
RunsEnd == RunEnds /\ Chain!RunEnds
=============================================================================
