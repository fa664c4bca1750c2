------------------------------ MODULE MCXPProc ------------------------------
(* Instances of XPProc for TLC: a child exits with a code, is terminated   *)
(* by a signal of its own, or is killed.                                   *)
EXTENDS XPProc

CONSTANTS SomeExit, SomeSignal,  \* an exit code and a signal number
          p1, p2, p3, q1, q2

Outcomes == {<<"exit", SomeExit>>, <<"signal", SomeSignal>>}

=============================================================================
