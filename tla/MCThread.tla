------------------------------ MODULE MCThread ------------------------------
(* Instances of Thread for TLC: tasks other than the main one, and slots, *)
(* are interchangeable.                                                    *)
EXTENDS Thread

TaskSymmetry == Permutations(Task \ {MainTask})

=============================================================================
