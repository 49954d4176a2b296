-------------------------- MODULE MCCompletionPort --------------------------
(* Instances of CompletionPort for model checking.                          *)
EXTENDS CompletionPort, TLC

\* Threads are interchangeable: they occur only in sets and as the domain of
\* functions.
ThreadSymmetry == Permutations(Threads)
=============================================================================
