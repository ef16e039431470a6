------------------------ MODULE MCExecutionManager ------------------------
(* ExecutionManager on small instances. *)
EXTENDS ExecutionManager, TLC

\* What a client that only creates, pauses, resumes and joins asks for.
PauseResume == {"threadPause", "threadResume"}

\* What a client asks for that has created a thread suspended.
ResumeAndJoin == {"threadResumeAndJoin"}

\* Results that the exit status of a process does and does not preserve.
SmallAndWide == {1, 257}

\* A result the exit status of a process does not preserve.
Wide == {257}

NoFaults == {}

AllFaults == {"crash", "clone"}

NoRequests == {}

AllRequests == RequestIds

Symmetry == Permutations(Threads)
=============================================================================
