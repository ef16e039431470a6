---------------------------- MODULE MCWinThreads ----------------------------
EXTENDS WinThreads

\* What SuspendThread and ResumeThread ask of libthread.
PauseResume == {"threadPause", "threadResume"}

NoRequests == {}

One == {1}

NoFaults == {}
=============================================================================
