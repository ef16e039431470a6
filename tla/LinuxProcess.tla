---------------------------- MODULE LinuxProcess ----------------------------
(***************************************************************************)
(* What the code under src/ relies on of the Linux kernel: processes made  *)
(* with clone(2), the signals it sends them with kill(2), and the reports  *)
(* waitid(2) gives to their parent.  Everything here is external to the    *)
(* repository; it is a vocabulary of pure operators over process records.  *)
(*                                                                         *)
(*   state       what the scheduler sees                                   *)
(*   stopEvent   a stop the parent has not been told of (WSTOPPED)         *)
(*   contEvent   a continuation it has not been told of (WCONTINUED)       *)
(*   end, code   how the process ended, once it has                        *)
(***************************************************************************)
EXTENDS Integers

Ends == {"none", "exited", "killed"}

Process == [state: {"none", "running", "stopped", "zombie", "reaped"},
            stopEvent: BOOLEAN, contEvent: BOOLEAN,
            end: Ends, code: 0..255]

NoProcess == [state |-> "none", stopEvent |-> FALSE, contEvent |-> FALSE,
              end |-> "none", code |-> 0]

\* clone(..., CLONE_VM | SIGCHLD, ...): a process of its own.
Cloned == [NoProcess EXCEPT !.state = "running"]

Alive(p) == p.state \in {"running", "stopped"}

Zombie(p, how, code) ==
    [state |-> "zombie", stopEvent |-> FALSE, contEvent |-> FALSE,
     end |-> how, code |-> code]

\* Returning from the function given to clone: the parent is given the low
\* eight bits of the result.
Exited(p, result) == Zombie(p, "exited", result % 256)

Killed(p) == Zombie(p, "killed", 0)

(***************************************************************************)
(* kill(pid, sig).  A stop or a continuation that changes nothing is not   *)
(* reported; a stop withdraws a continuation not yet reported and the      *)
(* reverse.  A SIGTERM sent to a stopped process is dropped here, where    *)
(* the kernel would keep it until the process is continued: an abstraction *)
(* of threadTerminate, which nothing in the repository calls on a stopped  *)
(* thread.  A zombie, or a pid that is gone, is not affected.              *)
(***************************************************************************)
Signalled(p, sig) ==
    CASE sig = "SIGSTOP" /\ p.state = "running" ->
            [p EXCEPT !.state = "stopped", !.stopEvent = TRUE, !.contEvent = FALSE]
      [] sig = "SIGCONT" /\ p.state = "stopped" ->
            [p EXCEPT !.state = "running", !.stopEvent = FALSE, !.contEvent = TRUE]
      [] sig = "SIGTERM" /\ p.state = "running" -> Killed(p)
      [] sig = "SIGKILL" /\ Alive(p) -> Killed(p)
      [] OTHER -> p

(***************************************************************************)
(* waitid(P_PID, pid, &info, flags).  The call returns -1 with ECHILD when *)
(* nothing the flags ask for can happen any more: the child is gone, or it *)
(* is a zombie and WEXITED is not among the flags.  It blocks when none of *)
(* the reports below and not ECHILD.                                       *)
(***************************************************************************)
ReportsExit(p, flags) == "WEXITED" \in flags /\ p.state = "zombie"

ReportsStop(p, flags) == "WSTOPPED" \in flags /\ p.stopEvent

ReportsContinue(p, flags) == "WCONTINUED" \in flags /\ p.contEvent

ECHILD(p, flags) ==
    \/ p.state \in {"none", "reaped"}
    \/ p.state = "zombie" /\ "WEXITED" \notin flags

\* The record once a report of one kind has been delivered.
Reaped(p) == [p EXCEPT !.state = "reaped"]

StopReported(p) == [p EXCEPT !.stopEvent = FALSE]

ContinueReported(p) == [p EXCEPT !.contEvent = FALSE]
=============================================================================
