----------------------------- MODULE Entrypoint ------------------------------
(***************************************************************************)
(* The start script that GetMainContainerCommanArgs gives the container of *)
(* every role, run by  bash -x -euo pipefail -c  as process 1, beside the  *)
(* HBase process it starts and the kubelet that stops the container: one   *)
(* SIGTERM (more if the kubelet retries), and SIGKILL after the grace      *)
(* period.                                                                 *)
(*                                                                         *)
(* What bash does: a trap runs between two commands, or interrupts wait;   *)
(* reading an unset variable under set -u ends the shell.  What the kernel *)
(* does: a SIGTERM that process 1 does not trap is dropped, and the end of *)
(* process 1 kills everything else in the container.                       *)
(***************************************************************************)
EXTENDS Naturals

CONSTANT MaxTerms       (* bound on the SIGTERMs the kubelet sends *)

ASSUME MaxTermsAssumption == MaxTerms \in Nat \ {0}

VARIABLES
    pc,           (* the next command of the script                         *)
    trapped,      (* the TERM trap is installed                             *)
    pidSet,       (* term_child_pid is set                                  *)
    killNeeded,   (* term_kill_needed is set                                *)
    pending,      (* a SIGTERM waits for the trap to run                    *)
    child,        (* the HBase process                                      *)
    terms,        (* the number of SIGTERMs sent                            *)
    taken,        (* history: a SIGTERM came with the trap and the pid set  *)
    expired       (* the grace period is over and SIGKILL was sent          *)

script == <<pc, trapped, pidSet, killNeeded>>
vars == <<pc, trapped, pidSet, killNeeded, pending, child, terms, taken, expired>>

Commands == {"copy", "prepare", "start", "enter", "check", "wait", "untrap",
             "waitagain", "exited"}
Alive == {"running", "stopping"}
Ended == {"stopped", "crashed", "killed"}

Init ==
    /\ pc = "copy"
    /\ trapped = FALSE /\ pidSet = FALSE /\ killNeeded = FALSE
    /\ pending = FALSE
    /\ child = "none"
    /\ terms = 0 /\ taken = FALSE /\ expired = FALSE

-----------------------------------------------------------------------------
(* The script.                                                              *)

(* Process 1 ends, and whatever else runs in the container with it. *)
Exit ==
    /\ pc' = "exited"
    /\ child' = IF child \in Alive THEN "killed" ELSE child
    /\ trapped' = FALSE /\ pending' = FALSE

(* kill -TERM of the child; a child that is gone is not an error. *)
TermChild == child' = IF child = "running" THEN "stopping" ELSE child

(* The trap has to run before the next command. *)
Proceeds(command) == pc = command /\ ~pending

(* mkdir, cp and the Kerberos substitutions, under set -e. *)
CopyConfig ==
    /\ Proceeds("copy")
    /\ \/ pc' = "prepare" /\ UNCHANGED <<trapped, pending, child>>
       \/ Exit
    /\ UNCHANGED <<pidSet, killNeeded, terms, taken, expired>>

(* Mutation: the variables are unset, and the trap is forgotten. *)
prepare_without_trap ==
    /\ Proceeds("prepare")
    /\ pc' = "start"
    /\ pidSet' = FALSE /\ killNeeded' = FALSE
    /\ UNCHANGED <<trapped, pending, child, terms, taken, expired>>

prepare_signal_handlers ==
    /\ Proceeds("prepare")
    /\ pc' = "start"
    /\ trapped' = TRUE /\ pidSet' = FALSE /\ killNeeded' = FALSE
    /\ UNCHANGED <<pending, child, terms, taken, expired>>

StartHbase ==
    /\ Proceeds("start")
    /\ pc' = "enter"
    /\ child' = "running"
    /\ UNCHANGED <<trapped, pidSet, killNeeded, pending, terms, taken, expired>>

(* wait_for_termination, command by command. *)
SetChildPid ==
    /\ Proceeds("enter")
    /\ pc' = "check"
    /\ pidSet' = TRUE
    /\ UNCHANGED <<trapped, killNeeded, pending, child, terms, taken, expired>>

(* Mutation: [[ ! -v term_kill_needed ]]. *)
CheckKillNeededInverted ==
    /\ Proceeds("check")
    /\ pc' = "wait"
    /\ IF killNeeded THEN UNCHANGED child ELSE TermChild
    /\ UNCHANGED <<trapped, pidSet, killNeeded, pending, terms, taken, expired>>

CheckKillNeeded ==
    /\ Proceeds("check")
    /\ pc' = "wait"
    /\ IF killNeeded THEN TermChild ELSE UNCHANGED child
    /\ UNCHANGED <<trapped, pidSet, killNeeded, pending, terms, taken, expired>>

(* Mutation: sleep infinity & wait $!  Only the trap gets out of it. *)
WaitForSignal ==
    /\ Proceeds("wait")
    /\ UNCHANGED vars

WaitChild ==
    /\ Proceeds("wait") /\ child \in Ended
    /\ pc' = "untrap"
    /\ UNCHANGED <<trapped, pidSet, killNeeded, pending, child, terms, taken, expired>>

(* Mutation: no second wait. *)
UntrapAndReturn ==
    /\ Proceeds("untrap")
    /\ Exit
    /\ UNCHANGED <<pidSet, killNeeded, terms, taken, expired>>

Untrap ==
    /\ Proceeds("untrap")
    /\ pc' = "waitagain"
    /\ trapped' = FALSE
    /\ UNCHANGED <<pidSet, killNeeded, pending, child, terms, taken, expired>>

WaitChildAgain ==
    /\ Proceeds("waitagain") /\ child \in Ended
    /\ Exit
    /\ UNCHANGED <<pidSet, killNeeded, terms, taken, expired>>

(* Mutation: the signal is only ever remembered. *)
handle_term_signal_remembers ==
    /\ pending
    /\ pending' = FALSE
    /\ killNeeded' = TRUE
    /\ pc' = IF pc = "wait" THEN "untrap" ELSE pc
    /\ UNCHANGED <<trapped, pidSet, child, terms, taken, expired>>

(* The trap: the child is told, or, when its pid is not known yet, reading  *)
(* the unset variable ends the script under set -u; the branch that would   *)
(* remember the signal is not reached.  The first wait is interrupted.      *)
handle_term_signal ==
    /\ pending
    /\ \/ /\ pidSet
          /\ TermChild
          /\ pending' = FALSE
          /\ pc' = IF pc = "wait" THEN "untrap" ELSE pc
          /\ UNCHANGED trapped
       \/ /\ ~pidSet
          /\ Exit
    /\ UNCHANGED <<pidSet, killNeeded, terms, taken, expired>>

Script ==
    \/ CopyConfig \/ prepare_signal_handlers \/ StartHbase
    \/ SetChildPid \/ CheckKillNeeded \/ WaitChild \/ Untrap \/ WaitChildAgain
    \/ handle_term_signal

-----------------------------------------------------------------------------
(* The HBase process and the kubelet.                                       *)

HbaseStops ==
    /\ child = "stopping"
    /\ child' = "stopped"
    /\ UNCHANGED <<script, pending, terms, taken, expired>>

HbaseCrashes ==
    /\ child \in Alive
    /\ child' = "crashed"
    /\ UNCHANGED <<script, pending, terms, taken, expired>>

KubeletTerm ==
    /\ pc # "exited" /\ terms < MaxTerms
    /\ terms' = terms + 1
    /\ pending' = (pending \/ trapped)
    /\ taken' = (taken \/ (trapped /\ pidSet))
    /\ UNCHANGED <<script, child, expired>>

KubeletKill ==
    /\ pc # "exited" /\ terms > 0
    /\ expired' = TRUE
    /\ Exit
    /\ UNCHANGED <<pidSet, killNeeded, terms, taken>>

Next == Script \/ HbaseStops \/ HbaseCrashes \/ KubeletTerm \/ KubeletKill

Spec == Init /\ [][Next]_vars

(* The shell runs, and HBase ends once told.  SIGKILL is never needed: what *)
(* follows must not depend on it.                                           *)
FairSpec == Spec /\ WF_vars(Script) /\ WF_vars(HbaseStops)

-----------------------------------------------------------------------------
(* Properties.                                                              *)

(* Every variable keeps its range, the trap is there from before HBase is   *)
(* started (prepare_signal_handlers) until the first wait is over, and a    *)
(* pending signal has it to run (KubeletTerm drops the others).             *)
TypeOK ==
    /\ pc \in Commands
    /\ trapped \in BOOLEAN /\ pidSet \in BOOLEAN /\ killNeeded \in BOOLEAN
    /\ pending \in BOOLEAN /\ taken \in BOOLEAN /\ expired \in BOOLEAN
    /\ child \in {"none"} \cup Alive \cup Ended
    /\ terms \in 0..MaxTerms
    /\ trapped <=> pc \in {"start", "enter", "check", "wait", "untrap"}
    /\ pending => trapped

(* Once the script knows its child, a SIGTERM never costs HBase its         *)
(* graceful stop: if one arrived then, HBase is killed only at the end of   *)
(* the grace period.  The second wait of wait_for_termination is what this  *)
(* rests on, since the trap interrupts the first.                           *)
StopsGracefully == taken /\ child = "killed" => expired

(* The container ends only after HBase does: without a SIGTERM the script   *)
(* does not return, which would take a healthy server down.                 *)
OutlivesHbase == pc = "exited" /\ terms = 0 => child \in {"none", "crashed"}

(* A SIGTERM that arrived once the child was known ends the container       *)
(* without SIGKILL.                                                         *)
TakenTermEnds == taken ~> pc = "exited"

(* Once HBase is over, so is the container, and the kubelet restarts it.    *)
CrashEnds == child = "crashed" ~> pc = "exited"

(* Every SIGTERM that the trap takes reaches HBase, the ones that come      *)
(* before the script knows the child's pid too: they are what               *)
(* term_kill_needed is for.                                                 *)
TrappedTermReachesHbase == child = "killed" => expired
==============================================================================
