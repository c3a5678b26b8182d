--------------------------- MODULE EntrypointProofs ---------------------------
(* What the start script guarantees however often the kubelet retries. *)
EXTENDS Entrypoint, TLAPS

(* Where the script is, and what is known there: the child exists once it   *)
(* has been started and dies of SIGKILL only with the script; its pid is    *)
(* known from the first command of wait_for_termination on; nothing is ever *)
(* remembered in term_kill_needed; and only a SIGTERM makes HBase stop.     *)
InStep ==
    /\ pc \in {"copy", "prepare", "start"} => child = "none"
    /\ child = "none" => pc \in {"copy", "prepare", "start", "exited"}
    /\ child = "killed" => pc = "exited"
    /\ pidSet => pc \in {"check", "wait", "untrap", "waitagain", "exited"}
    /\ taken => pidSet
    /\ killNeeded = FALSE
    /\ terms = 0 => pending = FALSE
    /\ terms = 0 => child \notin {"stopping", "stopped", "killed"}

IInv == TypeOK /\ InStep /\ StopsGracefully /\ OutlivesHbase

-----------------------------------------------------------------------------
LEMMA InitEstablishes == Init => IInv
<1>1. Init => TypeOK
  <2>1. Init => terms \in 0..MaxTerms
    BY MaxTermsAssumption DEF Init
  <2>2. Init => child \in {"none"} \cup Alive \cup Ended
    BY DEF Init
  <2>3. QED
    BY <2>1, <2>2, Zenon DEF Init, TypeOK, Commands
<1>2. Init => InStep
  BY DEF Init, InStep
<1>3. Init => StopsGracefully /\ OutlivesHbase
  BY DEF Init, StopsGracefully, OutlivesHbase
<1>4. QED
  BY <1>1, <1>2, <1>3 DEF IInv

(* One case per command of the script, per event of HBase and per call of   *)
(* the kubelet.                                                             *)
LEMMA NextPreserves == IInv /\ [Next]_vars => IInv'
<1>1. SUFFICES ASSUME IInv, [Next]_vars PROVE IInv'
  OBVIOUS
<1>2. USE <1>1, MaxTermsAssumption DEF IInv, TypeOK, InStep, StopsGracefully, OutlivesHbase,
                                 Commands, Alive, Ended
<1>3. QED
  <2>1. CASE CopyConfig
    <3>1. TypeOK'
      <4>1. CASE pc' = "prepare" /\ UNCHANGED <<trapped, pending, child>>
        BY <2>1, <4>1 DEF CopyConfig, Proceeds
      <4>2. CASE Exit
        BY <2>1, <4>2 DEF CopyConfig, Exit
      <4>3. QED
        BY <2>1, <4>1, <4>2 DEF CopyConfig
    <3>2. InStep'
      BY <2>1 DEF CopyConfig, Proceeds, Exit
    <3>3. StopsGracefully' /\ OutlivesHbase'
      BY <2>1 DEF CopyConfig, Proceeds, Exit
    <3>4. QED
      BY <3>1, <3>2, <3>3
  <2>2. CASE prepare_signal_handlers
    BY <2>2 DEF prepare_signal_handlers, Proceeds
  <2>3. CASE StartHbase
    BY <2>3 DEF StartHbase, Proceeds
  <2>4. CASE SetChildPid
    BY <2>4 DEF SetChildPid, Proceeds
  <2>5. CASE CheckKillNeeded
    BY <2>5 DEF CheckKillNeeded, Proceeds
  <2>6. CASE WaitChild
    BY <2>6 DEF WaitChild, Proceeds
  <2>7. CASE Untrap
    BY <2>7 DEF Untrap, Proceeds
  <2>8. CASE WaitChildAgain
    BY <2>8 DEF WaitChildAgain, Proceeds, Exit
  <2>9. CASE handle_term_signal
    <3>1. terms # 0 /\ UNCHANGED <<pidSet, killNeeded, terms, taken, expired>>
      BY <2>9 DEF handle_term_signal
    <3>2. CASE /\ pidSet
               /\ TermChild
               /\ pending' = FALSE
               /\ pc' = IF pc = "wait" THEN "untrap" ELSE pc
               /\ UNCHANGED trapped
      <4>1. TypeOK'
        BY <3>1, <3>2 DEF TermChild
      <4>2. InStep' /\ StopsGracefully' /\ OutlivesHbase'
        BY <3>1, <3>2 DEF TermChild
      <4>3. QED
        BY <4>1, <4>2
    <3>3. CASE ~pidSet /\ Exit
      BY <3>1, <3>3 DEF Exit
    <3>4. QED
      BY <2>9, <3>2, <3>3 DEF handle_term_signal
  <2>10. CASE HbaseStops
    BY <2>10 DEF HbaseStops, script
  <2>11. CASE HbaseCrashes
    BY <2>11 DEF HbaseCrashes, script
  <2>12. CASE KubeletTerm
    BY <2>12 DEF KubeletTerm, script
  <2>13. CASE KubeletKill
    <3>1. TypeOK'
      BY <2>13 DEF KubeletKill, Exit
    <3>2. InStep'
      BY <2>13 DEF KubeletKill, Exit
    <3>3. StopsGracefully' /\ OutlivesHbase'
      BY <2>13 DEF KubeletKill, Exit
    <3>4. QED
      BY <3>1, <3>2, <3>3
  <2>14. CASE UNCHANGED vars
    BY <2>14 DEF vars
  <2>15. QED
    BY <1>1, <2>1, <2>2, <2>3, <2>4, <2>5, <2>6, <2>7, <2>8, <2>9, <2>10, <2>11, <2>12, <2>13, <2>14 DEF Next, Script

LEMMA AlwaysInStep == Spec => []IInv
<1>1. Init => IInv
  BY InitEstablishes
<1>2. IInv /\ [Next]_vars => IInv'
  BY NextPreserves
<1>3. QED
  BY <1>1, <1>2, PTL DEF Spec

-----------------------------------------------------------------------------
(* The state of the script, of HBase and of the kubelet keeps its type, and *)
(* a signal is pending only while the trap is installed.                    *)
THEOREM ScriptTypeCorrect == Spec => []TypeOK
<1>1. IInv => TypeOK
  BY DEF IInv
<1>2. QED
  BY <1>1, AlwaysInStep, PTL

(* A SIGTERM that finds the trap and the child's pid set never makes the    *)
(* script kill HBase: only the end of the grace period does.                *)
THEOREM TermIsGraceful == Spec => []StopsGracefully
<1>1. IInv => StopsGracefully
  BY DEF IInv
<1>2. QED
  BY <1>1, AlwaysInStep, PTL

(* Without a SIGTERM the script ends only after a failed setup or after     *)
(* HBase itself has ended.                                                  *)
THEOREM ScriptOutlivesHbase == Spec => []OutlivesHbase
<1>1. IInv => OutlivesHbase
  BY DEF IInv
<1>2. QED
  BY <1>1, AlwaysInStep, PTL
==============================================================================
