----------------------- MODULE ProcessTimeout_proofs -----------------------
(***************************************************************************)
(* For any set of signals, any number of them and any process listing: the *)
(* wrapper leaves nothing of the command's group behind, no helper it      *)
(* found, and no wrong word in the status file.                            *)
(***************************************************************************)
EXTENDS ProcessTimeout, TLAPS

(* How far the command is when main is at pc: not begun before Popen, its  *)
(* leader gone once reaped, its group gone once the leftovers were looked  *)
(* for.  No process starts another without the leader.                     *)
Staged ==
  /\ pc \in {"start", "launch"} => leader = "none" /\ others = "none" /\ helper = "none"
  /\ pc \in {"reap", "leftover", "restore", "report", "exit"} => leader # "alive"
  /\ pc \in {"restore", "report", "exit"} => others # "alive"

(* A helper that was found is in the groups until these are killed, and    *)
(* gone afterwards; it is not started again.                               *)
Hunted ==
  proven =>
    /\ helper # "none"
    /\ pc \in {"grace", "kill"} => helper = "gone" \/ "helper" \in groups
    /\ pc \notin {"grace", "kill", "killed"} => helper = "gone"

(* The pending signal is the first that arrived; without the handler a     *)
(* signal kills.                                                           *)
Heard ==
  /\ pending # 0 => arrived # <<>> /\ pending = arrived[1]
  /\ pending = 0 /\ pc # "killed" => arrived = <<>>

(* What main has found out, and has not yet said.                          *)
Blamed ==
  /\ cause = "deadline" => late
  /\ cause = "signal" => pending # 0
  /\ pc # "exit" => status = NoStatus

IInv == TypeOK /\ Staged /\ Hunted /\ Heard /\ Blamed /\ StatusIsTrue

-----------------------------------------------------------------------------
LEMMA InitIInv == Init => IInv
  <1> SUFFICES ASSUME Init PROVE IInv
    OBVIOUS
  <1>1. handling \in BOOLEAN /\ late \in BOOLEAN /\ proven \in BOOLEAN /\ ~proven
    BY DEF Init
  <1>2. TypeOK
    BY <1>1 DEF Init, TypeOK, PCs, NoStatus
  <1>3. Staged /\ Hunted /\ Heard
    BY <1>1 DEF Init, Staged, Hunted, Heard
  <1>4. Blamed /\ StatusIsTrue
    BY <1>1 DEF Init, Blamed, StatusIsTrue, NoStatus
  <1> QED BY <1>2, <1>3, <1>4 DEF IInv

(* What the command and the clock do by themselves. *)
LEMMA CommandStep ==
  ASSUME IInv, StartOther \/ StartHelper \/ LeaderEnds \/ OtherEnds \/ HelperEnds
               \/ ClockReachesDeadline
  PROVE  IInv'
  <1> USE DEF IInv, TypeOK, PCs, Staged, Hunted, Heard, Blamed, StatusIsTrue, NoStatus,
              CommandSame, wrapper
  <1>1. CASE StartOther  BY <1>1 DEF StartOther
  <1>2. CASE StartHelper BY <1>2 DEF StartHelper
  <1>3. CASE LeaderEnds  BY <1>3 DEF LeaderEnds, Adrift
  <1>4. CASE OtherEnds   BY <1>4 DEF OtherEnds
  <1>5. CASE HelperEnds  BY <1>5 DEF HelperEnds
  <1>6. CASE ClockReachesDeadline BY <1>6 DEF ClockReachesDeadline, command
  <1> QED BY <1>1, <1>2, <1>3, <1>4, <1>5, <1>6

(* on_signal keeps the first; the default action ends the wrapper.         *)
LEMMA SignalStep ==
  ASSUME IInv, NEW s \in Signals, Signal(s)
  PROVE  IInv'
  <1> USE DEF IInv, Signal, command
  <1>1. arrived' \in Seq(Signals) /\ arrived' # <<>>
    BY DEF TypeOK
  <1>2. arrived # <<>> => arrived'[1] = arrived[1]
    BY DEF TypeOK
  <1>3. arrived = <<>> => arrived'[1] = s
    BY DEF TypeOK
  <1>4. s # 0 /\ 0 \notin Signals
    BY SignalsAssumption
  <1>5. TypeOK'
    BY <1>1 DEF TypeOK, PCs
  <1>6. Heard'
    BY <1>1, <1>2, <1>3, <1>4 DEF Heard, TypeOK
  <1>7. Staged' /\ Hunted'
    BY DEF Staged, Hunted, TypeOK
  <1>8. Blamed' /\ StatusIsTrue'
    BY <1>1, <1>2, <1>4 DEF Blamed, StatusIsTrue, NoStatus, TypeOK
  <1> QED BY <1>5, <1>6, <1>7, <1>8

(* The steps of main, in the order of the program. *)
LEMMA MainStepIInv ==
  ASSUME IInv, MainStep \/ Killed
  PROVE  IInv'
  <1> USE SignalsAssumption
      DEF IInv, TypeOK, PCs, Staged, Hunted, Heard, Blamed, StatusIsTrue, NoStatus,
          Go, wrapper, command
  <1>1. CASE Install     BY <1>1 DEF Install
  <1>2. CASE Launch      BY <1>2 DEF Launch
  <1>3. CASE LaunchFails BY <1>3 DEF LaunchFails, Reported
  <1>4. CASE Poll        BY <1>4 DEF Poll
  <1>5. CASE Look        BY <1>5 DEF Look
  <1>6. CASE Snapshot    BY <1>6 DEF Snapshot
  <1>7. CASE GraceOver   BY <1>7 DEF GraceOver
  <1>8. CASE Kill        BY <1>8 DEF Kill, Adrift
  <1>9. CASE Reap        BY <1>9 DEF Reap
  <1>10. CASE Leftover   BY <1>10 DEF Leftover
  <1>11. CASE Restore
    <2>1. handling' \in BOOLEAN
      BY <1>11 DEF Restore
    <2>2. pc = "restore" /\ pc' = "report"
          /\ UNCHANGED <<pending, cause, groups, status, late, leader, others, helper,
                         arrived, proven>>
      BY <1>11 DEF Restore
    <2> QED BY <2>1, <2>2
  <1>12. CASE Report     BY <1>12 DEF Report, Reported
  <1>13. CASE Killed     BY <1>13 DEF Killed
  <1> QED
    BY <1>1, <1>2, <1>3, <1>4, <1>5, <1>6, <1>7, <1>8, <1>9, <1>10, <1>11, <1>12, <1>13
       DEF MainStep

(* The invariant all the theorems come from: where main is, what became  *)
(* of the processes, and which signal was first (process-timeout.py).      *)
THEOREM Invariance == Spec => []IInv
  <1>1. IInv /\ [Next]_vars => IInv'
    <2> SUFFICES ASSUME IInv, [Next]_vars PROVE IInv'
      OBVIOUS
    <2>1. CASE UNCHANGED vars
      BY <2>1 DEF vars, wrapper, command, IInv, TypeOK, Staged, Hunted, Heard, Blamed,
                  StatusIsTrue
    <2>2. CASE Next
      BY <2>2, CommandStep, SignalStep, MainStepIInv DEF Next
    <2> QED BY <2>1, <2>2
  <1> QED BY InitIInv, <1>1, PTL DEF Spec

(* main's variables and the processes it looks at keep their shape: a      *)
(* status is one Reported knows, a pending signal one that is handled.     *)
THEOREM TypeCorrect == Spec => []TypeOK
  <1>1. IInv => TypeOK
    BY DEF IInv
  <1> QED BY <1>1, Invariance, PTL

(* The wrapper never ends before the command's own process group does, nor *)
(* before a helper session it found, wherever its parent went between the  *)
(* listing and the kill.                                                   *)
THEOREM NothingSurvives == Spec => []NothingIsLeft
  <1>1. IInv => NothingIsLeft
    BY DEF IInv, Staged, Hunted, NothingIsLeft
  <1> QED BY <1>1, Invariance, PTL

(* The status file names the deadline only after it, and of several        *)
(* signals the first.                                                      *)
THEOREM StatusNamesTheCause == Spec => []StatusIsTrue
  <1>1. IInv => StatusIsTrue
    BY DEF IInv
  <1> QED BY <1>1, Invariance, PTL

=============================================================================
