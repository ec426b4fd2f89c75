--------------------------- MODULE ProcessTimeout ---------------------------
(***************************************************************************)
(* process-timeout.py: one command under an absolute deadline in its own   *)
(* process group, with signals from outside that may come at any time.     *)
(*                                                                         *)
(* The command is its leader, the others of its group, and one helper that *)
(* started a session of its own.  The helper can be found from the leader  *)
(* (ps, parent by parent) as long as the leader lives; afterwards it is    *)
(* adrift.  A process may end at any time, so TERM, which asks it to, has  *)
(* no effect of its own here; KILL has.                                    *)
(***************************************************************************)
EXTENDS Naturals, Sequences

CONSTANTS
  Signals,     (* the catchable signals sent to it: 15 and 2                *)
  MaxSignals,  (* bound: how many are sent                                  *)
  PsMayFail    (* may the process listing fail, or ps be missing?           *)

ASSUME SignalsAssumption    == Signals \subseteq Nat \ {0}
ASSUME MaxSignalsAssumption == MaxSignals \in Nat
ASSUME PsAssumption         == PsMayFail \in BOOLEAN

VARIABLES
  pc,        (* of main                                                     *)
  handling,  (* on_signal is installed                                      *)
  pending,   (* pending_signal[0], 0 for None                               *)
  cause,     (* self_timed_out, external_signal, or neither                 *)
  groups,    (* the groups _stop_group took on                              *)
  late,      (* the clock has reached the deadline                          *)
  leader, others, helper,  (* the processes of the command                  *)
  arrived,   (* history: the signals sent                                   *)
  proven,    (* history: the helper was found by _separate_descendant_groups *)
  status     (* the status file                                             *)

wrapper == <<handling, pending, cause, groups, status>>
command == <<leader, others, helper>>
vars == <<pc, wrapper, late, command, arrived, proven>>

PCs == {"start", "launch", "poll", "look", "snapshot", "grace", "kill", "reap",
        "leftover", "restore", "report", "exit", "killed"}

NoStatus == [reason |-> "none", code |-> 0]
Reported(r, c) == [reason |-> r, code |-> c]

TypeOK ==
  /\ pc \in PCs
  /\ handling \in BOOLEAN
  /\ pending \in Signals \cup {0}
  /\ cause \in {"none", "deadline", "signal"}
  /\ groups \subseteq {"main", "helper"}
  /\ late \in BOOLEAN
  /\ leader \in {"none", "alive", "gone"}
  /\ others \in {"none", "alive", "gone"}
  /\ helper \in {"none", "child", "adrift", "gone"}
  /\ arrived \in Seq(Signals)
  /\ proven \in BOOLEAN
  /\ status.reason \in {"none", "launch_failed", "deadline", "external_signal", "process_exit"}

Init ==
  /\ pc = "start" /\ handling = FALSE /\ pending = 0 /\ cause = "none"
  /\ groups = {} /\ late = FALSE
  /\ leader = "none" /\ others = "none" /\ helper = "none"
  /\ arrived = <<>> /\ proven = FALSE /\ status = NoStatus

Go(from, to) == pc = from /\ pc' = to

-----------------------------------------------------------------------------
(* The command, the clock, and what is sent to the wrapper.                *)

CommandSame == UNCHANGED <<pc, wrapper, late, arrived, proven>>

StartOther ==
  /\ leader = "alive" /\ others = "none"
  /\ others' = "alive"
  /\ UNCHANGED <<leader, helper>> /\ CommandSame

StartHelper ==
  /\ leader = "alive" /\ helper = "none"
  /\ helper' = "child"
  /\ UNCHANGED <<leader, others>> /\ CommandSame

Adrift(h) == IF h = "child" THEN "adrift" ELSE h

LeaderEnds ==
  /\ leader = "alive"
  /\ leader' = "gone" /\ helper' = Adrift(helper)
  /\ UNCHANGED others /\ CommandSame

OtherEnds ==
  /\ others = "alive"
  /\ others' = "gone"
  /\ UNCHANGED <<leader, helper>> /\ CommandSame

HelperEnds ==
  /\ helper \in {"child", "adrift"}
  /\ helper' = "gone"
  /\ UNCHANGED <<leader, others>> /\ CommandSame

ClockReachesDeadline ==
  /\ ~late /\ late' = TRUE
  /\ UNCHANGED <<pc, wrapper, command, arrived, proven>>

(* on_signal keeps the first; without it the default action is to die.     *)
BugLastSignal(s) ==
  /\ pc \notin {"exit", "killed"} /\ Len(arrived) < MaxSignals
  /\ arrived' = Append(arrived, s)
  /\ IF handling
       THEN pending' = s /\ UNCHANGED pc
       ELSE pc' = "killed" /\ UNCHANGED pending
  /\ UNCHANGED <<handling, cause, groups, status, late, command, proven>>

Signal(s) ==
  /\ pc \notin {"exit", "killed"} /\ Len(arrived) < MaxSignals
  /\ arrived' = Append(arrived, s)
  /\ IF handling
       THEN pending' = (IF pending = 0 THEN s ELSE pending) /\ UNCHANGED pc
       ELSE pc' = "killed" /\ UNCHANGED pending
  /\ UNCHANGED <<handling, cause, groups, status, late, command, proven>>

(* SIGKILL from outside. *)
Killed ==
  /\ pc \notin {"exit", "killed"}
  /\ pc' = "killed"
  /\ UNCHANGED <<wrapper, late, command, arrived, proven>>

-----------------------------------------------------------------------------
(* main.                                                                   *)

Install ==
  /\ Go("start", "launch")
  /\ handling' = TRUE
  /\ UNCHANGED <<pending, cause, groups, status, late, command, arrived, proven>>

Launch ==
  /\ Go("launch", "poll")
  /\ leader' = "alive"
  /\ UNCHANGED <<wrapper, late, others, helper, arrived, proven>>

LaunchFails ==
  /\ Go("launch", "exit")
  /\ status' = Reported("launch_failed", 127)
  /\ UNCHANGED <<handling, pending, cause, groups, late, command, arrived, proven>>

(* proc.poll(), then the pending signal, then the clock: three looks.      *)
Poll ==
  /\ pc = "poll"
  /\ pc' = IF leader = "alive" THEN "look" ELSE "leftover"
  /\ UNCHANGED <<wrapper, late, command, arrived, proven>>

BugSelfDeadlineIgnored ==
  /\ pc = "look"
  /\ cause' = IF pending # 0 THEN "signal" ELSE "none"
  /\ pc' = IF cause' = "none" THEN "poll" ELSE "snapshot"
  /\ UNCHANGED <<handling, pending, groups, status, late, command, arrived, proven>>

Look ==
  /\ pc = "look"
  /\ cause' = CASE pending # 0 -> "signal" [] pending = 0 /\ late -> "deadline" [] OTHER -> "none"
  /\ pc' = IF cause' = "none" THEN "poll" ELSE "snapshot"
  /\ UNCHANGED <<handling, pending, groups, status, late, command, arrived, proven>>

(* _stop_group: the groups are listed once, before the first signal.       *)
Snapshot ==
  /\ Go("snapshot", "grace")
  /\ \/ groups' = {"main"} \cup (IF helper = "child" THEN {"helper"} ELSE {})
     \/ PsMayFail /\ groups' = {"main"}
  /\ proven' = (proven \/ "helper" \in groups')
  /\ UNCHANGED <<handling, pending, cause, status, late, command, arrived>>

(* Every group is gone, or the grace period is over.                       *)
GraceOver ==
  /\ Go("grace", "kill")
  /\ UNCHANGED <<wrapper, late, command, arrived, proven>>

Kill ==
  /\ Go("kill", "reap")
  /\ leader' = "gone"
  /\ others' = IF others = "alive" THEN "gone" ELSE others
  /\ helper' = IF "helper" \in groups THEN "gone" ELSE Adrift(helper)
  /\ UNCHANGED <<wrapper, late, arrived, proven>>

Reap ==
  /\ Go("reap", "leftover")
  /\ UNCHANGED <<wrapper, late, command, arrived, proven>>

(* The leader is gone: is there anything left in its group?                *)
BugTrustLeader ==
  /\ Go("leftover", "restore")
  /\ UNCHANGED <<wrapper, late, command, arrived, proven>>

Leftover ==
  /\ pc = "leftover"
  /\ pc' = IF others = "alive" THEN "snapshot" ELSE "restore"
  /\ UNCHANGED <<wrapper, late, command, arrived, proven>>

Restore ==
  /\ Go("restore", "report")
  /\ handling' = FALSE
  /\ UNCHANGED <<pending, cause, groups, status, late, command, arrived, proven>>

BugReportCause ==
  /\ Go("report", "exit")
  /\ status' = Reported(cause, 124)
  /\ UNCHANGED <<handling, pending, cause, groups, late, command, arrived, proven>>

Report ==
  /\ Go("report", "exit")
  /\ status' = CASE cause = "deadline" -> Reported("deadline", 124)
                 [] cause = "signal"   -> Reported("external_signal", 128 + pending)
                 [] cause = "none"     -> Reported("process_exit", 0)
  /\ UNCHANGED <<handling, pending, cause, groups, late, command, arrived, proven>>

-----------------------------------------------------------------------------
MainStep ==
  \/ Install \/ Launch \/ LaunchFails \/ Poll \/ Look \/ Snapshot \/ GraceOver
  \/ Kill \/ Reap \/ Leftover \/ Restore \/ Report

Next ==
  \/ MainStep \/ Killed \/ (\E s \in Signals : Signal(s))
  \/ StartOther \/ StartHelper \/ LeaderEnds \/ OtherEnds \/ HelperEnds
  \/ ClockReachesDeadline

Spec == Init /\ [][Next]_vars

(* The wrapper runs and the clock advances; the command owes nothing.      *)
FairSpec == Spec /\ WF_vars(MainStep) /\ WF_vars(ClockReachesDeadline)

-----------------------------------------------------------------------------
(* Properties.                                                             *)

(* The wrapper ends with nothing of the command's group running, not after *)
(* a deadline or a signal and not after a leader that left others behind;  *)
(* and a helper in a session of its own that was found when the command    *)
(* was stopped is gone by then, wherever it got to meanwhile.              *)
NothingIsLeft ==
  /\ pc \in {"restore", "report", "exit"} => leader # "alive" /\ others # "alive"
  /\ pc = "exit" /\ proven => helper = "gone"

(* The status file tells who ended the command: the deadline only after it *)
(* passed, a signal with the number of the first one that arrived and not  *)
(* of a later one.                                                         *)
StatusIsTrue ==
  /\ status.reason = "deadline" => late
  /\ status.reason = "external_signal" => arrived # <<>> /\ status.code = 128 + arrived[1]

(* The wrapper ends, whatever the command does: by its end, or by KILL.    *)
WrapperEnds == <>(pc \in {"exit", "killed"})

=============================================================================
