--------------------------- MODULE TaskLifecycle ----------------------------
(***************************************************************************)
(* What an A2A runner promises about a delegated task, without threads,    *)
(* slots, processes of its own, shutdowns or crashes: a task id goes once  *)
(* through NONE, SUBMITTED, WORKING and a final state, its sandbox is      *)
(* started at most once and only after the step to WORKING, and the final  *)
(* state is chosen once.  A2ARunner implements it.                         *)
(***************************************************************************)
EXTENDS TaskStore

CONSTANT Tasks

VARIABLES
  state,     (* the state of a task, "NONE" before it is submitted         *)
  complete,  (* its event log is published to the end                      *)
  permit,    (* somebody holds the right, and the duty, to launch it       *)
  launched   (* its sandbox was started                                    *)

lifecycle == <<state, complete, permit, launched>>

LifecycleInit ==
  /\ state = [t \in Tasks |-> "NONE"]
  /\ complete = [t \in Tasks |-> FALSE]
  /\ permit = [t \in Tasks |-> FALSE]
  /\ launched = [t \in Tasks |-> FALSE]

Submit(t) ==
  /\ state[t] = "NONE"
  /\ state' = [state EXCEPT ![t] = "SUBMITTED"]
  /\ UNCHANGED <<complete, permit, launched>>

(* The winner of SUBMITTED -> WORKING gets the one permit of the task.     *)
Begin(t) ==
  /\ state[t] = "SUBMITTED"
  /\ state' = [state EXCEPT ![t] = "WORKING"]
  /\ permit' = [permit EXCEPT ![t] = TRUE]
  /\ UNCHANGED <<complete, launched>>

Launch(t) ==
  /\ permit[t] /\ ~launched[t]
  /\ permit' = [permit EXCEPT ![t] = FALSE]
  /\ launched' = [launched EXCEPT ![t] = TRUE]
  /\ UNCHANGED <<state, complete>>

(* The launch fails: its permit is given up for good. *)
GiveUp(t) ==
  /\ permit[t]
  /\ permit' = [permit EXCEPT ![t] = FALSE]
  /\ UNCHANGED <<state, complete, launched>>

(* Settle(t, s, c): a final state, published to the end or not (a crash).  *)
Settle(t, s, c) ==
  /\ state[t] \in Active
  /\ state' = [state EXCEPT ![t] = s]
  /\ complete' = [complete EXCEPT ![t] = c]
  /\ UNCHANGED <<permit, launched>>

(* A crash takes every permit away; the write it tears, if any, was that   *)
(* of a submission, of a claim or of a final state.                        *)
Crashes ==
  /\ permit' = [t \in Tasks |-> FALSE]
  /\ \/ UNCHANGED <<state, complete>>
     \/ \E t \in Tasks :
          /\ \/ state[t] = "NONE" /\ state' = [state EXCEPT ![t] = "SUBMITTED"]
             \/ state[t] = "SUBMITTED" /\ state' = [state EXCEPT ![t] = "WORKING"]
             \/ \E s \in Final : state[t] \in Active /\ state' = [state EXCEPT ![t] = s]
          /\ UNCHANGED complete
  /\ UNCHANGED launched

LifecycleNext ==
  \/ \E t \in Tasks :
       \/ Submit(t) \/ Begin(t) \/ Launch(t) \/ GiveUp(t)
       \/ \E s \in Final, c \in BOOLEAN : Settle(t, s, c)
  \/ Crashes

LifecycleSpec == LifecycleInit /\ [][LifecycleNext]_lifecycle

=============================================================================
