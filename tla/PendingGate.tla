---------------------------- MODULE PendingGate ----------------------------
(***************************************************************************)
(* The human's gate over git: progress.json in three repositories. The     *)
(* machine works on the remote's head (its own checkout is pulled before   *)
(* and pushed after each step, and approve-gate.sh commits there). The     *)
(* console (server.py) has one clone, which its poller and every request   *)
(* thread pull into, write and commit from with no lock between them.      *)
(*                                                                         *)
(* A progress.json is the gate's id, its decision, and one number for all  *)
(* the other fields; what a write has truncated and not filled yet is torn.*)
(***************************************************************************)
EXTENDS Naturals, Sequences

CONSTANTS
  Requests,  (* requests of the console's page, each for the gate it shows  *)
  MaxCommits (* bounds the history                                          *)

Actions == {"approve", "reject"}
NoGate  == 0
Torn    == [work |-> 0, gate |-> NoGate, decision |-> "torn"]
First   == [work |-> 1, gate |-> NoGate, decision |-> "none"]

VARIABLES
  remote,  (* the remote's history of progress.json                         *)
  head,    (* the console clone's                                           *)
  tree,    (* progress.json in the console's working tree                   *)
  index,   (* and in its index                                              *)
  req      (* [Requests -> the thread: pc, gate asked for, what it read]    *)

vars == <<remote, head, tree, index, req>>

Init ==
  /\ remote = <<First>> /\ head = <<First>> /\ tree = First /\ index = First
  /\ req = [r \in Requests |->
              [pc |-> "idle", gate |-> NoGate, action |-> "approve", prog |-> Torn]]

Latest(history) == history[Len(history)]
Extends(longer, shorter) ==
  Len(shorter) <= Len(longer) /\ SubSeq(longer, 1, Len(shorter)) = shorter

At(r, pc)   == req[r].pc = pc
Goto(r, pc) == req' = [req EXCEPT ![r].pc = pc]
Fail(r)     == Goto(r, "failed")

(* git pull --ff-only: it does nothing, and nobody looks, when the clone   *)
(* has commits of its own or the file is being changed.                    *)
PullWorks == Extends(remote, head) /\ tree = Latest(head) /\ index = Latest(head)
Pull ==
  IF PullWorks
  THEN head' = remote /\ tree' = Latest(remote) /\ index' = Latest(remote)
  ELSE UNCHANGED <<head, tree, index>>

(* refresh, by the poller or by a page that asks for it. *)
Refresh == PullWorks /\ Pull /\ UNCHANGED <<remote, req>>

(* decide begins: the page showed this gate. *)
Decide(r) ==
  /\ At(r, "idle") /\ tree.gate # NoGate
  /\ \E action \in Actions :
       req' = [req EXCEPT ![r].pc = "read", ![r].gate = tree.gate, ![r].action = action]
  /\ Pull
  /\ UNCHANGED remote

(* No gate, another gate, or a decision is there: refused. *)
ReadProgress(r) ==
  /\ At(r, "read")
  /\ IF tree.gate = req[r].gate /\ tree.decision = "none"
     THEN req' = [req EXCEPT ![r].pc = "write", ![r].prog = tree]
     ELSE Fail(r)
  /\ UNCHANGED <<remote, head, tree, index>>

(* open(..., "w") empties the file, json.dump fills it: with all that was  *)
(* read, and the decision.                                                 *)
Truncate(r) ==
  /\ At(r, "write") /\ Goto(r, "fill")
  /\ tree' = Torn
  /\ UNCHANGED <<remote, head, index>>

Fill(r) ==
  /\ At(r, "fill") /\ Goto(r, "schema")
  /\ tree' = [req[r].prog EXCEPT !.decision = req[r].action]
  /\ UNCHANGED <<remote, head, index>>

(* The project's validator; git checkout takes back what it refuses. *)
ValidateSchema(r) ==
  /\ At(r, "schema")
  /\ IF tree = Torn
     THEN Fail(r) /\ tree' = index
     ELSE Goto(r, "add") /\ UNCHANGED tree
  /\ UNCHANGED <<remote, head, index>>

Add(r) ==
  /\ At(r, "add") /\ Goto(r, "commit")
  /\ index' = tree
  /\ UNCHANGED <<remote, head, tree>>

(* git commit takes the index, and fails when it has nothing new. *)
Commit(r) ==
  /\ At(r, "commit")
  /\ IF index = Latest(head)
     THEN Fail(r) /\ UNCHANGED head
     ELSE Goto(r, "push") /\ head' = Append(head, index)
  /\ UNCHANGED <<remote, tree, index>>

(* A push that is refused is only reported. *)
Push(r) ==
  /\ At(r, "push") /\ Goto(r, "answered")
  /\ remote' = IF Extends(head, remote) THEN head ELSE remote
  /\ UNCHANGED <<head, tree, index>>

(* The machine, and approve-gate.sh on it. *)
MachineCommits(prog) ==
  /\ Len(remote) < MaxCommits /\ Latest(remote) # Torn
  /\ remote' = Append(remote, prog)
  /\ UNCHANGED <<head, tree, index, req>>

Machine ==
  LET prog == Latest(remote) IN
  \/ MachineCommits([prog EXCEPT !.work = @ + 1])
  \/ /\ prog.gate = NoGate
     /\ MachineCommits([prog EXCEPT !.gate = Len(remote), !.work = @ + 1])
  \/ /\ prog.decision \in Actions
     /\ MachineCommits([prog EXCEPT !.gate = NoGate, !.decision = "none", !.work = @ + 1])
  \/ /\ prog.gate # NoGate /\ prog.decision = "none"
     /\ \E action \in Actions : MachineCommits([prog EXCEPT !.decision = action])

Next ==
  \/ Refresh \/ Machine
  \/ \E r \in Requests :
       \/ Decide(r) \/ ReadProgress(r) \/ Truncate(r) \/ Fill(r)
       \/ ValidateSchema(r) \/ Add(r) \/ Commit(r) \/ Push(r)

Spec == Init /\ [][Next]_vars

-----------------------------------------------------------------------------

(* "The console writes only the one field pending_gate.decision and does   *)
(* not touch status or features": a commit of the console differs from the *)
(* commit before it in the decision alone.                                 *)
ConsoleWritesOnlyDecision ==
  [][Len(head') = Len(head) + 1 /\ (\E r \in Requests : At(r, "commit") /\ req'[r].pc = "push") =>
       Latest(head') = [Latest(head) EXCEPT !.decision = Latest(head').decision]]_vars

=============================================================================
