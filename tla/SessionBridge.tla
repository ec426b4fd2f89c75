--------------------------- MODULE SessionBridge ---------------------------
(***************************************************************************)
(* One native Agent session over ACP: run_acp_native_agent of              *)
(* session_bridge_kimi.py, the vendor's process group, and, when the       *)
(* session is contained, session-bridge.py around it and the root          *)
(* supervisor of vm-bridge-worker.py, whose group the vendor then shares.  *)
(* A direct session has a group of its own and is signalled from outside;  *)
(* a contained one only by its worker.                                     *)
(*                                                                         *)
(* The vendor announces its children in order and truthfully, but may do   *)
(* anything else: fail a request, ask, swarm, leave helpers in the group,  *)
(* ignore SIGTERM and its input, say nothing. One that leaves the group is *)
(* the cgroup's (VMBridge).                                                *)
(***************************************************************************)
EXTENDS Naturals, Sequences, FiniteSets

CONSTANTS
  Calls,      (* children the vendor may start                              *)
  MaxSignals, (* SIGTERMs and SIGINTs a direct bridge may be sent           *)
  MaxEvents,  (* _MAX_PEER_EVENT_COUNT                                      *)
  MaxWire     (* messages the vendor may be ahead of the bridge             *)

ASSUME MaxAssumption == {MaxSignals, MaxEvents, MaxWire} \subseteq Nat

VARIABLES
  mode,   (* "direct" | "contained"                                         *)
  b,      (* the bridge: pc, requests sent, events read, handler's state    *)
  seen,   (* the updates that came with the answer to the prompt            *)
  home,   (* the ephemeral KIMI_CODE_HOME exists                            *)
  group,  (* vendor processes alive in the group                            *)
  wire,   (* what the vendor wrote and the bridge has not taken             *)
  v,      (* the vendor: answers given, children at its last answer         *)
  call,   (* [Calls -> the child itself]                                    *)
  w,      (* the worker: pc, exit status expected, cancelled                *)
  pipe,   (* the result pipe holds a result                                 *)
  receipt,(* the root receipt is written                                    *)
  signals,(* signals sent to the direct bridge                              *)
  late    (* exceptions raised inside its finally                           *)

bridge == <<b, seen, home>>
vendor == <<wire, v, call>>
worker == <<w, receipt>>
vars   == <<mode, bridge, group, vendor, worker, pipe, signals, late>>

Requests == 4         (* initialize, new, set_config_option, prompt *)
Body     == {"armed", "home", "checked", "spawn", "bind", "bound", "send", "recv", "check"}
Leaving  == {"close", "term", "reap", "unbind", "remove", "restore"}
Handled  == Body \cup Leaving
BridgeOver == {"over", "dead"}
BridgePCs  == {"none", "begin", "report"} \cup Handled \cup BridgeOver

Members  == {"leader", "helper"}
Kinds    == {"reply", "ask", "swarm", "agent", "input", "end"}
NoCall   == "root"
Messages == [t : Kinds, c : Calls \cup {NoCall}, ok : BOOLEAN]
Fresh    == [at |-> "none", nonce |-> FALSE]

WorkerPCs == {"none", "prep", "started", "wait", "reap", "gone", "read", "prove", "over"}
(* The worker's own handlers are in place. *)
Guarding  == {"wait", "reap", "gone", "read", "prove"}

(* The shape of the state. *)
TypeOK ==
  /\ mode \in {"direct", "contained"}
  /\ b \in [pc : BridgePCs, req : 0..Requests, read : 0..MaxEvents,
            bound : BOOLEAN, pending : BOOLEAN, proof : BOOLEAN]
  /\ seen \subseteq Messages /\ home \in BOOLEAN
  /\ group \subseteq Members
  /\ wire \in Seq(Messages)
  /\ v \in [replies : 0..Requests, kids : SUBSET Calls, told : SUBSET Kinds]
  /\ call \in [Calls -> [at : {"none", "started", "given", "done", "failed"}, nonce : BOOLEAN]]
  /\ w \in [pc : WorkerPCs, ok : BOOLEAN]
  /\ pipe \in BOOLEAN /\ receipt \in BOOLEAN
  /\ signals \in 0..MaxSignals /\ late \in 0..(MaxSignals + 1)

Init ==
  /\ mode \in {"direct", "contained"}
  /\ b = [pc |-> IF mode = "direct" THEN "begin" ELSE "none", req |-> 0, read |-> 0,
          bound |-> FALSE, pending |-> FALSE, proof |-> FALSE]
  /\ seen = {} /\ home = FALSE /\ group = {} /\ wire = <<>>
  /\ v = [replies |-> 0, kids |-> {}, told |-> {}]
  /\ call = [c \in Calls |-> Fresh]
  /\ w = [pc |-> IF mode = "direct" THEN "none" ELSE "prep", ok |-> TRUE]
  /\ pipe = FALSE /\ receipt = FALSE /\ signals = 0 /\ late = 0

-----------------------------------------------------------------------------
(* The bridge.                                                             *)

At(pc)    == b.pc = pc
Goto(pc)  == b' = [b EXCEPT !.pc = pc]
(* An exception: the first finally, or the second when nothing was started. *)
Raise(pc) == b' = [b EXCEPT !.pc = pc, !.proof = FALSE]

(* raise_if_interrupted: the group it knows is killed.                     *)
Interrupted(next, out) ==
  IF b.pending
  THEN Raise(out) /\ group' = IF b.bound THEN {} ELSE group
  ELSE Goto(next) /\ UNCHANGED group

(* main and run_bridge of session-bridge.py before they call the driver:   *)
(* the result pipe, protocol, envelope, persona, nonce or path is refused. *)
RefuseSession ==
  /\ mode = "contained" /\ At("begin") /\ Raise("over")
  /\ UNCHANGED <<seen, home, group>>

InstallHandlers ==
  /\ At("begin") /\ Goto("armed")
  /\ UNCHANGED <<seen, home, group>>

CheckInterrupt ==
  /\ \/ At("armed") /\ Interrupted("home", "remove")
     \/ At("checked") /\ Interrupted("spawn", "remove")
     \/ At("bound") /\ Interrupted("send", "close")
  /\ UNCHANGED <<seen, home>>

(* _provider_worker_environment. *)
MakeHome ==
  /\ At("home")
  /\ \/ home' = TRUE /\ Goto("checked")
     \/ UNCHANGED home /\ Raise("remove")
  /\ UNCHANGED <<seen, group>>

Popen ==
  /\ At("spawn")
  /\ \/ group' = {"leader"} /\ Goto("bind")
     \/ UNCHANGED group /\ Raise("remove")
  /\ UNCHANGED <<seen, home>>

(* Only a direct session has a group the handler may kill. *)
BindGroup ==
  /\ At("bind")
  /\ b' = [b EXCEPT !.pc = "bound", !.bound = (mode = "direct")]
  /\ UNCHANGED <<seen, home, group>>

(* request: the line is written, with no deadline of its own; a vendor     *)
(* that does not read blocks it, one that closed its input breaks it.      *)
SendRequest ==
  /\ At("send")
  /\ \/ group # {} /\ b' = [b EXCEPT !.pc = "recv", !.req = @ + 1]
     \/ "leader" \notin group /\ Raise("close")
  /\ UNCHANGED <<seen, home, group>>

(* The reader thread's budget. *)
OverBudget == b.read = MaxEvents

Answered(msg) == msg.t = "reply" /\ msg.ok

(* _receive: the reader thread's queue keeps the order of the wire, and    *)
(* its budget ends it with an error. An answer that the vendor gave is to  *)
(* the request last sent.                                                  *)
ReceiveMessage ==
  /\ At("recv") /\ wire # <<>>
  /\ LET msg == Head(wire) IN
     CASE OverBudget \/ msg.t = "ask" -> Raise("close") /\ UNCHANGED seen
       [] ~OverBudget /\ msg.t = "reply" ->
            /\ IF ~Answered(msg) THEN Raise("close")
               ELSE b' = [b EXCEPT !.pc = IF b.req = Requests THEN "check" ELSE "send",
                                   !.read = @ + 1]
            /\ UNCHANGED seen
       [] OTHER -> /\ b' = [b EXCEPT !.read = @ + 1]
                   /\ seen' = IF b.req = Requests THEN seen \cup {msg} ELSE seen
  /\ wire' = Tail(wire)
  /\ UNCHANGED <<home, group>>

BugEndOfStreamOnly ==
  /\ At("recv") /\ group = {} /\ Raise("close")
  /\ UNCHANGED <<seen, home, group>>

(* The deadline, or the end of the stream: a helper that holds stdout puts *)
(* that off.                                                               *)
StopReceiving ==
  /\ At("recv") /\ Raise("close")
  /\ UNCHANGED <<seen, home, group>>

BugAnyCompletion ==
  LET agents == {msg.c : msg \in {u \in seen : u.t = "agent"}} IN
  /\ \A msg \in seen : msg.t # "swarm"
  /\ Cardinality(agents) = 1
  /\ \A c \in agents :
       \E done \in seen : done.t = "end" /\ done.ok

(* Exactly one native Agent call, given the nonce and the persona's type,  *)
(* and seen to complete under the same call id.                            *)
ChildProved ==
  LET agents == {msg.c : msg \in {u \in seen : u.t = "agent"}} IN
  /\ \A msg \in seen : msg.t # "swarm"
  /\ Cardinality(agents) = 1
  /\ \A c \in agents :
       /\ \E given \in seen : given.t = "input" /\ given.c = c /\ given.ok
       /\ \E done \in seen : done.t = "end" /\ done.c = c /\ done.ok

(* The terminal message, where it is the deliverable, may be missing or    *)
(* find its file there.                                                    *)
CheckUpdates ==
  /\ At("check")
  /\ \/ ChildProved /\ b' = [b EXCEPT !.pc = "close", !.proof = TRUE]
     \/ Raise("close")
  /\ UNCHANGED <<seen, home, group>>

(* The peer and its updates are forgotten.                                 *)
CloseInput ==
  /\ At("close")
  /\ b' = [b EXCEPT !.pc = "term", !.req = 0, !.read = 0]
  /\ seen' = {} /\ wire' = <<>>
  /\ UNCHANGED <<home, group>>

(* _terminate_process: a direct bridge asks its group first ... *)
TerminateProcess ==
  /\ At("term") /\ Goto("reap")
  /\ IF mode = "direct" THEN group' \in SUBSET group ELSE UNCHANGED group
  /\ UNCHANGED <<seen, home>>

BugLeaderOnly ==
  /\ At("reap") /\ Goto("unbind")
  /\ group' = IF mode = "direct" THEN group \ {"leader"} ELSE group
  /\ UNCHANGED <<seen, home>>

(* ... and kills what is left of it after two waits of two seconds; a      *)
(* killed member still to be reaped may be taken for a live one. A         *)
(* contained bridge waits two seconds and leaves the rest to the worker.   *)
ReapGroup ==
  /\ At("reap")
  /\ IF mode = "direct"
     THEN group' = {} /\ (Goto("unbind") \/ (group # {} /\ Raise("remove")))
     ELSE UNCHANGED group /\ Goto("unbind")
  /\ UNCHANGED <<seen, home>>

UnbindGroup ==
  /\ At("unbind")
  /\ b' = [b EXCEPT !.pc = "remove", !.bound = FALSE]
  /\ UNCHANGED <<seen, home, group>>

(* A vendor that is still there may make its home again. *)
RemoveHome ==
  /\ At("remove")
  /\ IF group = {} THEN home' = FALSE ELSE home' \in {FALSE, home}
  /\ IF home' THEN Raise("restore") ELSE Goto("restore")
  /\ UNCHANGED <<seen, group>>

RestoreHandlers ==
  /\ At("restore")
  /\ b' = [b EXCEPT !.bound = FALSE,
                    !.pc = IF mode = "contained" /\ b.proof THEN "report" ELSE "over"]
  /\ UNCHANGED <<seen, home, group>>

(* run_bridge may still refuse the artifact; _write_result_fd. *)
Report ==
  /\ At("report")
  /\ \/ Goto("over") /\ pipe' = TRUE
     \/ Raise("over") /\ UNCHANGED pipe
  /\ UNCHANGED <<seen, home, group>>

BridgeStep ==
  /\ \/ RefuseSession \/ InstallHandlers \/ CheckInterrupt \/ MakeHome \/ Popen \/ BindGroup
     \/ StopReceiving \/ CheckUpdates
     \/ TerminateProcess \/ ReapGroup \/ UnbindGroup \/ RemoveHome \/ RestoreHandlers
  /\ late' = IF At("reap") /\ b'.pc = "remove" THEN late + 1 ELSE late
  /\ UNCHANGED <<mode, vendor, worker, pipe, signals>>

Closes   == CloseInput /\ UNCHANGED <<mode, v, call, worker, pipe, signals, late>>
Sends    == SendRequest /\ UNCHANGED <<mode, vendor, worker, pipe, signals, late>>
Receives == ReceiveMessage /\ UNCHANGED <<mode, v, call, worker, pipe, signals, late>>
Reports  == Report /\ UNCHANGED <<mode, vendor, worker, signals, late>>

(* SIGTERM or SIGINT at the bridge: before its handlers and after them it  *)
(* dies; with no group bound it takes a note; else it kills the group and  *)
(* raises where it is, which inside a finally skips the rest of that.      *)
BridgeSignalled ==
  CASE b.pc \notin Handled ->
         b' = [b EXCEPT !.pc = IF @ \in BridgeOver THEN @ ELSE "dead", !.proof = FALSE]
    [] b.pc \in Handled /\ ~b.bound -> b' = [b EXCEPT !.pending = TRUE]
    [] OTHER ->
         b' = [b EXCEPT !.pending = TRUE, !.proof = FALSE,
                        !.pc = CASE @ \in Body -> "close"
                                 [] @ \in {"close", "term", "reap", "unbind"} -> "remove"
                                 [] @ = "remove" -> "restore"
                                 [] OTHER -> "over"]

Signal ==
  /\ mode = "direct" /\ signals < MaxSignals
  /\ BridgeSignalled
  /\ group' = IF b.bound THEN {} ELSE group
  /\ signals' = signals + 1
  /\ late' = IF b.pc \in Leaving /\ b.bound THEN late + 1 ELSE late
  /\ UNCHANGED <<mode, seen, home, vendor, worker, pipe>>

-----------------------------------------------------------------------------
(* The worker.                                                             *)

WorkerTo(pc) == w' = [w EXCEPT !.pc = pc]
Exited       == b.pc \in BridgeOver
Others       == <<mode, vendor, signals, late>>

(* The layout, the envelope, the target and the runner beside the worker   *)
(* are checked, and the state of the session is made.                      *)
RefuseRun ==
  /\ w.pc = "prep" /\ w' = [pc |-> "over", ok |-> FALSE]
  /\ UNCHANGED <<Others, bridge, group, pipe, receipt>>

(* The bridge gets a session of its own, and the pipe's only writing end.  *)
StartBridge ==
  /\ w.pc = "prep" /\ WorkerTo("started") /\ Goto("begin")
  /\ UNCHANGED <<Others, seen, home, group, pipe, receipt>>

(* _owned_process_group may fail; nobody reaps the bridge then.            *)
GuardBridge ==
  /\ w.pc = "started"
  /\ WorkerTo("wait") \/ w' = [pc |-> "over", ok |-> FALSE]
  /\ UNCHANGED <<Others, bridge, group, pipe, receipt>>

(* process.wait: the runner's exit status, or timeout_s are over. *)
AwaitBridge ==
  /\ w.pc = "wait"
  /\ \/ Exited /\ w' = [w EXCEPT !.pc = "reap", !.ok = b.proof]
     \/ w' = [w EXCEPT !.pc = "reap", !.ok = FALSE]
  /\ UNCHANGED <<Others, bridge, group, pipe, receipt>>

(* The handler reaps the group first, wherever the worker is, and raises;  *)
(* before that is installed the worker dies, and its unit ends the rest.   *)
CancelWorker ==
  /\ w.pc \notin {"none", "over"}
  /\ w' = [pc |-> CASE w.pc \in {"reap", "gone"} -> w.pc
                    [] w.pc \in Guarding -> "reap"
                    [] OTHER -> "over",
           ok |-> FALSE]
  /\ UNCHANGED <<Others, bridge, group, pipe, receipt>>

(* reap_group: SIGTERM to all of them, of which the vendor's do with it    *)
(* what they like ...                                                      *)
TermGroup ==
  /\ w.pc = "reap" /\ WorkerTo("gone")
  /\ BridgeSignalled /\ group' \in SUBSET group
  /\ UNCHANGED <<Others, seen, home, pipe, receipt>>

BugExitIsEnough ==
  /\ w.pc = "gone"
  /\ \/ Exited /\ UNCHANGED <<b, group>>
     \/ b' = [b EXCEPT !.pc = IF Exited THEN @ ELSE "dead"] /\ group' = {}
  /\ WorkerTo(IF w.ok THEN "read" ELSE "over")
  /\ UNCHANGED <<Others, seen, home, pipe, receipt>>

(* ... and SIGKILL to those still there after the waits, which a process   *)
(* waiting to be reaped may make it give up on.                            *)
AwaitGroup ==
  /\ w.pc = "gone"
  /\ \/ Exited /\ group = {} /\ UNCHANGED <<b, group>>
     \/ b' = [b EXCEPT !.pc = IF Exited THEN @ ELSE "dead"] /\ group' = {}
  /\ \/ WorkerTo(IF w.ok THEN "read" ELSE "over")
     \/ group # {} /\ w' = [pc |-> "over", ok |-> FALSE]
  /\ UNCHANGED <<Others, seen, home, pipe, receipt>>

(* _read_result_pipe: one whole result, and nobody left to write. *)
ReadResult ==
  /\ w.pc = "read"
  /\ IF pipe THEN WorkerTo("prove") ELSE w' = [pc |-> "over", ok |-> FALSE]
  /\ UNCHANGED <<Others, bridge, group, pipe, receipt>>

(* _validate_result may refuse it; _write_root_receipt. *)
WriteReceipt ==
  /\ w.pc = "prove"
  /\ \/ WorkerTo("over") /\ receipt' = TRUE
     \/ w' = [pc |-> "over", ok |-> FALSE] /\ UNCHANGED receipt
  /\ UNCHANGED <<Others, bridge, group, pipe>>

WorkerStep ==
  \/ RefuseRun \/ StartBridge \/ GuardBridge
  \/ AwaitBridge \/ TermGroup \/ AwaitGroup \/ ReadResult \/ WriteReceipt

-----------------------------------------------------------------------------
(* The vendor.                                                             *)

Program == <<mode, bridge, worker, pipe, signals, late>>
Msg(t, c, ok) == [t |-> t, c |-> c, ok |-> ok]
(* What it says after the last request nobody reads. *)
Says(msg) ==
  /\ "leader" \in group /\ At("recv") /\ Len(wire) < MaxWire
  /\ wire' = Append(wire, msg)
  /\ UNCHANGED <<Program, group>>

(* With a result, or with an error or a stop for another reason. The       *)
(* answer to the prompt ends the turn, but not what still runs.            *)
Answer(ok) ==
  /\ v.replies < b.req
  /\ Says(Msg("reply", NoCall, ok))
  /\ v' = [v EXCEPT !.replies = @ + 1,
                    !.kids = IF v.replies + 1 = Requests
                             THEN {c \in Calls : call[c] # Fresh} ELSE @]
  /\ UNCHANGED call

(* A reverse request or an AgentSwarm: each once. *)
Misbehave(t) ==
  /\ t \notin v.told
  /\ Says(Msg(t, NoCall, FALSE))
  /\ v' = [v EXCEPT !.told = @ \cup {t}]
  /\ UNCHANGED call

CallStep(c, from, to, msg) ==
  /\ call[c].at \in from
  /\ call' = [call EXCEPT ![c].at = to, ![c].nonce = @ \/ (msg.t = "input" /\ msg.ok)]
  /\ Says(msg)
  /\ UNCHANGED v

(* A child is begun, told what to do - with the launch's nonce and type or *)
(* with others -, and ends well or not.                                    *)
Child(c) ==
  \/ b.req = Requests /\ CallStep(c, {"none"}, "started", Msg("agent", c, TRUE))
  \/ \E ok \in BOOLEAN :
       \/ CallStep(c, {"started"}, "given", Msg("input", c, ok))
       \/ CallStep(c, {"started", "given"}, IF ok THEN "done" ELSE "failed", Msg("end", c, ok))

(* Processes of the group come and go while there is one. *)
GroupChanges ==
  /\ group # {}
  /\ group' \in {group \ {m} : m \in Members} \cup {group \cup {"helper"}}
  /\ UNCHANGED <<Program, vendor>>

VendorStep ==
  \/ \E ok \in BOOLEAN : Answer(ok)
  \/ \E t \in {"ask", "swarm"} : Misbehave(t)
  \/ \E c \in Calls : Child(c)
  \/ GroupChanges

Next ==
  \/ BridgeStep \/ Closes \/ Sends \/ Receives \/ Reports \/ Signal
  \/ WorkerStep \/ CancelWorker
  \/ VendorStep

(* The bridge and the worker run, their timeouts expire. Nothing makes the *)
(* vendor read its input or say anything.                                  *)
Fairness == WF_vars(BridgeStep \/ Closes \/ Reports) /\ WF_vars(WorkerStep)

Spec == Init /\ [][Next]_vars /\ Fairness

-----------------------------------------------------------------------------
(* Properties.                                                             *)

(* A proof, and the receipt made from it, is about a session whose vendor  *)
(* had started one child by the time it answered the prompt, with the      *)
(* launch's nonce, and that child had completed: not another's completion, *)
(* not the vendor's word for it, not one of two.                           *)
OneChildProved ==
  b.proof \/ receipt =>
    \E c \in Calls : v.kids = {c} /\ call[c].at = "done" /\ call[c].nonce

(* A direct session that is over, however signals fell, has nobody left in *)
(* its group, and no private state left unless its cleanup was interrupted *)
(* twice; and a worker reads a result only when nobody is left in the      *)
(* bridge's group to change what it speaks of.                             *)
NothingLeftBehind ==
  /\ mode = "direct" /\ Exited => group = {} /\ (late <= 1 => ~home)
  /\ w.pc \in {"read", "prove"} \/ receipt => Exited /\ group = {}

(* A vendor that says nothing, or holds the stream open, keeps neither a   *)
(* worker nor a bridge that has sent its prompt.                           *)
SessionEnds ==
  /\ w.pc = "prep" ~> w.pc = "over"
  /\ mode = "direct" /\ At("recv") /\ b.req = Requests ~> Exited

=============================================================================
