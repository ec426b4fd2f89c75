----------------------------- MODULE A2ARunner ------------------------------
(***************************************************************************)
(* One A2A runner process (transports/a2a-runner.py): JSON-RPC handler     *)
(* threads, one execution thread per task, the cancel threads, the         *)
(* coordinated shutdown, and its crashes and restarts over one state       *)
(* directory.                                                              *)
(*                                                                         *)
(* A thread's program counter stands between two of its accesses to state  *)
(* other threads share; whatever the code does under one lock is one step. *)
(***************************************************************************)
EXTENDS TaskStore

CONSTANTS
  Tasks,      (* task ids a client may send                                *)
  Handlers,   (* HTTP handler threads                                      *)
  Stalls,     (* may an execution thread stall for a whole shutdown_timeout
                 between being registered and publishing its process?      *)
  MaxStarts   (* bound: how often the runner is started on this directory  *)

ASSUME StallsAssumption    == Stalls \in BOOLEAN
ASSUME MaxStartsAssumption == MaxStarts \in Nat

VARIABLES
  disk,          (* [Tasks -> Disk], survives a crash                      *)
  proc,          (* the sandbox process group of a task, survives a crash  *)
  launches,      (* history: how many sandboxes were ever started          *)
  starts,        (* history: how many times the runner was started         *)
  mode,          (* "off", "recover" (main before bind), "serve"           *)
  shuttingDown,  (* Executor.shutting_down                                 *)
  slot,          (* the _Slot of a task; reg: it is in Executor._slots     *)
  run,           (* pc of Executor._run of a task                          *)
  out,           (* the verdict _run is about to finalize with             *)
  job,           (* a handler's or a shutdown cancel thread's current call *)
  sd, pass,      (* pc of shutdown_all, and which of its two calls         *)
  active         (* the ACTIVE tasks shutdown_all listed                   *)

vars == <<disk, proc, launches, starts, mode, shuttingDown, slot, run, out,
          job, sd, pass, active>>

execVars == <<slot, run, out>>
stopVars == <<shuttingDown, sd, pass, active>>
hostVars == <<starts, mode>>

(* shutdown_all runs once for the request and once more on the way out. *)
Passes  == {"runner_stop", "runner_exit"}
Reapers == Tasks \X Passes
Workers == Handlers \cup Reapers

(* A shutdown starts cancel threads of its own: none of them is a handler. *)
ASSUME HandlersAssumption == Handlers \cap Reapers = {}

CancelPCs == {"lookup", "mark", "unreg", "ready", "kill", "done", "expire", "ret"}
JobPCs    == {"idle", "create", "start"} \cup CancelPCs
RunPCs    == {"off", "validate", "claim", "spawn", "register", "wait",
              "receipt", "finalize", "fin", "pop"}
StopPCs   == {"none", "snapshot", "join", "reap", "sweep", "drain", "closing"}

CancelReasons == {"cancel_task"} \cup Passes

Slot == [reg : BOOLEAN, cancel : BOOLEAN, reason : {"none"} \cup CancelReasons,
         proc : BOOLEAN, ready : BOOLEAN, cleanup : BOOLEAN, done : BOOLEAN]

FreshSlot == [reg |-> FALSE, cancel |-> FALSE, reason |-> "none",
              proc |-> FALSE, ready |-> FALSE, cleanup |-> FALSE,
              done |-> FALSE]

NoTid   == "no task"
Idle    == [pc |-> "idle", tid |-> NoTid, why |-> "none"]
Job     == [pc : JobPCs, tid : Tasks \cup {NoTid}, why : {"none"} \cup CancelReasons]

Failed(why) ==
  [state |-> "FAILED", reason |-> why, error |-> "none", art |-> FALSE]
Rejected ==
  [state |-> "REJECTED", reason |-> "validation", error |-> "none", art |-> FALSE]
Canceled(why, how) ==
  [state |-> "CANCELED", reason |-> why, error |-> how, art |-> FALSE]
Received(s, why, a) ==
  [state |-> s, reason |-> why, error |-> "none", art |-> a]

(* _run holds no verdict yet, or no longer. *)
NoVerdict == Failed("sandbox_failure")

(* What the local receipt of the sandbox's run-meta can map to: the valid  *)
(* states carry an artifact; a failed or timed-out run may carry one; no   *)
(* run-meta at all is a sandbox failure without one.                       *)
ReceiptVerdicts ==
  {Received(s, "process_exit", TRUE) : s \in {"COMPLETED", "AUTH_REQUIRED", "INPUT_REQUIRED"}}
  \cup {Received("FAILED", "process_exit", a) : a \in BOOLEAN}
  \cup {Received("CANCELED", "deadline", a) : a \in BOOLEAN}
  \cup {Failed("sandbox_failure")}

TypeOK ==
  /\ disk \in [Tasks -> Disk]
  /\ proc \in [Tasks -> {"none", "alive", "remnant", "dead"}]
  /\ launches \in [Tasks -> Nat]
  /\ starts \in Nat
  /\ mode \in {"off", "recover", "serve"}
  /\ shuttingDown \in BOOLEAN
  /\ slot \in [Tasks -> Slot]
  /\ run \in [Tasks -> RunPCs]
  /\ out \in [Tasks -> Verdict]
  /\ job \in [Workers -> Job]
  /\ sd \in StopPCs
  /\ pass \in Passes
  /\ active \in SUBSET Tasks

(* Everything a process keeps in memory, when it starts and when it dies.  *)
FreshMemory ==
  /\ shuttingDown' = FALSE
  /\ slot' = [t \in Tasks |-> FreshSlot]
  /\ run' = [t \in Tasks |-> "off"]
  /\ out' = [t \in Tasks |-> NoVerdict]
  /\ job' = [w \in Workers |-> Idle]
  /\ sd' = "none"
  /\ pass' = "runner_stop"
  /\ active' = {}

Init ==
  /\ disk = [t \in Tasks |-> NoTask]
  /\ proc = [t \in Tasks |-> "none"]
  /\ launches = [t \in Tasks |-> 0]
  /\ starts = 0
  /\ mode = "off"
  /\ shuttingDown = FALSE
  /\ slot = [t \in Tasks |-> FreshSlot]
  /\ run = [t \in Tasks |-> "off"]
  /\ out = [t \in Tasks |-> NoVerdict]
  /\ job = [w \in Workers |-> Idle]
  /\ sd = "none"
  /\ pass = "runner_stop"
  /\ active = {}

Update(t, d) == disk' = [disk EXCEPT ![t] = d]
Goto(w, pc)  == job' = [job EXCEPT ![w].pc = pc]
At(w, pc)    == mode = "serve" /\ job[w].pc = pc
RunAt(t, pc) == mode = "serve" /\ run[t] = pc

(* New requests are read until server.shutdown, which follows the drain.   *)
Accepting == pass = "runner_stop"

(* _terminate_group: TERM, a grace period, then KILL, until the group is   *)
(* gone. p: does the caller hold the process at all?                       *)
Terminated(t, p) ==
  IF p /\ proc[t] \in {"alive", "remnant"} THEN "dead" ELSE proc[t]

-----------------------------------------------------------------------------
(* SendMessage: the shutting_down test, store.create and executor.start    *)
(* are three separate critical sections of the handler.                    *)

SendMessage(h, t) ==
  /\ At(h, "idle") /\ Accepting
  /\ ~shuttingDown
  /\ job' = [job EXCEPT ![h] = [pc |-> "create", tid |-> t, why |-> "none"]]
  /\ UNCHANGED <<disk, proc, launches, hostVars, execVars, stopVars>>

CreateTask(h) ==
  /\ At(h, "create")
  /\ LET t == job[h].tid IN
       /\ Update(t, Created(disk[t]))
       /\ job' = IF CanCreate(disk[t])
                   THEN [job EXCEPT ![h].pc = "start"]
                   ELSE [job EXCEPT ![h] = Idle]
  /\ UNCHANGED <<proc, launches, hostVars, execVars, stopVars>>

(* executor.start: its refusal is not reported; the reply is SUBMITTED.    *)
StartTask(h) ==
  /\ At(h, "start")
  /\ LET t == job[h].tid IN
       IF shuttingDown \/ slot[t].reg
         THEN UNCHANGED <<slot, run>>
         ELSE /\ slot' = [slot EXCEPT ![t] = [FreshSlot EXCEPT !.reg = TRUE]]
              /\ run' = [run EXCEPT ![t] = "validate"]
  /\ job' = [job EXCEPT ![h] = Idle]
  /\ UNCHANGED <<disk, proc, launches, out, hostVars, stopVars>>

-----------------------------------------------------------------------------
(* CancelTask and Executor.cancel, run by a handler or by a shutdown       *)
(* cancel thread.                                                          *)

CancelTask(h, t) ==
  /\ At(h, "idle") /\ Accepting
  /\ disk[t].state # "NONE"
  /\ job' = [job EXCEPT ![h] = [pc |-> "lookup", tid |-> t, why |-> "cancel_task"]]
  /\ UNCHANGED <<disk, proc, launches, hostVars, execVars, stopVars>>

CancelLookup(w) ==
  /\ At(w, "lookup")
  /\ Goto(w, IF disk[job[w].tid].state \in Final THEN "ret" ELSE "mark")
  /\ UNCHANGED <<disk, proc, launches, hostVars, execVars, stopVars>>

BugMarkWithoutReason(w) ==
  /\ At(w, "mark")
  /\ LET t == job[w].tid IN
       IF slot[t].reg
         THEN slot' = [slot EXCEPT ![t].cancel = TRUE] /\ Goto(w, "ready")
         ELSE Goto(w, "unreg") /\ UNCHANGED slot
  /\ UNCHANGED <<disk, proc, launches, run, out, hostVars, stopVars>>

CancelMark(w) ==
  /\ At(w, "mark")
  /\ LET t == job[w].tid IN
       IF slot[t].reg
         THEN /\ slot' = [slot EXCEPT ![t].cancel = TRUE,
                                      ![t].reason = IF @ = "none" THEN job[w].why ELSE @]
              /\ Goto(w, "ready")
         ELSE Goto(w, "unreg") /\ UNCHANGED slot
  /\ UNCHANGED <<disk, proc, launches, run, out, hostVars, stopVars>>

(* proc_ready.wait(shutdown_timeout): the validation that delays the flag  *)
(* is itself bounded by shutdown_timeout, so only a stall can expire it.   *)
BugReadyIgnored(w) ==
  /\ At(w, "ready")
  /\ Goto(w, "kill")
  /\ UNCHANGED <<disk, proc, launches, hostVars, execVars, stopVars>>

CancelReady(w) ==
  /\ At(w, "ready")
  /\ slot[job[w].tid].ready \/ Stalls
  /\ Goto(w, "kill")
  /\ UNCHANGED <<disk, proc, launches, hostVars, execVars, stopVars>>

CancelKill(w) ==
  /\ At(w, "kill")
  /\ LET t == job[w].tid IN
       /\ proc' = [proc EXCEPT ![t] = Terminated(t, slot[t].proc)]
       /\ slot' = [slot EXCEPT ![t].cleanup = TRUE]
  /\ Goto(w, "done")
  /\ UNCHANGED <<disk, launches, run, out, hostVars, stopVars>>

CancelDone(w) ==
  /\ At(w, "done")
  /\ slot[job[w].tid].done
  /\ Goto(w, "ret")
  /\ UNCHANGED <<disk, proc, launches, hostVars, execVars, stopVars>>

(* done.wait(shutdown_timeout) may expire: receipt validation is as long.  *)
BugExpiryReturns(w) ==
  /\ At(w, "done")
  /\ ~slot[job[w].tid].done
  /\ Goto(w, "ret")
  /\ UNCHANGED <<disk, proc, launches, hostVars, execVars, stopVars>>

CancelDoneExpires(w) ==
  /\ At(w, "done")
  /\ ~slot[job[w].tid].done
  /\ Goto(w, "expire")
  /\ UNCHANGED <<disk, proc, launches, hostVars, execVars, stopVars>>

CancelVerdict(w) ==
  Canceled(job[w].why, IF job[w].pc = "unreg" THEN "unregistered" ELSE "cleaned")

CancelFinalize(w) ==
  /\ At(w, "unreg") \/ At(w, "expire")
  /\ LET t == job[w].tid IN Update(t, Finalized(disk[t], CancelVerdict(w)))
  /\ Goto(w, "ret")
  /\ UNCHANGED <<proc, launches, hostVars, execVars, stopVars>>

CancelReply(h) ==
  /\ At(h, "ret")
  /\ job' = [job EXCEPT ![h] = Idle]
  /\ UNCHANGED <<disk, proc, launches, hostVars, execVars, stopVars>>

-----------------------------------------------------------------------------
(* Executor._run, the execution thread of a task.                          *)

FlagsUp(t) == slot' = [slot EXCEPT ![t].ready = TRUE, ![t].cleanup = TRUE]

Conclude(t, v) ==
  /\ out' = [out EXCEPT ![t] = v]
  /\ run' = [run EXCEPT ![t] = "finalize"]

(* The cancelled exits of _run: raise the flags, then finalize CANCELED.   *)
Yield(t) == FlagsUp(t) /\ Conclude(t, Canceled(slot[t].reason, "terminated"))

(* The envelope check, with its own bound, and the cancel test after it.   *)
BugRejectUnsettled(t) ==
  /\ RunAt(t, "validate")
  /\ IF slot[t].cancel
       THEN Yield(t)
       ELSE UNCHANGED <<slot, out>> /\ \E pc \in {"claim", "fin"} : run' = [run EXCEPT ![t] = pc]
  /\ UNCHANGED <<disk, proc, launches, job, hostVars, stopVars>>

Validate(t) ==
  /\ RunAt(t, "validate")
  /\ \/ slot[t].cancel /\ Yield(t)
     \/ /\ ~slot[t].cancel
        /\ \/ run' = [run EXCEPT ![t] = "claim"] /\ UNCHANGED out
           \/ \E v \in {Rejected, Failed("runner_internal_timeout"), Failed("sandbox_failure")} :
                Conclude(t, v)
        /\ UNCHANGED slot
  /\ UNCHANGED <<disk, proc, launches, job, hostVars, stopVars>>

BugClaimIgnored(t) ==
  /\ RunAt(t, "claim")
  /\ Update(t, Claimed(disk[t]))
  /\ run' = [run EXCEPT ![t] = "spawn"]
  /\ UNCHANGED <<slot, proc, launches, out, job, hostVars, stopVars>>

ClaimTask(t) ==
  /\ RunAt(t, "claim")
  /\ Update(t, Claimed(disk[t]))
  /\ IF CanClaim(disk[t])
       THEN run' = [run EXCEPT ![t] = "spawn"] /\ UNCHANGED slot
       ELSE run' = [run EXCEPT ![t] = "fin"] /\ FlagsUp(t)
  /\ UNCHANGED <<proc, launches, out, job, hostVars, stopVars>>

Spawn(t) ==
  /\ RunAt(t, "spawn")
  /\ proc' = [proc EXCEPT ![t] = "alive"]
  /\ launches' = [launches EXCEPT ![t] = @ + 1]
  /\ run' = [run EXCEPT ![t] = "register"]
  /\ UNCHANGED <<disk, slot, out, job, hostVars, stopVars>>

SpawnFails(t) ==
  /\ RunAt(t, "spawn")
  /\ IF slot[t].cancel
       THEN Yield(t)
       ELSE Conclude(t, Failed("sandbox_failure")) /\ UNCHANGED slot
  /\ UNCHANGED <<disk, proc, launches, job, hostVars, stopVars>>

(* Publish the process. If a cancel came first TERM is sent at once, which *)
(* only makes SandboxExit happen sooner.                                   *)
Register(t) ==
  /\ RunAt(t, "register")
  /\ slot' = [slot EXCEPT ![t].proc = TRUE, ![t].ready = TRUE]
  /\ run' = [run EXCEPT ![t] = "wait"]
  /\ UNCHANGED <<disk, proc, launches, out, job, hostVars, stopVars>>

(* communicate returns with the leader; a cancelled run then makes sure of *)
(* the group unless a cancel thread already did.                           *)
Collect(t) ==
  /\ RunAt(t, "wait")
  /\ proc[t] \in {"remnant", "dead"}
  /\ IF slot[t].cancel
       THEN /\ proc' = [proc EXCEPT ![t] = Terminated(t, ~slot[t].cleanup)]
            /\ Yield(t)
       ELSE run' = [run EXCEPT ![t] = "receipt"] /\ UNCHANGED <<proc, slot, out>>
  /\ UNCHANGED <<disk, launches, job, hostVars, stopVars>>

(* run-meta, artifact and the bounded receipt check; an exception here     *)
(* looks at the cancel flag, a result does not.                            *)
Receipt(t) ==
  /\ RunAt(t, "receipt")
  /\ \/ \E v \in ReceiptVerdicts : Conclude(t, v) /\ UNCHANGED slot
     \/ slot[t].cancel /\ Yield(t)
     \/ /\ ~slot[t].cancel
        /\ \E why \in {"runner_internal_timeout", "sandbox_failure"} :
             Conclude(t, Failed(why))
        /\ UNCHANGED slot
  /\ UNCHANGED <<disk, proc, launches, job, hostVars, stopVars>>

FinalizeRun(t) ==
  /\ RunAt(t, "finalize")
  /\ Update(t, Finalized(disk[t], out[t]))
  /\ run' = [run EXCEPT ![t] = "fin"]
  /\ out' = [out EXCEPT ![t] = NoVerdict]
  /\ UNCHANGED <<proc, launches, slot, job, hostVars, stopVars>>

BugDoneForgotten(t) ==
  /\ RunAt(t, "fin")
  /\ slot' = [slot EXCEPT ![t].ready = TRUE]
  /\ run' = [run EXCEPT ![t] = "pop"]
  /\ UNCHANGED <<disk, proc, launches, out, job, hostVars, stopVars>>

FinishRun(t) ==
  /\ RunAt(t, "fin")
  /\ slot' = [slot EXCEPT ![t].ready = TRUE, ![t].done = TRUE]
  /\ run' = [run EXCEPT ![t] = "pop"]
  /\ UNCHANGED <<disk, proc, launches, out, job, hostVars, stopVars>>

PopSlot(t) ==
  /\ RunAt(t, "pop")
  /\ slot' = [slot EXCEPT ![t].reg = FALSE]
  /\ run' = [run EXCEPT ![t] = "off"]
  /\ UNCHANGED <<disk, proc, launches, out, job, hostVars, stopVars>>

(* The sandbox: its leader ends, with or without the rest of its group.    *)
SandboxExit(t) ==
  /\ proc[t] = "alive"
  /\ \E p \in {"remnant", "dead"} : proc' = [proc EXCEPT ![t] = p]
  /\ UNCHANGED <<disk, launches, hostVars, execVars, job, stopVars>>

-----------------------------------------------------------------------------
(* The coordinated shutdown, and the second shutdown_all on the way out.   *)

(* SIGTERM, SIGINT or the idle watch; the latter acts on a task list that  *)
(* may be stale, so it too can come in any state.                          *)
RequestShutdown ==
  /\ mode = "serve" /\ sd = "none"
  /\ shuttingDown' = TRUE
  /\ sd' = "snapshot"
  /\ UNCHANGED <<disk, proc, launches, hostVars, execVars, job, pass, active>>

ListActive ==
  /\ mode = "serve" /\ sd = "snapshot"
  /\ shuttingDown' = TRUE
  /\ active' = {t \in Tasks : disk[t].state \in Active}
  /\ job' = [w \in Workers |->
               IF w \in active' \X {pass}
                 THEN [pc |-> "lookup", tid |-> w[1], why |-> pass]
                 ELSE job[w]]
  /\ sd' = "join"
  /\ UNCHANGED <<disk, proc, launches, hostVars, execVars, pass>>

JoinCancels ==
  /\ mode = "serve" /\ sd = "join"
  /\ \/ \A t \in active : job[<<t, pass>>].pc = "ret"
     \/ Stalls
     \/ \A t \in active : slot[t].reg => slot[t].ready
  /\ sd' = "reap"
  /\ UNCHANGED <<disk, proc, launches, hostVars, execVars, job, shuttingDown, pass, active>>

ReapRemaining ==
  LET remaining == {t \in active : slot[t].reg /\ ~slot[t].done} IN
  /\ mode = "serve" /\ sd = "reap"
  /\ proc' = [t \in Tasks |-> IF t \in remaining THEN Terminated(t, slot[t].proc)
                                                 ELSE proc[t]]
  /\ slot' = [t \in Tasks |-> IF t \in remaining THEN [slot[t] EXCEPT !.cleanup = TRUE]
                                                 ELSE slot[t]]
  /\ sd' = "sweep"
  /\ UNCHANGED <<disk, launches, hostVars, run, out, job, shuttingDown, pass, active>>

SweepTask(t) ==
  /\ mode = "serve" /\ sd = "sweep"
  /\ t \in active /\ disk[t].state \in Active
  /\ Update(t, Finalized(disk[t], Canceled(pass, "drained")))
  /\ UNCHANGED <<proc, launches, hostVars, execVars, job, stopVars>>

BugSweepWaitsForAll ==
  /\ mode = "serve" /\ sd = "sweep"
  /\ \A t \in Tasks : disk[t].state \notin Active
  /\ sd' = IF pass = "runner_stop" THEN "drain" ELSE "closing"
  /\ UNCHANGED <<disk, proc, launches, hostVars, execVars, job, shuttingDown, pass, active>>

SweepDone ==
  /\ mode = "serve" /\ sd = "sweep"
  /\ \A t \in active : disk[t].state \notin Active
  /\ sd' = IF pass = "runner_stop" THEN "drain" ELSE "closing"
  /\ UNCHANGED <<disk, proc, launches, hostVars, execVars, job, shuttingDown, pass, active>>

(* The drain window is over: server.shutdown, then the finally of main.    *)
DrainOver ==
  /\ mode = "serve" /\ sd = "drain"
  /\ sd' = "snapshot"
  /\ pass' = "runner_exit"
  /\ UNCHANGED <<disk, proc, launches, hostVars, execVars, job, shuttingDown, active>>

Exit ==
  /\ mode = "serve" /\ sd = "closing"
  /\ mode' = "off"
  /\ FreshMemory
  /\ UNCHANGED <<disk, proc, launches, starts>>

-----------------------------------------------------------------------------
(* Start, recovery and crash.                                              *)

Restart ==
  /\ mode = "off" /\ starts < MaxStarts
  /\ mode' = "recover"
  /\ starts' = starts + 1
  /\ UNCHANGED <<disk, proc, launches, execVars, job, stopVars>>

RecoverTask(t) ==
  /\ mode = "recover"
  /\ disk[t].state \in Active
  /\ Update(t, Finalized(disk[t], Failed("runner_restart")))
  /\ UNCHANGED <<proc, launches, hostVars, execVars, job, stopVars>>

Serve ==
  /\ mode = "recover"
  /\ \A t \in Tasks : disk[t].state \notin Active
  /\ mode' = "serve"
  /\ UNCHANGED <<disk, proc, launches, starts, execVars, job, stopVars>>

(* The verdicts some thread is just about to finalize the task with.       *)
Pending(t) ==
  (IF run[t] = "finalize" THEN {out[t]} ELSE {})
  \cup {CancelVerdict(w) : w \in {x \in Workers : job[x].pc \in {"unreg", "expire"}
                                                  /\ job[x].tid = t}}
  \cup (IF sd = "sweep" /\ t \in active THEN {Canceled(pass, "drained")} ELSE {})
  \cup (IF mode = "recover" THEN {Failed("runner_restart")} ELSE {})

(* The images a crash inside an operation on the task can leave.           *)
Torn(t) ==
  (IF \E h \in Handlers : job[h].pc = "create" /\ job[h].tid = t
     THEN TornCreate(disk[t]) ELSE {})
  \cup (IF run[t] = "claim" THEN TornClaim(disk[t]) ELSE {})
  \cup UNION {TornFinalize(disk[t], v) : v \in Pending(t)}

(* kill -9, an uncaught exception of main or a power cut. The sandboxes    *)
(* run in sessions of their own and may outlive the runner.                *)
Crash ==
  /\ mode # "off"
  /\ \/ UNCHANGED disk
     \/ \E t \in Tasks : \E d \in Torn(t) : Update(t, d)
  /\ mode' = "off"
  /\ FreshMemory
  /\ UNCHANGED <<proc, launches, starts>>

-----------------------------------------------------------------------------
HandlerStep(h) == CreateTask(h) \/ StartTask(h) \/ CancelReply(h)

CancelStep(w) ==
  \/ CancelLookup(w) \/ CancelMark(w) \/ CancelReady(w) \/ CancelKill(w)
  \/ CancelDone(w) \/ CancelFinalize(w)

RunStep(t) ==
  \/ Validate(t) \/ ClaimTask(t) \/ Spawn(t) \/ SpawnFails(t) \/ Register(t)
  \/ Collect(t) \/ Receipt(t) \/ FinalizeRun(t) \/ FinishRun(t) \/ PopSlot(t)

StopStep ==
  \/ ListActive \/ JoinCancels \/ ReapRemaining \/ (\E t \in Tasks : SweepTask(t))
  \/ SweepDone \/ DrainOver \/ Exit

StartStep == (\E t \in Tasks : RecoverTask(t)) \/ Serve

Next ==
  \/ \E h \in Handlers, t \in Tasks : SendMessage(h, t) \/ CancelTask(h, t)
  \/ \E h \in Handlers : HandlerStep(h)
  \/ \E w \in Workers : CancelStep(w) \/ CancelDoneExpires(w)
  \/ \E t \in Tasks : RunStep(t) \/ SandboxExit(t)
  \/ RequestShutdown \/ StopStep
  \/ Restart \/ StartStep \/ Crash

Spec == Init /\ [][Next]_vars

(* Threads are scheduled, a sandbox ends by its own deadline, and a start  *)
(* runs to the end; nobody has to send, cancel, stop or restart anything.  *)
Fairness ==
  /\ \A h \in Handlers : WF_vars(HandlerStep(h))
  /\ \A w \in Workers : WF_vars(CancelStep(w))
  /\ \A t \in Tasks : WF_vars(RunStep(t)) /\ WF_vars(SandboxExit(t))
  /\ WF_vars(StopStep) /\ WF_vars(StartStep)

FairSpec == Spec /\ Fairness

-----------------------------------------------------------------------------
(* Properties.                                                             *)

Terminals(log) == {i \in DOMAIN log : log[i] \in Final}

(* A task id is executed at most once, whatever mixture of duplicated      *)
(* SendMessage calls, cancels, crashes and restarts it goes through        *)
(* (store.create's deduplication, transition_working and the recovery of   *)
(* main together; no one of them suffices).                                *)
AtMostOneLaunch == \A t \in Tasks : launches[t] <= 1

(* A sandbox is only ever launched after the WORKING event of its task was *)
(* published: a task cancelled before _run claimed it never launches.      *)
LaunchIsAnnounced ==
  \A t \in Tasks : launches[t] > 0 => \E i \in DOMAIN disk[t].log : disk[t].log[i] = "WORKING"

(* events_complete, on which an SSE stream ends, is only ever set when the *)
(* terminal event is in the log.                                           *)
CompleteIsPublished ==
  \A t \in Tasks : disk[t].complete => Terminals(disk[t].log) # {}

(* The event log is what a subscriber may rely on, torn writes included:   *)
(* it names at most one terminal state, as its last event, which is that   *)
(* of the record, and events_complete is set only once it is there.        *)
LogIsTrue ==
  /\ \A t \in Tasks : \A i \in Terminals(disk[t].log) :
       i = Len(disk[t].log) /\ disk[t].log[i] = disk[t].state
  /\ CompleteIsPublished

(* Executor.cancel never returns a record that is still active: not when   *)
(* it races with the start, with the end, or with its own timeouts.        *)
CancelReturnsFinal ==
  \A w \in Workers : job[w].pc = "ret" => disk[job[w].tid].state \in Final

(* While the runner serves, an active task has somebody who will settle    *)
(* it: its execution thread, the handler about to start it, or a shutdown. *)
NoOrphanTask ==
  mode = "serve" =>
    \A t \in Tasks : disk[t].state \in Active =>
      \/ run[t] \notin {"off", "pop", "fin"}
      \/ disk[t].state = "SUBMITTED"
           /\ (shuttingDown \/ \E h \in Handlers : job[h].pc = "start" /\ job[h].tid = t)

NoSandbox(t) ==
  proc[t] # "alive" /\ (mode = "serve" => run[t] \notin {"spawn", "register"})

(* A sandbox is somebody's. When a record says that its process group was  *)
(* terminated, cleaned up or drained, the leader is not running and never  *)
(* will be, however the cancel raced with its launch; and the runner exits *)
(* with none of its own running or about to start (shutdown_all: "a        *)
(* timed-out cancellation waiter must not let the runner exit with its     *)
(* process group alive"), records of UnregisteredHasNoSandbox aside.       *)
NoSandboxIsLost ==
  /\ \A t \in Tasks : disk[t].error \in {"terminated", "cleaned", "drained"} => NoSandbox(t)
  /\ sd = "closing" =>
       \A t \in Tasks : disk[t].error # "unregistered" =>
         /\ run[t] \notin {"spawn", "register"}
         /\ slot[t].proc => proc[t] # "alive"

(* A record that says "task canceled before a process was registered" has  *)
(* no sandbox. The code does not keep it: between the cancel's look at the *)
(* slots and its finalize the task can be registered and claimed.          *)
UnregisteredHasNoSandbox ==
  \A t \in Tasks : disk[t].error = "unregistered" => NoSandbox(t)

(* Once final, nothing on disk about a task changes any more: the first of *)
(* the racing verdicts wins, also against recovery after a torn write.     *)
FinalIsImmutable ==
  [][\A t \in Tasks : disk[t].state \in Final => disk'[t] = disk[t]]_disk

(* The runner implements the lifecycle promised to the caller: the permit  *)
(* is an execution thread between its claim and its launch.                *)
Lifecycle == INSTANCE TaskLifecycle WITH
  state    <- [t \in Tasks |-> disk[t].state],
  complete <- [t \in Tasks |-> disk[t].complete],
  permit   <- [t \in Tasks |-> run[t] = "spawn"],
  launched <- [t \in Tasks |-> launches[t] > 0]

ImplementsLifecycle == Lifecycle!LifecycleSpec

(* A CancelTask call is answered, if the runner lives.                     *)
CancelAnswered ==
  \A w \in Workers : job[w].pc \in CancelPCs \ {"ret"} ~> job[w].pc = "ret" \/ mode = "off"

(* Every task accepted is settled, if the runner lives.                    *)
TaskSettles ==
  \A t \in Tasks : disk[t].state \in Active ~> disk[t].state \in Final \/ mode = "off"

(* A shutdown ends.                                                        *)
ShutdownEnds == shuttingDown ~> mode = "off"

(* finalize persists "one complete terminal sequence": a final record that *)
(* is served has events_complete. Not so after a crash inside finalize.    *)
ServedFinalIsComplete ==
  mode = "serve" => \A t \in Tasks : disk[t].state \in Final => disk[t].complete

=============================================================================
