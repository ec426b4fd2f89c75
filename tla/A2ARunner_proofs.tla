-------------------------- MODULE A2ARunner_proofs --------------------------
(***************************************************************************)
(* Theorems about A2ARunner, for any sets of tasks and handlers, any       *)
(* number of starts, with and without stalls.                              *)
(***************************************************************************)
EXTENDS A2ARunner, TLAPS

(* TypeOK alone is not inductive: that a cancelled run finalizes with a    *)
(* reason needs the reason recorded with the cancel flag, and that a call  *)
(* names a task needs it remembered while the call runs.                   *)
Reasoned ==
  /\ \A t \in Tasks : slot[t].cancel => slot[t].reason \in CancelReasons
  /\ \A w \in Workers : /\ job[w].pc # "idle" => job[w].tid \in Tasks
                        /\ job[w].pc \in CancelPCs => job[w].why \in CancelReasons

Typed == TypeOK /\ Reasoned

-----------------------------------------------------------------------------
(* The store operations keep a disk entry well typed.                      *)

LEMMA LoggedType ==
  ASSUME NEW d \in Disk, NEW e \in Events
  PROVE  Logged(d, e) \in Disk
BY DEF Logged, Disk

LEMMA CreateType ==
  ASSUME NEW d \in Disk
  PROVE  Created(d) \in Disk /\ TornCreate(d) \subseteq Disk
<1> DEFINE r == [d EXCEPT !.state = "SUBMITTED"]
           e == [r EXCEPT !.log = <<>>]
<1>a. r \in Disk
  BY DEF Disk, Active
<1>b. << >> \in Seq(Events)
  OBVIOUS
<1>1. r \in Disk /\ e \in Disk
  BY <1>a, <1>b DEF Disk
<1>2. Logged(e, "SUBMITTED") \in Disk
  BY <1>1, LoggedType DEF Events, Active
<1>3. CreateImages(d)[1] = r /\ CreateImages(d)[2] = e
        /\ CreateImages(d)[3] = Logged(e, "SUBMITTED")
  BY DEF CreateImages
<1>4. \A i \in 1..2 : i = 1 \/ i = 2
  OBVIOUS
<1> HIDE DEF r, e
<1> QED
  BY <1>1, <1>2, <1>3, <1>4 DEF Created, TornCreate

LEMMA ClaimType ==
  ASSUME NEW d \in Disk
  PROVE  Claimed(d) \in Disk /\ TornClaim(d) \subseteq Disk
<1> DEFINE r == [d EXCEPT !.state = "WORKING"]
<1>1. r \in Disk
  BY DEF Disk, Active
<1>2. Logged(r, "WORKING") \in Disk
  BY <1>1, LoggedType DEF Events, Active
<1>3. ClaimImages(d)[1] = r /\ ClaimImages(d)[2] = Logged(r, "WORKING")
  BY DEF ClaimImages
<1> HIDE DEF r
<1> QED
  BY <1>1, <1>2, <1>3 DEF Claimed, TornClaim

LEMMA FinalizeType ==
  ASSUME NEW d \in Disk, NEW v \in Verdict
  PROVE  Finalized(d, v) \in Disk /\ TornFinalize(d, v) \subseteq Disk
<1> DEFINE r == [d EXCEPT !.state = v.state, !.reason = v.reason, !.error = v.error]
           a == IF v.art THEN Logged(r, "artifact") ELSE r
           s == Logged(a, v.state)
           c == [s EXCEPT !.complete = TRUE]
<1>1. r \in Disk
  BY DEF Disk, Verdict, Active
<1>2. a \in Disk
  BY <1>1, LoggedType DEF Events
<1>3. v.state \in Events
  BY DEF Verdict, Events
<1>4. s \in Disk
  BY <1>2, <1>3, LoggedType
<1>5. c \in Disk
  BY <1>4 DEF Disk
<1>6. FinalizeImages(d, v)[1] = r /\ FinalizeImages(d, v)[2] = a
        /\ FinalizeImages(d, v)[3] = s /\ FinalizeImages(d, v)[4] = c
  BY DEF FinalizeImages
<1>7. \A i \in 1..3 : i = 1 \/ i = 2 \/ i = 3
  OBVIOUS
<1> HIDE DEF r, a, s, c
<1> QED
  BY <1>1, <1>2, <1>4, <1>5, <1>6, <1>7 DEF Finalized, TornFinalize

(* Every verdict the code passes to finalize is a verdict.                 *)
LEMMA VerdictType ==
  /\ \A why \in Reasons \ {"none"} : Failed(why) \in Verdict
  /\ \A why \in CancelReasons, how \in Errors : Canceled(why, how) \in Verdict
  /\ Rejected \in Verdict
  /\ NoVerdict \in Verdict
  /\ ReceiptVerdicts \subseteq Verdict
<1>1. \A why \in Reasons \ {"none"} : Failed(why) \in Verdict
  BY DEF Failed, Verdict, Errors, Final
<1>2. \A why \in CancelReasons, how \in Errors : Canceled(why, how) \in Verdict
  BY DEF Canceled, Verdict, CancelReasons, Passes, Reasons, Final
<1>3. Rejected \in Verdict
  BY DEF Rejected, Verdict, Reasons, Errors, Final
<1>4. NoVerdict \in Verdict
  BY <1>1 DEF NoVerdict, Reasons
<1>5. \A s \in Final, why \in Reasons \ {"none"}, a \in BOOLEAN :
         Received(s, why, a) \in Verdict
  BY DEF Received, Verdict, Errors
<1>6. ReceiptVerdicts \subseteq Verdict
  BY <1>1, <1>5 DEF ReceiptVerdicts, Reasons, Final
<1> QED
  BY <1>1, <1>2, <1>3, <1>4, <1>6

(* A slot changes one task at a time, and keeps its reason with its flag.  *)
LEMMA SlotUpdate ==
  ASSUME Typed, NEW t \in Tasks, NEW s \in Slot, s.cancel => s.reason \in CancelReasons,
         slot' = [slot EXCEPT ![t] = s]
  PROVE  /\ slot' \in [Tasks -> Slot]
         /\ \A x \in Tasks : slot'[x].cancel => slot'[x].reason \in CancelReasons
BY DEF Typed, TypeOK, Reasoned

(* The flag updates of the code, on any slot. *)
Keeps(s, r) == r \in Slot /\ r.cancel = s.cancel /\ r.reason = s.reason

LEMMA SlotFlags ==
  ASSUME NEW s \in Slot
  PROVE  /\ Keeps(s, [s EXCEPT !.ready = TRUE, !.cleanup = TRUE])
         /\ Keeps(s, [s EXCEPT !.proc = TRUE, !.ready = TRUE])
         /\ Keeps(s, [s EXCEPT !.ready = TRUE, !.done = TRUE])
         /\ Keeps(s, [s EXCEPT !.reg = FALSE])
         /\ Keeps(s, [s EXCEPT !.cleanup = TRUE])
<1>1. Keeps(s, [s EXCEPT !.ready = TRUE, !.cleanup = TRUE])
  BY DEF Slot, Keeps
<1>2. Keeps(s, [s EXCEPT !.proc = TRUE, !.ready = TRUE])
  BY DEF Slot, Keeps
<1>3. Keeps(s, [s EXCEPT !.ready = TRUE, !.done = TRUE])
  BY DEF Slot, Keeps
<1>4. Keeps(s, [s EXCEPT !.reg = FALSE])
  BY DEF Slot, Keeps
<1>5. Keeps(s, [s EXCEPT !.cleanup = TRUE])
  BY DEF Slot, Keeps
<1> QED
  BY <1>1, <1>2, <1>3, <1>4, <1>5

LEMMA SlotMark ==
  ASSUME NEW s \in Slot, NEW why \in CancelReasons,
         s.cancel => s.reason \in CancelReasons
  PROVE  LET r == [s EXCEPT !.cancel = TRUE, !.reason = IF @ = "none" THEN why ELSE @]
         IN  r \in Slot /\ r.reason \in CancelReasons
BY DEF Slot

LEMMA InitTyped == Init => Typed
<1> SUFFICES ASSUME Init PROVE Typed
  OBVIOUS
<1>1. NoTask \in Disk
  BY DEF NoTask, Disk, Reasons, Errors
<1>2. FreshSlot \in Slot
  BY DEF FreshSlot, Slot
<1>3. Idle \in Job /\ Idle.pc = "idle"
  BY DEF Idle, Job, JobPCs
<1> QED
  BY <1>1, <1>2, <1>3, VerdictType
  DEF Init, Typed, TypeOK, Reasoned, FreshSlot, RunPCs, StopPCs, Passes, CancelPCs

LEMMA FreshTyped ==
  ASSUME FreshMemory
  PROVE  /\ shuttingDown' \in BOOLEAN
         /\ slot' \in [Tasks -> Slot] /\ \A t \in Tasks : ~slot'[t].cancel
         /\ run' \in [Tasks -> RunPCs]
         /\ out' \in [Tasks -> Verdict]
         /\ job' \in [Workers -> Job] /\ \A w \in Workers : job'[w].pc = "idle"
         /\ sd' \in StopPCs /\ pass' \in Passes /\ active' \in SUBSET Tasks
<1>1. FreshSlot \in Slot /\ ~FreshSlot.cancel
  BY DEF FreshSlot, Slot
<1>2. Idle \in Job /\ Idle.pc = "idle"
  BY DEF Idle, Job, JobPCs
<1> QED
  BY <1>1, <1>2, VerdictType DEF FreshMemory, RunPCs, StopPCs, Passes

-----------------------------------------------------------------------------
LEMMA StepTyped == Typed /\ [Next]_vars => Typed'
<1> SUFFICES ASSUME Typed, [Next]_vars PROVE Typed'
  OBVIOUS
<1> USE DEF Typed, TypeOK, Reasoned
<1> USE DEF hostVars, execVars, stopVars
<1>1. ASSUME NEW h \in Handlers, NEW t \in Tasks, SendMessage(h, t)
      PROVE  Typed'
  BY <1>1 DEF SendMessage, At, Workers, Job, JobPCs, CancelPCs
<1>2. ASSUME NEW h \in Handlers, NEW t \in Tasks, CancelTask(h, t)
      PROVE  Typed'
  BY <1>2 DEF CancelTask, At, Workers, Job, JobPCs, CancelPCs, CancelReasons
<1>3. ASSUME NEW h \in Handlers, CreateTask(h)
      PROVE  Typed'
  <2>1. h \in Workers /\ job[h].tid \in Tasks
    BY <1>3 DEF CreateTask, At, Workers
  <2>2. disk' \in [Tasks -> Disk]
    BY <1>3, <2>1, CreateType DEF CreateTask, Update
  <2> QED
    BY <1>3, <2>1, <2>2 DEF CreateTask, Job, JobPCs, CancelPCs, Idle
<1>4. ASSUME NEW h \in Handlers, StartTask(h)
      PROVE  Typed'
  <2>1. h \in Workers /\ job[h].tid \in Tasks
    BY <1>4 DEF StartTask, At, Workers
  <2>2. /\ slot' \in [Tasks -> Slot]
        /\ \A t \in Tasks : slot'[t].cancel => slot'[t].reason \in CancelReasons
    <3> DEFINE s == [FreshSlot EXCEPT !.reg = TRUE]
    <3>1. s \in Slot /\ ~s.cancel
      BY DEF FreshSlot, Slot
    <3>2. slot' = slot \/ slot' = [slot EXCEPT ![job[h].tid] = s]
      BY <1>4 DEF StartTask
    <3> QED
      BY <2>1, <3>1, <3>2, SlotUpdate
  <2>3. run' \in [Tasks -> RunPCs]
    BY <1>4, <2>1 DEF StartTask, RunPCs
  <2> QED
    BY <1>4, <2>1, <2>2, <2>3 DEF StartTask, Job, JobPCs, CancelPCs, Idle
<1>5. ASSUME NEW h \in Handlers, CancelReply(h)
      PROVE  Typed'
  BY <1>5 DEF CancelReply, At, Workers, Job, JobPCs, CancelPCs, Idle
<1>6. ASSUME NEW w \in Workers, CancelStep(w) \/ CancelDoneExpires(w)
      PROVE  Typed'
  <2>1. CASE CancelLookup(w) \/ CancelReady(w) \/ CancelDone(w) \/ CancelDoneExpires(w)
    BY <2>1 DEF CancelLookup, CancelReady, CancelDone, CancelDoneExpires, At, Goto,
                Job, JobPCs, CancelPCs
  <2>2. CASE CancelMark(w)
    <3>1. job[w].tid \in Tasks /\ job[w].why \in CancelReasons
      BY <2>2 DEF CancelMark, At, CancelPCs
    <3>2. /\ slot' \in [Tasks -> Slot]
          /\ \A t \in Tasks : slot'[t].cancel => slot'[t].reason \in CancelReasons
      <4> DEFINE t == job[w].tid
                 s == [slot[t] EXCEPT !.cancel = TRUE,
                                      !.reason = IF @ = "none" THEN job[w].why ELSE @]
      <4>1. s \in Slot /\ s.reason \in CancelReasons
        BY <3>1, SlotMark
      <4>2. slot' = slot \/ slot' = [slot EXCEPT ![t] = s]
        BY <2>2 DEF CancelMark
      <4> QED
        BY <3>1, <4>1, <4>2, SlotUpdate
    <3> QED
      BY <2>2, <3>1, <3>2 DEF CancelMark, At, Goto, Job, JobPCs, CancelPCs
  <2>3. CASE CancelKill(w)
    <3>1. job[w].tid \in Tasks
      BY <2>3 DEF CancelKill, At
    <3>2. /\ slot' \in [Tasks -> Slot]
          /\ \A t \in Tasks : slot'[t].cancel => slot'[t].reason \in CancelReasons
      <4> DEFINE t == job[w].tid
                 s == [slot[t] EXCEPT !.cleanup = TRUE]
      <4>1. s \in Slot /\ (s.cancel => s.reason \in CancelReasons)
        BY <3>1, SlotFlags DEF Keeps
      <4>2. slot' = [slot EXCEPT ![t] = s]
        BY <2>3 DEF CancelKill
      <4> QED
        BY <3>1, <4>1, <4>2, SlotUpdate
    <3> QED
      BY <2>3, <3>1, <3>2 DEF CancelKill, Terminated, At, Goto, Job, JobPCs, CancelPCs
  <2>4. CASE CancelFinalize(w)
    <3>1. job[w].tid \in Tasks /\ job[w].why \in CancelReasons
      BY <2>4 DEF CancelFinalize, At, CancelPCs
    <3>2. CancelVerdict(w) \in Verdict
      BY <3>1, VerdictType DEF CancelVerdict, Errors
    <3>3. disk' \in [Tasks -> Disk]
      BY <2>4, <3>1, <3>2, FinalizeType DEF CancelFinalize, Update
    <3> QED
      BY <2>4, <3>1, <3>3 DEF CancelFinalize, At, Goto, Job, JobPCs, CancelPCs
  <2> QED
    BY <1>6, <2>1, <2>2, <2>3, <2>4 DEF CancelStep
<1>7. ASSUME NEW t \in Tasks, RunStep(t)
      PROVE  Typed'
  <2> DEFINE SlotsOK == /\ slot' \in [Tasks -> Slot]
                        /\ \A x \in Tasks : slot'[x].cancel => slot'[x].reason \in CancelReasons
  <2>a. ASSUME NEW v \in Verdict, Conclude(t, v)
        PROVE  out' \in [Tasks -> Verdict] /\ run' \in [Tasks -> RunPCs]
    BY <2>a DEF Conclude, RunPCs
  <2>b. ASSUME FlagsUp(t)
        PROVE  SlotsOK
    <3> DEFINE s == [slot[t] EXCEPT !.ready = TRUE, !.cleanup = TRUE]
    <3>1. s \in Slot /\ (s.cancel => s.reason \in CancelReasons)
      BY SlotFlags DEF Keeps
    <3>2. slot' = [slot EXCEPT ![t] = s]
      BY <2>b DEF FlagsUp
    <3> QED
      BY <3>1, <3>2, SlotUpdate
  <2>c. ASSUME slot[t].cancel, Yield(t)
        PROVE  out' \in [Tasks -> Verdict] /\ run' \in [Tasks -> RunPCs] /\ SlotsOK
    <3>1. Canceled(slot[t].reason, "terminated") \in Verdict
      BY <2>c, VerdictType DEF Errors
    <3> QED
      BY <2>a, <2>b, <2>c, <3>1 DEF Yield
  <2>d. UNCHANGED slot => SlotsOK
    OBVIOUS
  <2>1. CASE Validate(t)
    <3>1. \A why \in {"runner_internal_timeout", "sandbox_failure"} : Failed(why) \in Verdict
      BY VerdictType DEF Reasons
    <3>2. out' \in [Tasks -> Verdict] /\ run' \in [Tasks -> RunPCs] /\ SlotsOK
      <4>1. CASE slot[t].cancel
        BY <2>1, <2>c, <4>1 DEF Validate
      <4>2. CASE ~slot[t].cancel
        <5>1. CASE \E v \in {Rejected, Failed("runner_internal_timeout"), Failed("sandbox_failure")} :
                     Conclude(t, v)
          BY <2>1, <2>a, <2>d, <3>1, <4>2, <5>1, VerdictType DEF Validate
        <5>2. CASE run' = [run EXCEPT ![t] = "claim"] /\ UNCHANGED out
          BY <2>1, <2>d, <4>2, <5>2 DEF Validate, RunPCs
        <5> QED
          BY <2>1, <4>2, <5>1, <5>2 DEF Validate
      <4> QED
        BY <4>1, <4>2
    <3> QED
      BY <2>1, <3>2 DEF Validate
  <2>2. CASE ClaimTask(t)
    <3>1. disk' \in [Tasks -> Disk]
      BY <2>2, ClaimType DEF ClaimTask, Update
    <3>2. run' \in [Tasks -> RunPCs] /\ SlotsOK
      BY <2>2, <2>b, <2>d DEF ClaimTask, RunPCs
    <3> QED
      BY <2>2, <3>1, <3>2 DEF ClaimTask
  <2>3. CASE Spawn(t)
    BY <2>3 DEF Spawn, RunPCs
  <2>4. CASE SpawnFails(t)
    <3>1. Failed("sandbox_failure") \in Verdict
      BY VerdictType DEF Reasons
    <3>2. out' \in [Tasks -> Verdict] /\ run' \in [Tasks -> RunPCs] /\ SlotsOK
      BY <2>4, <2>a, <2>c, <2>d, <3>1 DEF SpawnFails
    <3> QED
      BY <2>4, <3>2 DEF SpawnFails
  <2>5. CASE Register(t)
    <3> DEFINE s == [slot[t] EXCEPT !.proc = TRUE, !.ready = TRUE]
    <3>1. s \in Slot /\ (s.cancel => s.reason \in CancelReasons)
      BY SlotFlags DEF Keeps
    <3>2. slot' = [slot EXCEPT ![t] = s]
      BY <2>5 DEF Register
    <3>3. SlotsOK
      BY <3>1, <3>2, SlotUpdate
    <3> QED
      BY <2>5, <3>3 DEF Register, RunPCs
  <2>6. CASE Collect(t)
    <3>1. proc' \in [Tasks -> {"none", "alive", "remnant", "dead"}]
      BY <2>6 DEF Collect, Terminated
    <3>2. out' \in [Tasks -> Verdict] /\ run' \in [Tasks -> RunPCs] /\ SlotsOK
      BY <2>6, <2>c, <2>d DEF Collect, RunPCs
    <3> QED
      BY <2>6, <3>1, <3>2 DEF Collect
  <2>7. CASE Receipt(t)
    <3>1. \A why \in {"runner_internal_timeout", "sandbox_failure"} : Failed(why) \in Verdict
      BY VerdictType DEF Reasons
    <3>2. out' \in [Tasks -> Verdict] /\ run' \in [Tasks -> RunPCs] /\ SlotsOK
      <4>1. CASE \E v \in ReceiptVerdicts : Conclude(t, v) /\ UNCHANGED slot
        BY <2>a, <2>d, <4>1, VerdictType
      <4>2. CASE slot[t].cancel /\ Yield(t)
        BY <2>c, <4>2
      <4>3. CASE \E why \in {"runner_internal_timeout", "sandbox_failure"} :
                   Conclude(t, Failed(why)) /\ UNCHANGED slot
        BY <2>a, <2>d, <3>1, <4>3
      <4> QED
        BY <2>7, <4>1, <4>2, <4>3 DEF Receipt
    <3> QED
      BY <2>7, <3>2 DEF Receipt
  <2>8. CASE FinalizeRun(t)
    <3>1. disk' \in [Tasks -> Disk]
      BY <2>8, FinalizeType DEF FinalizeRun, Update
    <3> QED
      BY <2>8, <3>1, VerdictType DEF FinalizeRun, RunPCs
  <2>9. CASE FinishRun(t) \/ PopSlot(t)
    <3> DEFINE f == [slot[t] EXCEPT !.ready = TRUE, !.done = TRUE]
               p == [slot[t] EXCEPT !.reg = FALSE]
    <3>1. f \in Slot /\ (f.cancel => f.reason \in CancelReasons)
      BY SlotFlags DEF Keeps
    <3>2. p \in Slot /\ (p.cancel => p.reason \in CancelReasons)
      BY SlotFlags DEF Keeps
    <3>3. slot' = [slot EXCEPT ![t] = f] \/ slot' = [slot EXCEPT ![t] = p]
      BY <2>9 DEF FinishRun, PopSlot
    <3>4. SlotsOK
      BY <3>1, <3>2, <3>3, SlotUpdate
    <3> QED
      BY <2>9, <3>4 DEF FinishRun, PopSlot, RunPCs
  <2> QED
    BY <1>7, <2>1, <2>2, <2>3, <2>4, <2>5, <2>6, <2>7, <2>8, <2>9 DEF RunStep
<1>8. ASSUME NEW t \in Tasks, SandboxExit(t)
      PROVE  Typed'
  BY <1>8 DEF SandboxExit
<1>9. CASE RequestShutdown
  BY <1>9 DEF RequestShutdown, StopPCs
<1>10. CASE StopStep
  <2>1. CASE ListActive
    <3>1. ASSUME NEW w \in Workers
          PROVE  /\ job'[w] \in Job
                 /\ job'[w].pc # "idle" => job'[w].tid \in Tasks
                 /\ job'[w].pc \in CancelPCs => job'[w].why \in CancelReasons
      BY <2>1, <3>1 DEF ListActive, Job, JobPCs, CancelPCs, CancelReasons
    <3> QED
      BY <2>1, <3>1 DEF ListActive, StopPCs
  <2>2. CASE JoinCancels \/ SweepDone \/ DrainOver
    BY <2>2 DEF JoinCancels, SweepDone, DrainOver, StopPCs, Passes
  <2>3. CASE ReapRemaining
    <3>1. /\ slot' \in [Tasks -> Slot]
          /\ \A t \in Tasks : slot'[t].cancel => slot'[t].reason \in CancelReasons
      BY <2>3 DEF ReapRemaining, Slot
    <3> QED
      BY <2>3, <3>1 DEF ReapRemaining, Terminated, StopPCs
  <2>4. ASSUME NEW t \in Tasks, SweepTask(t)
        PROVE  Typed'
    <3>1. Canceled(pass, "drained") \in Verdict
      BY VerdictType DEF CancelReasons, Errors
    <3> QED
      BY <2>4, <3>1, FinalizeType DEF SweepTask, Update
  <2>5. CASE Exit
    BY <2>5, FreshTyped DEF Exit, CancelPCs
  <2> QED
    BY <1>10, <2>1, <2>2, <2>3, <2>4, <2>5 DEF StopStep
<1>11. CASE Restart
  BY <1>11 DEF Restart
<1>12. CASE StartStep
  <2>1. ASSUME NEW t \in Tasks, RecoverTask(t)
        PROVE  Typed'
    BY <2>1, VerdictType, FinalizeType DEF RecoverTask, Update, Reasons
  <2> QED
    BY <1>12, <2>1 DEF StartStep, Serve
<1>13. CASE Crash
  <2>1. ASSUME NEW t \in Tasks, NEW d \in Torn(t)
        PROVE  d \in Disk
    <3>1. \A v \in Pending(t) : v \in Verdict
      <4>1. \A w \in Workers : job[w].pc \in {"unreg", "expire"} => CancelVerdict(w) \in Verdict
        BY VerdictType DEF CancelVerdict, Errors, CancelPCs
      <4> QED
        BY <4>1, VerdictType DEF Pending, CancelReasons, Errors, Reasons
    <3> QED
      BY <2>1, <3>1, CreateType, ClaimType, FinalizeType DEF Torn
  <2>2. disk' \in [Tasks -> Disk]
    BY <1>13, <2>1 DEF Crash, Update
  <2> QED
    BY <1>13, <2>2, FreshTyped DEF Crash, CancelPCs
<1>14. CASE UNCHANGED vars
  BY <1>14 DEF vars
<1> QED
  BY <1>1, <1>2, <1>3, <1>4, <1>5, <1>6, <1>7, <1>8, <1>9, <1>10, <1>11, <1>12,
     <1>13, <1>14
  DEF Next, HandlerStep

(* Type correctness: whatever the interleaving, the store, the slots and   *)
(* the verdicts of Executor keep their shape, and a cancelled run never    *)
(* finalizes without the reason its canceller recorded.                    *)
THEOREM TypeCorrect == Spec => []TypeOK
<1>1. Spec => []Typed
  BY InitTyped, StepTyped, PTL DEF Spec
<1>2. Typed => TypeOK
  BY DEF Typed
<1> QED
  BY <1>1, <1>2, PTL

-----------------------------------------------------------------------------
(* What the store operations do to the state, the completion flag and the  *)
(* WORKING announcement of an entry.                                       *)

Announced(d) == \E i \in DOMAIN d.log : d.log[i] = "WORKING"

LEMMA LoggedFacts ==
  ASSUME NEW d \in Disk, NEW e \in Events
  PROVE  /\ Logged(d, e).state = d.state
         /\ Logged(d, e).complete = d.complete
         /\ Announced(d) => Announced(Logged(d, e))
         /\ e = "WORKING" => Announced(Logged(d, e))
<1> DEFINE l == Append(d.log, e)
<1>1. d.log \in Seq(Events)
  BY DEF Disk
<1>2. /\ Logged(d, e).log = l
      /\ Logged(d, e).state = d.state
      /\ Logged(d, e).complete = d.complete
  BY DEF Logged, Disk
<1>3. /\ DOMAIN l = 1 .. Len(d.log) + 1
      /\ \A i \in 1 .. Len(d.log) : l[i] = d.log[i]
      /\ l[Len(d.log) + 1] = e
      /\ DOMAIN d.log = 1 .. Len(d.log)
      /\ Len(d.log) \in Nat
  BY <1>1
<1> HIDE DEF l
<1> QED
  BY <1>2, <1>3 DEF Announced

LEMMA CreateFacts ==
  ASSUME NEW d \in Disk, CanCreate(d),
         NEW x \in {Created(d)} \cup TornCreate(d)
  PROVE  x.state = "SUBMITTED" /\ x.complete = d.complete
<1> DEFINE r == [d EXCEPT !.state = "SUBMITTED"]
           e == [r EXCEPT !.log = <<>>]
<1>0. << >> \in Seq(Events)
  OBVIOUS
<1>1. /\ r \in Disk /\ r.state = "SUBMITTED" /\ r.complete = d.complete
  BY DEF Disk, Active
<1>2. /\ e \in Disk /\ e.state = "SUBMITTED" /\ e.complete = d.complete
  BY <1>0, <1>1 DEF Disk
<1>3. x \in {r, e, Logged(e, "SUBMITTED")}
  <2>1. CreateImages(d)[1] = r /\ CreateImages(d)[2] = e
          /\ CreateImages(d)[3] = Logged(e, "SUBMITTED")
    BY DEF CreateImages
  <2>2. \A i \in 1..2 : i = 1 \/ i = 2
    OBVIOUS
  <2> HIDE DEF r, e
  <2> QED
    BY <2>1, <2>2 DEF Created, TornCreate
<1> HIDE DEF r, e
<1> QED
  BY <1>1, <1>2, <1>3, LoggedFacts DEF Events, Active

LEMMA ClaimFacts ==
  ASSUME NEW d \in Disk, CanClaim(d)
  PROVE  /\ Claimed(d).state = "WORKING" /\ Claimed(d).complete = d.complete
         /\ Announced(Claimed(d))
         /\ \A x \in TornClaim(d) : x.state = "WORKING" /\ x.complete = d.complete
<1> DEFINE r == [d EXCEPT !.state = "WORKING"]
<1>1. r \in Disk /\ r.state = "WORKING" /\ r.complete = d.complete
  BY DEF Disk, Active
<1>2. ClaimImages(d)[1] = r /\ ClaimImages(d)[2] = Logged(r, "WORKING")
  BY DEF ClaimImages
<1> HIDE DEF r
<1> QED
  BY <1>1, <1>2, LoggedFacts DEF Claimed, TornClaim, Events, Active

LEMMA FinalizeFacts ==
  ASSUME NEW d \in Disk, NEW v \in Verdict, CanFinalize(d)
  PROVE  /\ Finalized(d, v).state = v.state /\ Finalized(d, v).complete
         /\ Announced(d) => Announced(Finalized(d, v))
         /\ \A x \in TornFinalize(d, v) : /\ x.state = v.state
                                          /\ x.complete = d.complete
                                          /\ Announced(d) => Announced(x)
<1> DEFINE r == [d EXCEPT !.state = v.state, !.reason = v.reason, !.error = v.error]
           a == IF v.art THEN Logged(r, "artifact") ELSE r
           s == Logged(a, v.state)
           c == [s EXCEPT !.complete = TRUE]
<1>1. /\ r \in Disk /\ r.state = v.state /\ r.complete = d.complete
      /\ Announced(d) => Announced(r)
  BY DEF Disk, Verdict, Active, Announced
<1>2. /\ a \in Disk /\ a.state = v.state /\ a.complete = d.complete
      /\ Announced(d) => Announced(a)
  BY <1>1, LoggedType, LoggedFacts DEF Events
<1>3. v.state \in Events
  BY DEF Verdict, Events
<1>4. /\ s \in Disk /\ s.state = v.state /\ s.complete = d.complete
      /\ Announced(d) => Announced(s)
  BY <1>2, <1>3, LoggedType, LoggedFacts
<1>5. /\ c.state = v.state /\ c.complete
      /\ Announced(d) => Announced(c)
  BY <1>4 DEF Disk, Announced
<1>6. FinalizeImages(d, v)[1] = r /\ FinalizeImages(d, v)[2] = a
        /\ FinalizeImages(d, v)[3] = s /\ FinalizeImages(d, v)[4] = c
  BY DEF FinalizeImages
<1>7. \A i \in 1..3 : i = 1 \/ i = 2 \/ i = 3
  OBVIOUS
<1> HIDE DEF r, a, s, c
<1> QED
  BY <1>1, <1>2, <1>4, <1>5, <1>6, <1>7 DEF Finalized, TornFinalize

-----------------------------------------------------------------------------
(* Every step does one of these to the disk entry of a task.               *)
DiskChange(t) ==
  \/ disk'[t] = disk[t]
  \/ CanCreate(disk[t]) /\ disk'[t] \in {Created(disk[t])} \cup TornCreate(disk[t])
  \/ CanClaim(disk[t]) /\ disk'[t] \in {Claimed(disk[t])} \cup TornClaim(disk[t])
  \/ CanFinalize(disk[t])
       /\ \E v \in Verdict : disk'[t] \in {Finalized(disk[t], v)} \cup TornFinalize(disk[t], v)

LEMMA DiskSteps ==
  ASSUME Typed, [Next]_vars, NEW t \in Tasks
  PROVE  DiskChange(t)
<1> USE DEF Typed, TypeOK, Reasoned
<1>1. CASE UNCHANGED disk
  BY <1>1 DEF DiskChange
<1>2. ASSUME NEW h \in Handlers, CreateTask(h)
      PROVE  DiskChange(t)
  BY <1>2 DEF CreateTask, Update, Created, DiskChange
<1>3. ASSUME NEW w \in Workers, CancelFinalize(w)
      PROVE  DiskChange(t)
  <2>1. job[w].tid \in Tasks /\ job[w].why \in CancelReasons
    BY <1>3 DEF CancelFinalize, At, CancelPCs
  <2>2. CancelVerdict(w) \in Verdict
    BY <2>1, VerdictType DEF CancelVerdict, Errors
  <2> QED
    BY <1>3, <2>1, <2>2 DEF CancelFinalize, Update, Finalized, DiskChange
<1>4. ASSUME NEW x \in Tasks, ClaimTask(x)
      PROVE  DiskChange(t)
  BY <1>4 DEF ClaimTask, Update, Claimed, DiskChange
<1>5. ASSUME NEW x \in Tasks, FinalizeRun(x)
      PROVE  DiskChange(t)
  BY <1>5 DEF FinalizeRun, Update, Finalized, DiskChange
<1>6. ASSUME NEW x \in Tasks, SweepTask(x)
      PROVE  DiskChange(t)
  <2>1. Canceled(pass, "drained") \in Verdict
    BY VerdictType DEF CancelReasons, Errors
  <2> QED
    BY <1>6, <2>1 DEF SweepTask, Update, Finalized, DiskChange
<1>7. ASSUME NEW x \in Tasks, RecoverTask(x)
      PROVE  DiskChange(t)
  <2>1. Failed("runner_restart") \in Verdict
    BY VerdictType DEF Reasons
  <2> QED
    BY <1>7, <2>1 DEF RecoverTask, Update, Finalized, DiskChange
<1>8. CASE Crash
  <2>1. \A x \in Tasks : \A v \in Pending(x) : v \in Verdict
    <3>1. \A w \in Workers : job[w].pc \in {"unreg", "expire"} => CancelVerdict(w) \in Verdict
      BY VerdictType DEF CancelVerdict, Errors, CancelPCs
    <3> QED
      BY <3>1, VerdictType DEF Pending, CancelReasons, Errors, Reasons
  <2>2. ASSUME NEW x \in Tasks, NEW d \in Torn(x), Update(x, d)
        PROVE  DiskChange(t)
    <3>1. \/ d \in TornCreate(disk[x]) /\ CanCreate(disk[x])
          \/ d \in TornClaim(disk[x]) /\ CanClaim(disk[x])
          \/ \E v \in Verdict : d \in TornFinalize(disk[x], v) /\ CanFinalize(disk[x])
      BY <2>1, <2>2 DEF Torn, TornCreate, TornClaim, TornFinalize
    <3>2. disk'[t] = IF t = x THEN d ELSE disk[t]
      BY <2>2 DEF Update
    <3> QED
      BY <3>1, <3>2 DEF DiskChange
  <2> QED
    BY <1>1, <1>8, <2>2 DEF Crash
<1> QED
  BY <1>1, <1>2, <1>3, <1>4, <1>5, <1>6, <1>7, <1>8
  DEF Next, HandlerStep, CancelStep, RunStep, StopStep, StartStep, vars, execVars, stopVars,
      hostVars, SendMessage, CancelTask, StartTask, CancelReply, CancelLookup, CancelMark,
      CancelReady, CancelKill, CancelDone, CancelDoneExpires, Validate, Spawn, SpawnFails,
      Register, Collect, Receipt, FinishRun, PopSlot, SandboxExit, RequestShutdown,
      ListActive, JoinCancels, ReapRemaining, SweepDone, DrainOver, Exit, Restart, Serve

(* The first verdict stands: once a record is final no step, no racing     *)
(* finalize, no torn write and no recovery changes anything of the task on *)
(* disk.                                                                   *)
THEOREM FinalNeverChanges == Spec => FinalIsImmutable
<1>1. ASSUME Typed, [Next]_vars
      PROVE  [\A t \in Tasks : disk[t].state \in Final => disk'[t] = disk[t]]_disk
  <2>1. ASSUME NEW t \in Tasks, disk[t].state \in Final
        PROVE  disk'[t] = disk[t]
    BY <1>1, <2>1, DiskSteps DEF DiskChange, CanCreate, CanClaim, CanFinalize, Final, Active
  <2> QED
    BY <2>1
<1>2. Spec => []Typed
  BY InitTyped, StepTyped, PTL DEF Spec
<1> QED
  BY <1>1, <1>2, PTL DEF Spec, FinalIsImmutable

-----------------------------------------------------------------------------
(* Who owns a task. The first conjuncts of TaskOwned say how far its       *)
(* record is when its execution thread is somewhere; a launched sandbox    *)
(* leaves no way back to SUBMITTED, so nobody gets to launch again.        *)

Ended(d) == \E i \in DOMAIN d.log : d.log[i] \in Final

TaskOwned(t) ==
  /\ disk[t].complete => disk[t].state \in Final /\ Ended(disk[t])
  /\ launches[t] \in {0, 1}
  /\ run[t] # "off" => disk[t].state # "NONE"
  /\ run[t] \in {"validate", "claim"} => disk[t].state \in {"SUBMITTED"} \cup Final
  /\ run[t] \in {"validate", "claim", "spawn"} => launches[t] = 0
  /\ launches[t] = 1 \/ run[t] = "spawn" =>
       disk[t].state \in {"WORKING"} \cup Final /\ Announced(disk[t])
  /\ run[t] \in {"fin", "pop"} \/ slot[t].done => disk[t].state \in Final

(* One handler is about to start a task, the one that created it.          *)
OnlyStarter(w) ==
  \A x \in Workers : job[x].pc = "start" /\ job[x].tid = job[w].tid => x = w

JobOwned(w) ==
  /\ job[w].pc \in CancelPCs => disk[job[w].tid].state # "NONE"
  /\ job[w].pc = "ret" => disk[job[w].tid].state \in Final
  /\ job[w].pc = "start" =>
       /\ disk[job[w].tid].state \in {"SUBMITTED"} \cup Final
       /\ launches[job[w].tid] = 0 /\ run[job[w].tid] = "off"
       /\ OnlyStarter(w)

Owned == (\A t \in Tasks : TaskOwned(t)) /\ (\A w \in Workers : JobOwned(w))

IInv == Typed /\ Owned

(* A record that is there and is not active is final. *)
LEMMA StateFacts ==
  ASSUME NEW d \in Disk
  PROVE  /\ d.state \in {"NONE"} \cup Active \cup Final
         /\ d.state # "NONE" /\ (d.complete => d.state \in Final) /\ ~CanFinalize(d)
              => d.state \in Final
         /\ "NONE" \notin Active \cup Final /\ Active \cap Final = {}
         /\ Active = {"SUBMITTED", "WORKING"}
BY DEF Disk, CanFinalize, Active, Final

(* To settle an entry is to end it, or to find it ended. *)
Settled(d, e) ==
  \/ e = d
  \/ /\ d.state \in Active /\ e.state \in Final
     /\ e.complete => Ended(e)
     /\ Announced(d) => Announced(e)

LEMMA LoggedEnds ==
  ASSUME NEW d \in Disk, NEW e \in Events
  PROVE  e \in Final => Ended(Logged(d, e))
<1> DEFINE l == Append(d.log, e)
<1>1. d.log \in Seq(Events)
  BY DEF Disk
<1>2. Logged(d, e).log = l
  BY DEF Logged, Disk
<1>3. /\ DOMAIN l = 1 .. Len(d.log) + 1
      /\ l[Len(d.log) + 1] = e
      /\ Len(d.log) \in Nat
  BY <1>1
<1> HIDE DEF l
<1> QED
  BY <1>2, <1>3 DEF Ended

LEMMA FinalizedEnds ==
  ASSUME NEW d \in Disk, NEW v \in Verdict, CanFinalize(d)
  PROVE  Ended(Finalized(d, v))
<1> DEFINE r == [d EXCEPT !.state = v.state, !.reason = v.reason, !.error = v.error]
           a == IF v.art THEN Logged(r, "artifact") ELSE r
           s == Logged(a, v.state)
           c == [s EXCEPT !.complete = TRUE]
<1>1. r \in Disk
  BY DEF Disk, Verdict, Active
<1>2. a \in Disk
  BY <1>1, LoggedType DEF Events
<1>3. v.state \in Events /\ v.state \in Final
  BY DEF Verdict, Events
<1>4. s \in Disk /\ Ended(s)
  BY <1>2, <1>3, LoggedType, LoggedEnds
<1>5. Ended(c)
  BY <1>4 DEF Disk, Ended
<1>6. FinalizeImages(d, v)[4] = c
  BY DEF FinalizeImages
<1> HIDE DEF r, a, s, c
<1> QED
  BY <1>5, <1>6 DEF Finalized

LEMMA FinalizedSettles ==
  ASSUME NEW d \in Disk, NEW v \in Verdict
  PROVE  /\ Settled(d, Finalized(d, v))
         /\ d.state # "NONE" /\ (d.complete => d.state \in Final)
              => Finalized(d, v).state \in Final
<1>1. CASE CanFinalize(d)
  <2>1. /\ Finalized(d, v).state = v.state /\ v.state \in Final
        /\ Announced(d) => Announced(Finalized(d, v))
    BY <1>1, FinalizeFacts DEF Verdict
  <2> QED
    BY <1>1, <2>1, FinalizedEnds DEF Settled, CanFinalize
<1>2. CASE ~CanFinalize(d)
  <2>1. Finalized(d, v) = d
    BY <1>2 DEF Finalized
  <2> QED
    BY <1>2, <2>1, StateFacts DEF Settled
<1> QED
  BY <1>1, <1>2

-----------------------------------------------------------------------------
(* Most steps give nobody a right to start, claim or launch: they settle   *)
(* entries at most, and move calls and threads on.                         *)

RunQuiet(t) ==
  /\ \/ run'[t] = run[t]
     \/ run[t] = "validate" /\ run'[t] = "claim"
     \/ run[t] # "off" /\ run'[t] \notin {"validate", "claim", "spawn"}
  /\ run'[t] \in {"fin", "pop"} \/ slot'[t].done => disk'[t].state \in Final

JobQuiet(w) ==
  /\ job'[w].pc = "start" => job'[w] = job[w]
  /\ job'[w].pc \in CancelPCs => disk[job'[w].tid].state # "NONE"
  /\ job'[w].pc = "ret" => disk'[job'[w].tid].state \in Final

LEMMA QuietStep ==
  ASSUME IInv, Typed', UNCHANGED launches,
         \A t \in Tasks : Settled(disk[t], disk'[t]) /\ RunQuiet(t),
         \A w \in Workers : JobQuiet(w)
  PROVE  Owned'
<1>1. ASSUME NEW t \in Tasks
      PROVE  TaskOwned(t)'
  <2>1. disk[t] \in Disk /\ TaskOwned(t) /\ Settled(disk[t], disk'[t]) /\ RunQuiet(t)
    BY DEF IInv, Typed, TypeOK, Owned
  <2>2. launches'[t] = launches[t]
    OBVIOUS
  <2> QED
    BY <2>1, <2>2, StateFacts DEF TaskOwned, Settled, RunQuiet
<1>2. ASSUME NEW w \in Workers
      PROVE  JobOwned(w)'
  <2>1. JobQuiet(w) /\ JobOwned(w)
    BY DEF IInv, Owned
  <2>2. job'[w].pc # "idle" => job'[w].tid \in Tasks
    BY DEF Typed, Reasoned
  <2>3. ASSUME job'[w].pc \in CancelPCs
        PROVE  disk'[job'[w].tid].state # "NONE"
    <3>1. job'[w].tid \in Tasks
      BY <2>2, <2>3 DEF CancelPCs
    <3>2. disk[job'[w].tid] \in Disk /\ Settled(disk[job'[w].tid], disk'[job'[w].tid])
      BY <3>1 DEF IInv, Typed, TypeOK
    <3> QED
      BY <2>1, <2>3, <3>2, StateFacts DEF JobQuiet, Settled
  <2>4. ASSUME job'[w].pc = "start"
        PROVE  /\ disk'[job'[w].tid].state \in {"SUBMITTED"} \cup Final
               /\ launches'[job'[w].tid] = 0 /\ run'[job'[w].tid] = "off"
               /\ OnlyStarter(w)'
    <3> DEFINE t == job[w].tid
    <3>1. job'[w] = job[w] /\ t \in Tasks
      BY <2>1, <2>2, <2>4 DEF JobQuiet
    <3>2. /\ disk[t].state \in {"SUBMITTED"} \cup Final
          /\ launches[t] = 0 /\ run[t] = "off" /\ OnlyStarter(w)
      BY <2>1, <2>4, <3>1 DEF JobOwned
    <3>3. Settled(disk[t], disk'[t]) /\ RunQuiet(t)
      BY <3>1
    <3>4. OnlyStarter(w)'
      BY <3>1, <3>2 DEF OnlyStarter, JobQuiet
    <3> QED
      BY <3>1, <3>2, <3>3, <3>4 DEF Settled, RunQuiet
  <2> QED
    BY <2>1, <2>3, <2>4 DEF JobOwned, JobQuiet
<1> QED
  BY <1>1, <1>2 DEF Owned

(* What is quiet by itself. *)
LEMMA RestIsQuiet ==
  ASSUME IInv, NEW t \in Tasks
  PROVE  /\ disk' = disk => Settled(disk[t], disk'[t])
         /\ Settled(disk[t], disk'[t]) /\ run'[t] = run[t] /\ slot'[t].done = slot[t].done
              => RunQuiet(t)
         /\ Settled(disk[t], disk'[t]) /\ run[t] \in {"validate", "spawn", "wait", "receipt"}
              /\ run'[t] \in {"receipt", "finalize"} /\ slot'[t].done = slot[t].done
              => RunQuiet(t)
<1>1. TaskOwned(t) /\ disk[t] \in Disk
  BY DEF IInv, Owned, Typed, TypeOK
<1>2. Settled(disk[t], disk'[t]) /\ disk[t].state \in Final => disk'[t].state \in Final
  BY <1>1, StateFacts DEF Settled
<1> QED
  BY <1>1, <1>2 DEF Settled, RunQuiet, TaskOwned

LEMMA SameJobIsQuiet ==
  ASSUME IInv, NEW w \in Workers, job'[w] = job[w],
         \A t \in Tasks : Settled(disk[t], disk'[t])
  PROVE  JobQuiet(w)
<1>1. JobOwned(w) /\ (job[w].pc # "idle" => job[w].tid \in Tasks)
  BY DEF IInv, Owned, Typed, Reasoned
<1>2. ASSUME job[w].pc = "ret"
      PROVE  disk'[job[w].tid].state \in Final
  <2>1. job[w].tid \in Tasks /\ disk[job[w].tid].state \in Final
    BY <1>1, <1>2 DEF JobOwned
  <2>2. disk[job[w].tid] \in Disk /\ Settled(disk[job[w].tid], disk'[job[w].tid])
    BY <2>1 DEF IInv, Typed, TypeOK
  <2> QED
    BY <2>1, <2>2, StateFacts DEF Settled
<1> QED
  BY <1>1, <1>2 DEF JobQuiet, JobOwned

(* A call that moves on, and the other calls where they were. *)
LEMMA OneJobIsQuiet ==
  ASSUME IInv, NEW w \in Workers, UNCHANGED disk,
         \E j : job' = [job EXCEPT ![w] = j],
         job'[w].pc # "start",
         job'[w].pc \in CancelPCs => disk[job'[w].tid].state # "NONE",
         job'[w].pc = "ret" => disk[job'[w].tid].state \in Final
  PROVE  \A x \in Workers : JobQuiet(x)
<1> SUFFICES ASSUME NEW x \in Workers PROVE JobQuiet(x)
  OBVIOUS
<1>1. CASE x = w
  BY <1>1 DEF JobQuiet
<1>2. CASE x # w
  <2>1. job'[x] = job[x]
    BY <1>2 DEF IInv, Typed, TypeOK
  <2> QED
    BY <2>1, SameJobIsQuiet, RestIsQuiet
<1> QED
  BY <1>1, <1>2

(* The handlers: sending and cancelling. *)
LEMMA HandlerOwned ==
  ASSUME IInv, Typed', NEW h \in Handlers,
         (\E t \in Tasks : SendMessage(h, t) \/ CancelTask(h, t)) \/ CancelReply(h)
  PROVE  Owned'
<1>1. h \in Workers /\ UNCHANGED <<disk, launches, run, slot>>
  BY DEF SendMessage, CancelTask, CancelReply, Workers, execVars
<1>2. \A x \in Tasks : Settled(disk[x], disk'[x]) /\ RunQuiet(x)
  BY <1>1, RestIsQuiet
<1>3. job \in [Workers -> Job]
  BY DEF IInv, Typed, TypeOK
<1>4. \A w \in Workers : JobQuiet(w)
  <2>1. ASSUME NEW t \in Tasks, SendMessage(h, t)
        PROVE  \A w \in Workers : JobQuiet(w)
    <3> DEFINE j == [pc |-> "create", tid |-> t, why |-> "none"]
    <3>1. job' = [job EXCEPT ![h] = j] /\ job'[h].pc = "create"
      BY <1>1, <1>3, <2>1 DEF SendMessage
    <3> HIDE DEF j
    <3> QED
      BY <1>1, <3>1, OneJobIsQuiet DEF CancelPCs
  <2>2. ASSUME NEW t \in Tasks, CancelTask(h, t)
        PROVE  \A w \in Workers : JobQuiet(w)
    <3> DEFINE j == [pc |-> "lookup", tid |-> t, why |-> "cancel_task"]
    <3>1. /\ job' = [job EXCEPT ![h] = j] /\ job'[h].pc = "lookup" /\ job'[h].tid = t
          /\ disk[t].state # "NONE"
      BY <1>1, <1>3, <2>2 DEF CancelTask
    <3> HIDE DEF j
    <3> QED
      BY <1>1, <3>1, OneJobIsQuiet
  <2>3. CASE CancelReply(h)
    <3>1. job' = [job EXCEPT ![h] = Idle] /\ job'[h].pc = "idle"
      BY <1>1, <1>3, <2>3 DEF CancelReply, Idle
    <3> QED
      BY <1>1, <3>1, OneJobIsQuiet DEF CancelPCs
  <2> QED
    BY <2>1, <2>2, <2>3
<1> QED
  BY <1>1, <1>2, <1>4, QuietStep

(* cancel returns what it found final, what its slot's thread finished, or *)
(* what it settled itself.                                                 *)
LEMMA CancelOwned ==
  ASSUME IInv, Typed', NEW w \in Workers, CancelStep(w) \/ CancelDoneExpires(w)
  PROVE  Owned'
<1> DEFINE t == job[w].tid
           to == job'[w].pc
<1>1. job \in [Workers -> Job] /\ disk \in [Tasks -> Disk] /\ slot \in [Tasks -> Slot]
  BY DEF IInv, Typed, TypeOK
<1>2. job[w].pc \in CancelPCs
  BY DEF CancelStep, CancelLookup, CancelMark, CancelReady, CancelKill, CancelDone,
         CancelFinalize, CancelDoneExpires, At, CancelPCs
<1>3. t \in Tasks /\ disk[t].state # "NONE" /\ disk[t] \in Disk
  BY <1>1, <1>2 DEF IInv, Typed, Reasoned, Owned, JobOwned, CancelPCs
<1>a. ASSUME NEW pc \in CancelPCs, Goto(w, pc)
      PROVE  to = pc /\ job'[w].tid = t /\ \A x \in Workers \ {w} : job'[x] = job[x]
  BY <1>1, <1>a DEF Goto, Job
<1>b. /\ {"ready", "unreg", "kill", "done", "expire", "ret", "mark"} \subseteq CancelPCs
  BY DEF CancelPCs
<1>c. \E pc \in CancelPCs : Goto(w, pc)
  BY <1>b DEF CancelStep, CancelLookup, CancelMark, CancelReady, CancelKill, CancelDone,
              CancelFinalize, CancelDoneExpires
<1>d. UNCHANGED <<launches, run>>
  BY DEF CancelStep, CancelLookup, CancelMark, CancelReady, CancelKill, CancelDone,
         CancelFinalize, CancelDoneExpires, execVars
<1>e. \A x \in Tasks : slot'[x].done = slot[x].done
  <2>1. CASE CancelMark(w)
    <3> DEFINE u == [slot[t] EXCEPT !.cancel = TRUE,
                                    !.reason = IF @ = "none" THEN job[w].why ELSE @]
    <3>1. u.done = slot[t].done
      BY <1>1, <1>3 DEF Slot
    <3>2. slot' = slot \/ slot' = [slot EXCEPT ![t] = u]
      BY <2>1 DEF CancelMark
    <3> HIDE DEF u
    <3> QED
      BY <1>1, <1>3, <3>1, <3>2
  <2>2. CASE CancelKill(w)
    BY <2>2, <1>1, <1>3 DEF CancelKill, Slot
  <2>3. CASE CancelLookup(w) \/ CancelReady(w) \/ CancelDone(w) \/ CancelDoneExpires(w)
             \/ CancelFinalize(w)
    BY <2>3 DEF CancelLookup, CancelReady, CancelDone, CancelDoneExpires, CancelFinalize, execVars
  <2> QED
    BY <2>1, <2>2, <2>3 DEF CancelStep
<1>4. to \in CancelPCs /\ job'[w].tid = t /\ \A x \in Workers \ {w} : job'[x] = job[x]
  BY <1>a, <1>c
<1>5. /\ \A x \in Tasks : Settled(disk[x], disk'[x])
      /\ to = "ret" => disk'[t].state \in Final
  <2>1. CASE CancelFinalize(w)
    <3>1. CancelVerdict(w) \in Verdict
      BY <2>1, VerdictType DEF CancelFinalize, CancelVerdict, Errors, CancelPCs, At,
                               IInv, Typed, Reasoned
    <3>2. disk' = [disk EXCEPT ![t] = Finalized(disk[t], CancelVerdict(w))]
      BY <2>1 DEF CancelFinalize, Update
    <3>3. disk[t].complete => disk[t].state \in Final
      BY <1>3 DEF IInv, Owned, TaskOwned
    <3> QED
      BY <1>1, <1>3, <3>1, <3>2, <3>3, FinalizedSettles DEF Settled
  <2>2. CASE CancelLookup(w)
    BY <1>1, <2>2, RestIsQuiet DEF CancelLookup, Goto
  <2>3. CASE CancelDone(w)
    <3>1. slot[t].done => disk[t].state \in Final
      BY <1>3 DEF IInv, Owned, TaskOwned
    <3> QED
      BY <1>1, <2>3, <3>1, RestIsQuiet DEF CancelDone
  <2>4. CASE CancelMark(w) \/ CancelReady(w) \/ CancelKill(w) \/ CancelDoneExpires(w)
    <3>1. UNCHANGED disk /\ \E pc \in CancelPCs \ {"ret"} : Goto(w, pc)
      BY <1>b, <2>4 DEF CancelMark, CancelReady, CancelKill, CancelDoneExpires
    <3>2. to # "ret"
      BY <1>a, <3>1
    <3> QED
      BY <3>1, <3>2, RestIsQuiet
  <2> QED
    BY <2>1, <2>2, <2>3, <2>4 DEF CancelStep
<1>6. \A x \in Tasks : RunQuiet(x)
  BY <1>d, <1>e, <1>5, RestIsQuiet
<1>7. JobQuiet(w)
  BY <1>3, <1>4, <1>5 DEF JobQuiet, CancelPCs
<1>8. \A x \in Workers \ {w} : JobQuiet(x)
  BY <1>4, <1>5, SameJobIsQuiet
<1> QED
  BY <1>d, <1>5, <1>6, <1>7, <1>8, QuietStep

(* The execution thread, its claim and its launch aside. *)
LEMMA RunOwned ==
  ASSUME IInv, Typed', NEW t \in Tasks,
         \/ Validate(t) \/ SpawnFails(t) \/ Register(t) \/ Collect(t) \/ Receipt(t)
         \/ FinalizeRun(t) \/ FinishRun(t) \/ PopSlot(t)
  PROVE  Owned'
<1>1. slot \in [Tasks -> Slot] /\ run \in [Tasks -> RunPCs] /\ disk \in [Tasks -> Disk]
      /\ out \in [Tasks -> Verdict]
  BY DEF IInv, Typed, TypeOK
<1>2. UNCHANGED <<launches, job>>
      /\ \A x \in Tasks \ {t} : run'[x] = run[x] /\ slot'[x].done = slot[x].done
  BY <1>1 DEF Validate, SpawnFails, Register, Collect, Receipt, FinalizeRun, FinishRun, PopSlot,
              Yield, FlagsUp, Conclude
<1>3. TaskOwned(t)
  BY DEF IInv, Owned
<1>4. (\A x \in Tasks : Settled(disk[x], disk'[x])) /\ RunQuiet(t)
  <2>1. CASE Validate(t)
    <3>1. run[t] = "validate" /\ run'[t] \in {"claim", "finalize"} /\ slot'[t].done = slot[t].done
          /\ UNCHANGED disk
      BY <1>1, <2>1 DEF Validate, RunAt, Yield, FlagsUp, Conclude, Slot
    <3>2. slot[t].done => disk'[t].state \in Final
      BY <1>3, <3>1 DEF TaskOwned
    <3> QED
      BY <3>1, <3>2, RestIsQuiet DEF RunQuiet
  <2>2. CASE SpawnFails(t) \/ Collect(t) \/ Receipt(t)
    <3>1. run[t] \in {"spawn", "wait", "receipt"} /\ run'[t] \in {"receipt", "finalize"}
          /\ slot'[t].done = slot[t].done /\ UNCHANGED disk
      BY <1>1, <2>2 DEF SpawnFails, Collect, Receipt, RunAt, Yield, FlagsUp, Conclude, Slot
    <3> QED
      BY <3>1, RestIsQuiet
  <2>3. CASE Register(t)
    <3>1. run[t] = "register" /\ run'[t] = "wait" /\ slot'[t].done = slot[t].done /\ UNCHANGED disk
      BY <1>1, <2>3 DEF Register, RunAt, Slot
    <3>2. slot[t].done => disk'[t].state \in Final
      BY <1>3, <3>1 DEF TaskOwned
    <3> QED
      BY <3>1, <3>2, RestIsQuiet DEF RunQuiet
  <2>4. CASE FinalizeRun(t)
    <3>1. run[t] = "finalize" /\ run'[t] = "fin"
          /\ disk' = [disk EXCEPT ![t] = Finalized(disk[t], out[t])]
      BY <1>1, <2>4 DEF FinalizeRun, RunAt, Update
    <3>2. disk[t].state # "NONE" /\ (disk[t].complete => disk[t].state \in Final)
      BY <1>3, <3>1 DEF TaskOwned
    <3>3. disk'[t].state \in Final /\ Settled(disk[t], disk'[t])
      BY <1>1, <3>1, <3>2, FinalizedSettles
    <3>4. \A x \in Tasks \ {t} : disk'[x] = disk[x]
      BY <1>1, <3>1
    <3> QED
      BY <3>1, <3>3, <3>4 DEF Settled, RunQuiet
  <2>5. CASE FinishRun(t) \/ PopSlot(t)
    <3>1. run[t] \in {"fin", "pop"} /\ run'[t] \in {"pop", "off"} /\ UNCHANGED disk
      BY <1>1, <2>5 DEF FinishRun, PopSlot, RunAt
    <3>2. disk'[t].state \in Final
      BY <1>3, <3>1 DEF TaskOwned
    <3> QED
      BY <3>1, <3>2, RestIsQuiet DEF RunQuiet
  <2> QED
    BY <2>1, <2>2, <2>3, <2>4, <2>5
<1>5. \A x \in Tasks : RunQuiet(x)
  BY <1>2, <1>4, RestIsQuiet
<1>6. \A w \in Workers : JobQuiet(w)
  BY <1>2, <1>4, SameJobIsQuiet
<1> QED
  BY <1>2, <1>4, <1>5, <1>6, QuietStep

(* The shutdown, the start, and what happens to the sandbox.               *)
LEMMA HostOwned ==
  ASSUME IInv, Typed',
         \/ RequestShutdown \/ StopStep \/ Restart \/ StartStep
         \/ (\E t \in Tasks : SandboxExit(t)) \/ UNCHANGED vars
  PROVE  Owned'
<1>1. /\ slot \in [Tasks -> Slot] /\ run \in [Tasks -> RunPCs] /\ disk \in [Tasks -> Disk]
      /\ job \in [Workers -> Job] /\ active \in SUBSET Tasks /\ pass \in Passes
  BY DEF IInv, Typed, TypeOK
<1>2. CASE ListActive
  <2>1. UNCHANGED <<disk, launches, run, slot>>
    BY <1>2 DEF ListActive, execVars
  <2>2. \A x \in Tasks : Settled(disk[x], disk'[x]) /\ RunQuiet(x)
    BY <2>1, RestIsQuiet
  <2>3. ASSUME NEW w \in Workers
        PROVE  JobQuiet(w)
    <3>1. CASE w \in active' \X {pass}
      <4>1. job'[w] = [pc |-> "lookup", tid |-> w[1], why |-> pass]
        BY <1>2, <2>3, <3>1 DEF ListActive
      <4>2. w[1] \in active' /\ active' = {t \in Tasks : disk[t].state \in Active}
        BY <1>2, <3>1 DEF ListActive
      <4> QED
        BY <4>1, <4>2 DEF JobQuiet, Active
    <3>2. CASE w \notin active' \X {pass}
      <4>1. job'[w] = job[w]
        BY <1>2, <2>3, <3>2 DEF ListActive
      <4> QED
        BY <2>2, <4>1, SameJobIsQuiet
    <3> QED
      BY <3>1, <3>2
  <2> QED
    BY <2>1, <2>2, <2>3, QuietStep
<1>3. CASE ReapRemaining
  <2>1. UNCHANGED <<disk, launches, run, job>> /\ \A t \in Tasks : slot'[t].done = slot[t].done
    BY <1>1, <1>3 DEF ReapRemaining, Slot
  <2>2. \A x \in Tasks : Settled(disk[x], disk'[x]) /\ RunQuiet(x)
    BY <2>1, RestIsQuiet
  <2> QED
    BY <2>1, <2>2, SameJobIsQuiet, QuietStep
<1>4. ASSUME NEW t \in Tasks, NEW v \in Verdict, Update(t, Finalized(disk[t], v)),
             UNCHANGED <<launches, run, slot, job>>
      PROVE  Owned'
  <2>1. \A x \in Tasks : Settled(disk[x], disk'[x])
    BY <1>1, <1>4, FinalizedSettles DEF Update, Settled
  <2>2. \A x \in Tasks : RunQuiet(x)
    BY <1>4, <2>1, RestIsQuiet
  <2>3. \A w \in Workers : JobQuiet(w)
    BY <1>4, <2>1, SameJobIsQuiet
  <2> QED
    BY <1>4, <2>1, <2>2, <2>3, QuietStep
<1>5. ASSUME NEW t \in Tasks, SweepTask(t)
      PROVE  Owned'
  <2>1. Canceled(pass, "drained") \in Verdict
    BY <1>1, VerdictType DEF CancelReasons, Errors
  <2> QED
    BY <1>4, <1>5, <2>1 DEF SweepTask, execVars
<1>6. ASSUME NEW t \in Tasks, RecoverTask(t)
      PROVE  Owned'
  <2>1. Failed("runner_restart") \in Verdict
    BY VerdictType DEF Reasons
  <2> QED
    BY <1>4, <1>6, <2>1 DEF RecoverTask, execVars
<1>7. CASE Exit
  <2>1. UNCHANGED <<disk, launches>>
        /\ (\A t \in Tasks : run'[t] = "off" /\ ~slot'[t].done)
        /\ (\A w \in Workers : job'[w].pc = "idle")
    BY <1>7 DEF Exit, FreshMemory, FreshSlot, Idle
  <2>2. \A x \in Tasks : Settled(disk[x], disk'[x]) /\ RunQuiet(x)
    BY <2>1, RestIsQuiet DEF RunQuiet
  <2>3. \A w \in Workers : JobQuiet(w)
    BY <2>1 DEF JobQuiet, CancelPCs
  <2> QED
    BY <2>1, <2>2, <2>3, QuietStep
<1>8. CASE \/ RequestShutdown \/ JoinCancels \/ SweepDone \/ DrainOver \/ Restart \/ Serve
           \/ (\E t \in Tasks : SandboxExit(t)) \/ UNCHANGED vars
  <2>1. UNCHANGED <<disk, launches, run, slot, job>>
    BY <1>8 DEF RequestShutdown, JoinCancels, SweepDone, DrainOver, Restart, Serve, SandboxExit,
                vars, execVars
  <2>2. \A x \in Tasks : Settled(disk[x], disk'[x]) /\ RunQuiet(x)
    BY <2>1, RestIsQuiet
  <2> QED
    BY <2>1, <2>2, SameJobIsQuiet, QuietStep
<1> QED
  BY <1>2, <1>3, <1>5, <1>6, <1>7, <1>8 DEF StopStep, StartStep

-----------------------------------------------------------------------------
(* The steps that do hand on a right. *)

(* Who creates the record is the only one to start it. *)
LEMMA CreateOwned ==
  ASSUME IInv, Typed', NEW h \in Handlers, CreateTask(h)
  PROVE  Owned'
<1> PICK t : t = job[h].tid
  OBVIOUS
<1>1. /\ h \in Workers /\ t \in Tasks /\ job[h].pc = "create"
      /\ job \in [Workers -> Job] /\ disk \in [Tasks -> Disk]
  BY DEF CreateTask, At, Workers, IInv, Typed, TypeOK, Reasoned
<1>2. UNCHANGED <<launches, run, slot>> /\ disk' = [disk EXCEPT ![t] = Created(disk[t])]
  BY DEF CreateTask, Update, execVars
<1>3. /\ \A x \in Workers \ {h} : job'[x] = job[x]
      /\ job'[h].pc = "start" => CanCreate(disk[t]) /\ job'[h].tid = t
      /\ job'[h].pc \in {"start", "idle"}
  BY <1>1 DEF CreateTask, Idle, Job
<1>4. TaskOwned(t) /\ disk[t] \in Disk
  BY <1>1 DEF IInv, Owned
<1>5. CASE CanCreate(disk[t])
  <2>1. disk[t].state = "NONE" /\ disk'[t].state = "SUBMITTED" /\ ~disk'[t].complete
        /\ launches[t] = 0 /\ run[t] = "off" /\ ~slot[t].done
    BY <1>1, <1>2, <1>4, <1>5, CreateFacts DEF CanCreate, TaskOwned, Final
  <2>2. TaskOwned(t)'
    BY <1>2, <2>1 DEF TaskOwned
  <2>3. \A x \in Tasks \ {t} : TaskOwned(x)'
    BY <1>1, <1>2 DEF IInv, Owned, TaskOwned
  <2>4. \A x \in Workers \ {h} : job[x].pc = "start" => job[x].tid # t
    BY <2>1 DEF IInv, Owned, JobOwned, Final
  <2>5. ASSUME NEW w \in Workers
        PROVE  JobOwned(w)'
    <3>1. CASE w = h
      <4>1. CASE job'[h].pc = "start"
        BY <1>2, <1>3, <2>1, <2>4, <3>1, <4>1 DEF JobOwned, OnlyStarter, CancelPCs
      <4>2. CASE job'[h].pc = "idle"
        BY <3>1, <4>2 DEF JobOwned, CancelPCs
      <4> QED
        BY <1>3, <4>1, <4>2
    <3>2. CASE w # h
      <4>1. job'[w] = job[w] /\ JobOwned(w) /\ (job[w].pc # "idle" => job[w].tid \in Tasks)
        BY <1>3, <3>2 DEF IInv, Owned, Typed, Reasoned
      <4>2. job[w].pc = "start" => job[w].tid # t /\ OnlyStarter(w)'
        BY <1>3, <2>4, <3>2, <4>1 DEF JobOwned, OnlyStarter
      <4>3. job[w].pc \in CancelPCs =>
               job[w].tid \in Tasks /\ disk'[job[w].tid].state # "NONE"
        BY <1>1, <1>2, <2>1, <4>1 DEF JobOwned, CancelPCs
      <4>4. job[w].pc = "ret" => disk'[job[w].tid].state \in Final
        BY <1>1, <1>2, <2>1, <4>1 DEF JobOwned, Final
      <4>5. job[w].pc = "start" =>
               /\ disk'[job[w].tid].state \in {"SUBMITTED"} \cup Final
               /\ launches'[job[w].tid] = 0 /\ run'[job[w].tid] = "off"
        BY <1>1, <1>2, <4>1, <4>2 DEF JobOwned
      <4> QED
        BY <4>1, <4>2, <4>3, <4>4, <4>5 DEF JobOwned
    <3> QED
      BY <3>1, <3>2
  <2> QED
    BY <2>2, <2>3, <2>5 DEF Owned
<1>6. CASE ~CanCreate(disk[t])
  <2>1. UNCHANGED disk /\ job' = [job EXCEPT ![h] = Idle] /\ job'[h].pc = "idle"
    BY <1>1, <1>2, <1>6 DEF Created, CreateTask, Idle
  <2>2. \A x \in Tasks : Settled(disk[x], disk'[x]) /\ RunQuiet(x)
    BY <1>2, <2>1, RestIsQuiet
  <2> QED
    BY <1>1, <1>2, <2>1, <2>2, OneJobIsQuiet, QuietStep DEF CancelPCs
<1> QED
  BY <1>5, <1>6

(* executor.start: the thread takes over from the only starter.            *)
LEMMA StartOwned ==
  ASSUME IInv, Typed', NEW h \in Handlers, StartTask(h)
  PROVE  Owned'
<1> PICK t : t = job[h].tid
  OBVIOUS
<1>1. /\ h \in Workers /\ t \in Tasks /\ job[h].pc = "start"
      /\ job \in [Workers -> Job] /\ slot \in [Tasks -> Slot] /\ run \in [Tasks -> RunPCs]
  BY DEF StartTask, At, Workers, IInv, Typed, TypeOK, Reasoned
<1>2. UNCHANGED <<disk, launches>> /\ job' = [job EXCEPT ![h] = Idle] /\ job'[h].pc = "idle"
  BY <1>1 DEF StartTask, Idle
<1>3. \A w \in Workers : JobQuiet(w)
  BY <1>1, <1>2, OneJobIsQuiet DEF CancelPCs
<1>4. CASE shuttingDown \/ slot[t].reg
  <2>1. UNCHANGED <<run, slot>>
    BY <1>4 DEF StartTask
  <2>2. \A x \in Tasks : Settled(disk[x], disk'[x]) /\ RunQuiet(x)
    BY <1>2, <2>1, RestIsQuiet
  <2> QED
    BY <1>2, <1>3, <2>2, QuietStep
<1>5. CASE ~(shuttingDown \/ slot[t].reg)
  <2>1. run' = [run EXCEPT ![t] = "validate"] /\ ~slot'[t].done
        /\ \A x \in Tasks \ {t} : slot'[x] = slot[x]
    BY <1>1, <1>5 DEF StartTask, FreshSlot
  <2>2. JobOwned(h) /\ TaskOwned(t)
    BY <1>1 DEF IInv, Owned
  <2>3. /\ disk[t].state \in {"SUBMITTED"} \cup Final /\ launches[t] = 0 /\ OnlyStarter(h)
    BY <1>1, <2>2 DEF JobOwned
  <2>4. TaskOwned(t)'
    BY <1>1, <1>2, <2>1, <2>2, <2>3 DEF TaskOwned, Final
  <2>5. \A x \in Tasks \ {t} : TaskOwned(x)'
    BY <1>1, <1>2, <2>1 DEF IInv, Owned, TaskOwned
  <2>6. ASSUME NEW w \in Workers
        PROVE  JobOwned(w)'
    <3>1. CASE w = h
      BY <1>2, <3>1 DEF JobOwned, CancelPCs
    <3>2. CASE w # h
      <4>1. job'[w] = job[w] /\ JobOwned(w)
        BY <1>1, <1>2, <3>2 DEF IInv, Owned
      <4>2. job[w].pc = "start" => job[w].tid # t /\ OnlyStarter(w)'
        BY <1>1, <1>2, <2>3, <3>2, <4>1 DEF JobOwned, OnlyStarter
      <4>3. job[w].pc = "start" => run'[job[w].tid] = "off"
        BY <1>1, <2>1, <4>1, <4>2 DEF JobOwned, IInv, Typed, Reasoned
      <4> QED
        BY <1>2, <4>1, <4>2, <4>3 DEF JobOwned
    <3> QED
      BY <3>1, <3>2
  <2> QED
    BY <2>4, <2>5, <2>6 DEF Owned
<1> QED
  BY <1>4, <1>5

(* transition_working: the thread that claims gets to launch, and has told *)
(* so; one that does not finds the record final.                           *)
LEMMA ClaimOwned ==
  ASSUME IInv, Typed', NEW t \in Tasks, ClaimTask(t)
  PROVE  Owned'
<1>1. /\ run[t] = "claim" /\ disk \in [Tasks -> Disk] /\ run \in [Tasks -> RunPCs]
      /\ slot \in [Tasks -> Slot] /\ TaskOwned(t)
  BY DEF ClaimTask, RunAt, IInv, Typed, TypeOK, Owned
<1>2. UNCHANGED <<launches, job>> /\ disk' = [disk EXCEPT ![t] = Claimed(disk[t])]
  BY DEF ClaimTask, Update
<1>3. CASE CanClaim(disk[t])
  <2>1. run' = [run EXCEPT ![t] = "spawn"] /\ UNCHANGED slot
    BY <1>3 DEF ClaimTask
  <2>2. /\ disk'[t].state = "WORKING" /\ ~disk'[t].complete /\ Announced(disk'[t])
        /\ disk[t].state = "SUBMITTED"
    BY <1>1, <1>2, <1>3, ClaimFacts DEF CanClaim
  <2>3. TaskOwned(t)'
    BY <1>1, <1>2, <2>1, <2>2 DEF TaskOwned, CanClaim, Final
  <2>4. \A x \in Tasks \ {t} : TaskOwned(x)'
    BY <1>1, <1>2, <2>1 DEF IInv, Owned, TaskOwned
  <2>5. ASSUME NEW w \in Workers
        PROVE  JobOwned(w)'
    <3>1. job'[w] = job[w] /\ JobOwned(w)
          /\ (job[w].pc # "idle" => job[w].tid \in Tasks)
      BY <1>2 DEF IInv, Owned, Typed, Reasoned
    <3>2. job[w].pc = "start" => job[w].tid # t
      BY <1>1, <3>1 DEF JobOwned
    <3>3. job[w].pc = "ret" => job[w].tid # t
      BY <2>2, <3>1 DEF JobOwned, Final
    <3>4. job[w].pc \in CancelPCs => job[w].tid \in Tasks /\ disk'[job[w].tid].state # "NONE"
      BY <1>1, <1>2, <2>2, <3>1 DEF JobOwned, CancelPCs
    <3>5. OnlyStarter(w) => OnlyStarter(w)'
      BY <1>2 DEF OnlyStarter
    <3> QED
      BY <1>1, <1>2, <2>1, <3>1, <3>2, <3>3, <3>4, <3>5 DEF JobOwned
  <2> QED
    BY <2>3, <2>4, <2>5 DEF Owned
<1>4. CASE ~CanClaim(disk[t])
  <2>1. UNCHANGED disk /\ run'[t] = "fin" /\ slot'[t].done = slot[t].done
        /\ \A x \in Tasks \ {t} : run'[x] = run[x] /\ slot'[x] = slot[x]
    BY <1>1, <1>2, <1>4 DEF Claimed, ClaimTask, FlagsUp, Slot
  <2>2. disk'[t].state \in Final
    BY <1>1, <1>4, <2>1 DEF TaskOwned, CanClaim
  <2>3. \A x \in Tasks : Settled(disk[x], disk'[x]) /\ RunQuiet(x)
    BY <1>1, <2>1, <2>2, RestIsQuiet DEF RunQuiet
  <2> QED
    BY <1>2, <2>3, SameJobIsQuiet, QuietStep
<1> QED
  BY <1>3, <1>4

(* Popen uses the right up. *)
LEMMA SpawnOwned ==
  ASSUME IInv, Typed', NEW t \in Tasks, Spawn(t)
  PROVE  Owned'
<1>1. /\ run[t] = "spawn" /\ run \in [Tasks -> RunPCs] /\ launches \in [Tasks -> Nat]
      /\ TaskOwned(t)
  BY DEF Spawn, RunAt, IInv, Typed, TypeOK, Owned
<1>2. /\ UNCHANGED <<disk, slot, job>> /\ run' = [run EXCEPT ![t] = "register"]
      /\ launches' = [launches EXCEPT ![t] = launches[t] + 1]
  BY DEF Spawn
<1>3. TaskOwned(t)'
  BY <1>1, <1>2 DEF TaskOwned
<1>4. \A x \in Tasks \ {t} : TaskOwned(x)'
  BY <1>1, <1>2 DEF IInv, Owned, TaskOwned
<1>5. ASSUME NEW w \in Workers
      PROVE  JobOwned(w)'
  <2>1. JobOwned(w)
    BY DEF IInv, Owned
  <2>2. job[w].pc = "start" => job[w].tid # t /\ job[w].tid \in Tasks
    BY <1>1, <2>1 DEF JobOwned, IInv, Typed, Reasoned
  <2> QED
    BY <1>1, <1>2, <2>1, <2>2 DEF JobOwned, OnlyStarter
<1> QED
  BY <1>3, <1>4, <1>5 DEF Owned

(* A crash forgets every thread and every call, and may tear one entry.    *)
LEMMA CrashOwned ==
  ASSUME IInv, Typed', Crash
  PROVE  Owned'
<1>1. /\ UNCHANGED launches
      /\ \A t \in Tasks : run'[t] = "off" /\ ~slot'[t].done
      /\ \A w \in Workers : job'[w].pc = "idle"
  BY DEF Crash, FreshMemory, FreshSlot, Idle
<1>2. ASSUME NEW t \in Tasks
      PROVE  TaskOwned(t)'
  <2>1. TaskOwned(t) /\ disk[t] \in Disk /\ launches'[t] = launches[t]
    BY <1>1 DEF IInv, Owned, Typed, TypeOK
  <2>2. DiskChange(t)
    BY DiskSteps DEF IInv, Next
  <2>3. CASE disk'[t] = disk[t]
    BY <1>1, <2>1, <2>3 DEF TaskOwned
  <2>4. CASE CanCreate(disk[t]) /\ disk'[t] \in {Created(disk[t])} \cup TornCreate(disk[t])
    <3>1. ~disk'[t].complete /\ launches[t] = 0
      BY <2>1, <2>4, CreateFacts DEF CanCreate, TaskOwned, Final
    <3> QED
      BY <1>1, <2>1, <3>1 DEF TaskOwned
  <2>5. CASE CanClaim(disk[t]) /\ disk'[t] \in {Claimed(disk[t])} \cup TornClaim(disk[t])
    <3>1. ~disk'[t].complete /\ launches[t] = 0
      BY <2>1, <2>5, ClaimFacts DEF CanClaim, TaskOwned, Final
    <3> QED
      BY <1>1, <2>1, <3>1 DEF TaskOwned
  <2>6. ASSUME NEW v \in Verdict, CanFinalize(disk[t]),
               disk'[t] \in {Finalized(disk[t], v)} \cup TornFinalize(disk[t], v)
        PROVE  TaskOwned(t)'
    <3>1. /\ disk'[t].state \in Final
          /\ Announced(disk[t]) => Announced(disk'[t])
          /\ disk'[t].complete => Ended(disk'[t])
      BY <2>1, <2>6, FinalizeFacts, FinalizedEnds DEF Verdict, CanFinalize
    <3> QED
      BY <1>1, <2>1, <3>1 DEF TaskOwned
  <2> QED
    BY <2>2, <2>3, <2>4, <2>5, <2>6 DEF DiskChange
<1>3. \A w \in Workers : JobOwned(w)'
  BY <1>1 DEF JobOwned, CancelPCs
<1> QED
  BY <1>2, <1>3 DEF Owned

LEMMA InitOwned == Init => Owned
<1> SUFFICES ASSUME Init PROVE Owned
  OBVIOUS
<1>1. NoTask.state = "NONE" /\ ~NoTask.complete /\ ~FreshSlot.done /\ Idle.pc = "idle"
  BY DEF NoTask, FreshSlot, Idle
<1>2. \A t \in Tasks : TaskOwned(t)
  BY <1>1 DEF Init, TaskOwned
<1>3. \A w \in Workers : JobOwned(w)
  BY <1>1 DEF Init, JobOwned, CancelPCs
<1> QED
  BY <1>2, <1>3 DEF Owned

LEMMA InvStep == IInv /\ [Next]_vars => IInv'
<1> SUFFICES ASSUME IInv, [Next]_vars PROVE IInv'
  OBVIOUS
<1>1. Typed'
  BY StepTyped DEF IInv
<1>2. Owned'
  BY <1>1, HandlerOwned, CreateOwned, StartOwned, CancelOwned, RunOwned, ClaimOwned,
     SpawnOwned, HostOwned, CrashOwned
  DEF Next, HandlerStep, RunStep
<1> QED
  BY <1>1, <1>2 DEF IInv

(* Together: at every moment a task has one owner at most who may start,   *)
(* claim or launch it (Executor.start, transition_working, Popen).         *)
THEOREM Invariance == Spec => []IInv
<1>1. Init => IInv
  BY InitTyped, InitOwned DEF IInv
<1> QED
  BY <1>1, InvStep, PTL DEF Spec

(* A task id is launched at most once, over duplicated messages, cancels,  *)
(* crashes and restarts: TaskStore and Executor together.                  *)
THEOREM LaunchedOnce == Spec => []AtMostOneLaunch
<1>1. IInv => AtMostOneLaunch
  BY DEF IInv, Owned, TaskOwned, AtMostOneLaunch
<1> QED
  BY <1>1, Invariance, PTL

(* No sandbox without its WORKING event: a task cancelled before its claim *)
(* is never launched.                                                      *)
THEOREM NeverLaunchedSilently == Spec => []LaunchIsAnnounced
<1>1. IInv => LaunchIsAnnounced
  BY DEF IInv, Typed, TypeOK, Owned, TaskOwned, Announced, LaunchIsAnnounced
<1> QED
  BY <1>1, Invariance, PTL

(* events_complete only with a terminal event in the log, torn writes of   *)
(* finalize included: a stream never ends early.                           *)
THEOREM CompletedIsPublished == Spec => []CompleteIsPublished
<1>1. IInv => CompleteIsPublished
  BY DEF IInv, Owned, TaskOwned, Ended, Terminals, CompleteIsPublished
<1> QED
  BY <1>1, Invariance, PTL

(* Executor.cancel returns a final record on each of its ways out. *)
THEOREM CancelsEndFinal == Spec => []CancelReturnsFinal
<1>1. IInv => CancelReturnsFinal
  BY DEF IInv, Owned, JobOwned, CancelReturnsFinal
<1> QED
  BY <1>1, Invariance, PTL

-----------------------------------------------------------------------------
(* The log names no terminal state before the record does, and ends on the *)
(* record's when it names one.                                             *)
Truthful(d) ==
  \A i \in Terminals(d.log) : i = Len(d.log) /\ d.log[i] = d.state

LEMMA LoggedTerminals ==
  ASSUME NEW d \in Disk, NEW e \in Events, Terminals(d.log) = {}
  PROVE  /\ e \notin Final => Terminals(Logged(d, e).log) = {}
         /\ e = d.state => Truthful(Logged(d, e))
<1> DEFINE l == Append(d.log, e)
<1>1. d.log \in Seq(Events)
  BY DEF Disk
<1>2. Logged(d, e).log = l /\ Logged(d, e).state = d.state
  BY DEF Logged, Disk
<1>3. /\ DOMAIN l = 1 .. Len(d.log) + 1
      /\ \A i \in 1 .. Len(d.log) : l[i] = d.log[i]
      /\ l[Len(d.log) + 1] = e
      /\ Len(l) = Len(d.log) + 1
      /\ DOMAIN d.log = 1 .. Len(d.log)
      /\ Len(d.log) \in Nat
  BY <1>1
<1> HIDE DEF l
<1>4. Terminals(l) \subseteq {Len(l)}
  BY <1>3 DEF Terminals
<1>5. e \notin Final => Terminals(l) = {}
  BY <1>3, <1>4 DEF Terminals
<1> QED
  BY <1>2, <1>3, <1>4, <1>5 DEF Truthful

(* A record that is not final has no terminal event, by Truthful. *)
LEMMA NoTerminalYet ==
  ASSUME NEW d \in Disk, Truthful(d), d.state \notin Final
  PROVE  Terminals(d.log) = {}
BY DEF Truthful, Terminals

(* A record that is created, or half created, names no terminal state.     *)
LEMMA CreateTruthful ==
  ASSUME NEW d \in Disk, Truthful(d), CanCreate(d),
         NEW x \in {Created(d)} \cup TornCreate(d)
  PROVE  Truthful(x)
<1> DEFINE r == [d EXCEPT !.state = "SUBMITTED"]
           e == [r EXCEPT !.log = <<>>]
<1>0. << >> \in Seq(Events) /\ Terminals(<< >>) = {}
  BY DEF Terminals
<1>1. r \in Disk /\ r.log = d.log
  BY DEF Disk, Active
<1>2. e \in Disk /\ Terminals(e.log) = {}
  BY <1>0, <1>1 DEF Disk
<1>3. Terminals(r.log) = {}
  BY <1>1, NoTerminalYet DEF CanCreate, Final
<1>4. Terminals(Logged(e, "SUBMITTED").log) = {}
  BY <1>2, LoggedTerminals DEF Events, Active, Final
<1>5. x \in {r, e, Logged(e, "SUBMITTED")}
  <2>1. CreateImages(d)[1] = r /\ CreateImages(d)[2] = e
          /\ CreateImages(d)[3] = Logged(e, "SUBMITTED")
    BY DEF CreateImages
  <2>2. \A i \in 1..2 : i = 1 \/ i = 2
    OBVIOUS
  <2> HIDE DEF r, e
  <2> QED
    BY <2>1, <2>2 DEF Created, TornCreate
<1> HIDE DEF r, e
<1> QED
  BY <1>2, <1>3, <1>4, <1>5 DEF Truthful

(* Nor does one that is claimed, or half claimed.                          *)
LEMMA ClaimTruthful ==
  ASSUME NEW d \in Disk, Truthful(d), CanClaim(d),
         NEW x \in {Claimed(d)} \cup TornClaim(d)
  PROVE  Truthful(x)
<1> DEFINE r == [d EXCEPT !.state = "WORKING"]
<1>1. r \in Disk /\ r.log = d.log
  BY DEF Disk, Active
<1>2. Terminals(r.log) = {}
  BY <1>1, NoTerminalYet DEF CanClaim, Final
<1>3. Terminals(Logged(r, "WORKING").log) = {}
  BY <1>1, <1>2, LoggedTerminals DEF Events, Active, Final
<1>4. ClaimImages(d)[1] = r /\ ClaimImages(d)[2] = Logged(r, "WORKING")
  BY DEF ClaimImages
<1>5. x \in {r, Logged(r, "WORKING")}
  BY <1>4 DEF Claimed, TornClaim
<1> HIDE DEF r
<1> QED
  BY <1>2, <1>3, <1>5 DEF Truthful

(* finalize appends the terminal event last, after the record, and torn it *)
(* has not got that far.                                                   *)
LEMMA FinalizeTruthful ==
  ASSUME NEW d \in Disk, NEW v \in Verdict, Truthful(d), CanFinalize(d),
         NEW x \in {Finalized(d, v)} \cup TornFinalize(d, v)
  PROVE  Truthful(x)
<1> DEFINE r == [d EXCEPT !.state = v.state, !.reason = v.reason, !.error = v.error]
           a == IF v.art THEN Logged(r, "artifact") ELSE r
           s == Logged(a, v.state)
           c == [s EXCEPT !.complete = TRUE]
<1>1. r \in Disk /\ r.log = d.log /\ r.state = v.state
  BY DEF Disk, Verdict, Active
<1>2. Terminals(r.log) = {}
  BY <1>1, NoTerminalYet DEF CanFinalize, Active, Final
<1>3. a \in Disk /\ Terminals(a.log) = {} /\ a.state = v.state
  BY <1>1, <1>2, LoggedType, LoggedFacts, LoggedTerminals DEF Events, Active, Final
<1>4. s \in Disk /\ Truthful(s)
  BY <1>3, LoggedType, LoggedTerminals DEF Verdict, Events
<1>5. Truthful(c)
  BY <1>4 DEF Disk, Truthful
<1>6. x \in {r, a, s, c}
  <2>1. FinalizeImages(d, v)[1] = r /\ FinalizeImages(d, v)[2] = a
          /\ FinalizeImages(d, v)[3] = s /\ FinalizeImages(d, v)[4] = c
    BY DEF FinalizeImages
  <2>2. \A i \in 1..3 : i = 1 \/ i = 2 \/ i = 3
    OBVIOUS
  <2> HIDE DEF r, a, s, c
  <2> QED
    BY <2>1, <2>2 DEF Finalized, TornFinalize
<1> HIDE DEF r, a, s, c
<1> QED
  BY <1>2, <1>3, <1>4, <1>5, <1>6 DEF Truthful

(* What a subscriber reads stands: at most one terminal event, the last,   *)
(* that of the record, and no end of stream before it (TaskStore.create,   *)
(* transition_working and finalize, and a crash between any two writes).   *)
THEOREM LogNeverLies == Spec => []LogIsTrue
<1> DEFINE T == \A t \in Tasks : Truthful(disk[t])
<1>1. Init => T
  <2>1. Truthful(NoTask)
    BY DEF NoTask, Truthful, Terminals
  <2> QED
    BY <2>1 DEF Init
<1>2. IInv /\ T /\ [Next]_vars => T'
  <2> SUFFICES ASSUME IInv, T, [Next]_vars, NEW t \in Tasks
               PROVE  Truthful(disk[t])'
    OBVIOUS
  <2>1. DiskChange(t) /\ disk[t] \in Disk /\ Truthful(disk[t])
    BY DiskSteps DEF IInv, Typed, TypeOK
  <2>2. Truthful(disk'[t])
    BY <2>1, CreateTruthful, ClaimTruthful, FinalizeTruthful DEF DiskChange
  <2> QED
    BY <2>2
<1>3. IInv /\ T => LogIsTrue
  BY DEF IInv, Owned, TaskOwned, Ended, Terminals, CompleteIsPublished, LogIsTrue, Truthful
<1> HIDE DEF T
<1> QED
  BY <1>1, <1>2, <1>3, Invariance, PTL DEF Spec

-----------------------------------------------------------------------------
(* The refinement of TaskLifecycle: only creating, claiming, settling and  *)
(* launching touch what it can see, each as one of its actions; a crash    *)
(* inside one of them is the action, or a part it cannot see.              *)

(* Whatever somebody is about to finalize with is a verdict. *)
LEMMA PendingVerdicts ==
  ASSUME Typed, NEW x \in Tasks, NEW v \in Pending(x)
  PROVE  v \in Verdict
<1> USE DEF Typed, TypeOK, Reasoned
<1>1. \A w \in Workers : job[w].pc \in {"unreg", "expire"} => CancelVerdict(w) \in Verdict
  BY VerdictType DEF CancelVerdict, Errors, CancelPCs
<1> QED
  BY <1>1, VerdictType DEF Pending, CancelReasons, Errors, Reasons

(* Most steps are none of the lifecycle: they keep every record, every     *)
(* launch and every permit.                                                *)
LEMMA KeepsLifecycle ==
  ASSUME UNCHANGED <<disk, launches>>,
         \A t \in Tasks : run'[t] = "spawn" <=> run[t] = "spawn"
  PROVE  UNCHANGED Lifecycle!lifecycle
BY DEF Lifecycle!lifecycle

(* A verdict that is accepted settles the task; one that is not does       *)
(* nothing.                                                                *)
LEMMA SettlesLifecycle ==
  ASSUME IInv, NEW t \in Tasks, NEW v \in Verdict, Update(t, Finalized(disk[t], v)),
         UNCHANGED launches, \A x \in Tasks : run'[x] = "spawn" <=> run[x] = "spawn"
  PROVE  [Lifecycle!LifecycleNext]_(Lifecycle!lifecycle)
<1>1. disk \in [Tasks -> Disk] /\ disk' = [disk EXCEPT ![t] = Finalized(disk[t], v)]
  BY DEF IInv, Typed, TypeOK, Update
<1>2. CASE CanFinalize(disk[t])
  <2>1. /\ disk[t].state \in Active /\ disk'[t].state = v.state /\ disk'[t].complete = TRUE
        /\ \A x \in Tasks \ {t} : disk'[x] = disk[x]
    BY <1>1, <1>2, FinalizeFacts, FinalizeType DEF CanFinalize, Disk
  <2>2. v.state \in Lifecycle!Final /\ disk[t].state \in Lifecycle!Active
    BY <2>1 DEF Verdict, Lifecycle!Final, Lifecycle!Active, Final, Active
  <2>3. Lifecycle!Settle(t, v.state, TRUE)
    <3>1. [x \in Tasks |-> disk'[x].state]
            = [[x \in Tasks |-> disk[x].state] EXCEPT ![t] = v.state]
      BY <2>1
    <3>2. [x \in Tasks |-> disk'[x].complete]
            = [[x \in Tasks |-> disk[x].complete] EXCEPT ![t] = TRUE]
      BY <2>1
    <3>3. [x \in Tasks |-> run'[x] = "spawn"] = [x \in Tasks |-> run[x] = "spawn"]
      OBVIOUS
    <3> QED
      BY <2>2, <3>1, <3>2, <3>3 DEF Lifecycle!Settle
  <2> QED
    BY <2>2, <2>3 DEF Lifecycle!LifecycleNext
<1>3. CASE ~CanFinalize(disk[t])
  BY <1>1, <1>3, KeepsLifecycle DEF Finalized
<1> QED
  BY <1>2, <1>3

(* store.create maps to Submit, or to nothing.                             *)
LEMMA CreateLifecycle ==
  ASSUME IInv, NEW h \in Handlers, CreateTask(h)
  PROVE  [Lifecycle!LifecycleNext]_(Lifecycle!lifecycle)
<1> PICK t : t = job[h].tid
  OBVIOUS
<1>1. t \in Tasks /\ disk \in [Tasks -> Disk]
  BY DEF CreateTask, At, Workers, IInv, Typed, TypeOK, Reasoned
<1>2. UNCHANGED <<launches, run>> /\ disk' = [disk EXCEPT ![t] = Created(disk[t])]
  BY DEF CreateTask, Update, execVars
<1>3. CASE CanCreate(disk[t])
  <2>1. /\ disk[t].state = "NONE" /\ disk'[t].state = "SUBMITTED"
        /\ disk'[t].complete = disk[t].complete
        /\ \A x \in Tasks \ {t} : disk'[x] = disk[x]
    BY <1>1, <1>2, <1>3, CreateFacts DEF CanCreate
  <2>2. Lifecycle!Submit(t)
    <3>1. [x \in Tasks |-> disk'[x].state]
            = [[x \in Tasks |-> disk[x].state] EXCEPT ![t] = "SUBMITTED"]
      BY <2>1
    <3>2. [x \in Tasks |-> disk'[x].complete] = [x \in Tasks |-> disk[x].complete]
      BY <2>1
    <3> QED
      BY <1>1, <1>2, <2>1, <3>1, <3>2 DEF Lifecycle!Submit
  <2> QED
    BY <1>1, <2>2 DEF Lifecycle!LifecycleNext
<1>4. CASE ~CanCreate(disk[t])
  BY <1>1, <1>2, <1>4, KeepsLifecycle DEF Created
<1> QED
  BY <1>3, <1>4

(* transition_working maps to Claim, or to nothing.                        *)
LEMMA ClaimLifecycle ==
  ASSUME IInv, NEW t \in Tasks, ClaimTask(t)
  PROVE  [Lifecycle!LifecycleNext]_(Lifecycle!lifecycle)
<1>1. disk \in [Tasks -> Disk] /\ run \in [Tasks -> RunPCs] /\ run[t] = "claim"
  BY DEF ClaimTask, RunAt, IInv, Typed, TypeOK
<1>2. UNCHANGED launches /\ disk' = [disk EXCEPT ![t] = Claimed(disk[t])]
  BY DEF ClaimTask, Update
<1>3. CASE CanClaim(disk[t])
  <2>1. /\ disk[t].state = "SUBMITTED" /\ disk'[t].state = "WORKING"
        /\ disk'[t].complete = disk[t].complete
        /\ \A x \in Tasks \ {t} : disk'[x] = disk[x]
    BY <1>1, <1>2, <1>3, ClaimFacts DEF CanClaim
  <2>2. run'[t] = "spawn" /\ \A x \in Tasks \ {t} : run'[x] = run[x]
    BY <1>1, <1>3 DEF ClaimTask
  <2>3. Lifecycle!Begin(t)
    <3>1. [x \in Tasks |-> disk'[x].state]
            = [[x \in Tasks |-> disk[x].state] EXCEPT ![t] = "WORKING"]
      BY <2>1
    <3>2. [x \in Tasks |-> disk'[x].complete] = [x \in Tasks |-> disk[x].complete]
      BY <2>1
    <3>3. [x \in Tasks |-> run'[x] = "spawn"]
            = [[x \in Tasks |-> run[x] = "spawn"] EXCEPT ![t] = TRUE]
      BY <2>2
    <3> QED
      BY <1>2, <2>1, <3>1, <3>2, <3>3 DEF Lifecycle!Begin
  <2> QED
    BY <2>3 DEF Lifecycle!LifecycleNext
<1>4. CASE ~CanClaim(disk[t])
  <2>1. UNCHANGED disk /\ run' = [run EXCEPT ![t] = "fin"]
    BY <1>1, <1>2, <1>4 DEF Claimed, ClaimTask
  <2> QED
    BY <1>1, <1>2, <2>1, KeepsLifecycle
<1> QED
  BY <1>3, <1>4

(* The permit is used up or given up. *)
LEMMA SpawnLifecycle ==
  ASSUME IInv, NEW t \in Tasks, Spawn(t) \/ SpawnFails(t)
  PROVE  [Lifecycle!LifecycleNext]_(Lifecycle!lifecycle)
<1>1. /\ run[t] = "spawn" /\ run \in [Tasks -> RunPCs] /\ launches \in [Tasks -> Nat]
      /\ launches[t] = 0 /\ UNCHANGED disk
  BY DEF Spawn, SpawnFails, RunAt, IInv, Typed, TypeOK, Owned, TaskOwned
<1>2. CASE Spawn(t)
  <2>1. /\ run' = [run EXCEPT ![t] = "register"]
        /\ launches' = [launches EXCEPT ![t] = launches[t] + 1]
    BY <1>2 DEF Spawn
  <2>2. /\ run'[t] # "spawn" /\ \A x \in Tasks \ {t} : run'[x] = run[x]
        /\ launches'[t] > 0 /\ ~(launches[t] > 0)
        /\ \A x \in Tasks \ {t} : launches'[x] = launches[x]
    BY <1>1, <2>1
  <2>3. Lifecycle!Launch(t)
    <3>1. [x \in Tasks |-> run'[x] = "spawn"]
            = [[x \in Tasks |-> run[x] = "spawn"] EXCEPT ![t] = FALSE]
      BY <2>2
    <3>2. [x \in Tasks |-> launches'[x] > 0]
            = [[x \in Tasks |-> launches[x] > 0] EXCEPT ![t] = TRUE]
      BY <2>2
    <3> QED
      BY <1>1, <2>2, <3>1, <3>2 DEF Lifecycle!Launch
  <2> QED
    BY <2>3 DEF Lifecycle!LifecycleNext
<1>3. CASE SpawnFails(t)
  <2>1. UNCHANGED launches /\ run'[t] # "spawn" /\ \A x \in Tasks \ {t} : run'[x] = run[x]
    BY <1>1, <1>3 DEF SpawnFails, Yield, Conclude
  <2>2. Lifecycle!GiveUp(t)
    BY <1>1, <2>1 DEF Lifecycle!GiveUp
  <2> QED
    BY <2>2 DEF Lifecycle!LifecycleNext
<1> QED
  BY <1>2, <1>3

(* A crash takes every permit away, and tears one write at most; a runner  *)
(* that exits takes them away too.                                         *)
LEMMA CrashLifecycle ==
  ASSUME IInv, Crash \/ Exit
  PROVE  [Lifecycle!LifecycleNext]_(Lifecycle!lifecycle)
<1>1. UNCHANGED launches /\ run' = [t \in Tasks |-> "off"] /\ disk \in [Tasks -> Disk]
  BY DEF Crash, Exit, FreshMemory, IInv, Typed, TypeOK
<1>2. CASE UNCHANGED disk
  <2>1. Lifecycle!Crashes
    BY <1>1, <1>2 DEF Lifecycle!Crashes
  <2> QED
    BY <2>1 DEF Lifecycle!LifecycleNext
<1>3. ASSUME NEW t \in Tasks, NEW d \in Torn(t), Update(t, d), Crash
      PROVE  [Lifecycle!LifecycleNext]_(Lifecycle!lifecycle)
  <2>1. disk' = [disk EXCEPT ![t] = d] /\ disk'[t] = d /\ \A x \in Tasks \ {t} : disk'[x] = disk[x]
    BY <1>1, <1>3 DEF Update
  <2>2. disk[t] \in Disk
    BY <1>1
  <2>3. \/ d.state = "SUBMITTED" /\ disk[t].state = "NONE"
        \/ d.state = "WORKING" /\ disk[t].state = "SUBMITTED"
        \/ d.state \in Lifecycle!Final /\ disk[t].state \in Lifecycle!Active
    <3>1. CASE d \in TornCreate(disk[t])
      BY <2>2, <3>1, CreateFacts DEF TornCreate, CanCreate
    <3>2. CASE d \in TornClaim(disk[t])
      BY <2>2, <3>2, ClaimFacts DEF TornClaim, CanClaim
    <3>3. ASSUME NEW v \in Pending(t), d \in TornFinalize(disk[t], v)
          PROVE  d.state \in Lifecycle!Final /\ disk[t].state \in Lifecycle!Active
      <4>1. v \in Verdict /\ CanFinalize(disk[t])
        BY <3>3, PendingVerdicts DEF TornFinalize, IInv
      <4> QED
        BY <2>2, <3>3, <4>1, FinalizeFacts
        DEF Verdict, CanFinalize, Lifecycle!Final, Lifecycle!Active, Final, Active
    <3> QED
      BY <1>3, <3>1, <3>2, <3>3 DEF Torn
  <2>4. d.complete = disk[t].complete
    <3>1. CASE d \in TornCreate(disk[t])
      BY <2>2, <3>1, CreateFacts DEF TornCreate
    <3>2. CASE d \in TornClaim(disk[t])
      BY <2>2, <3>2, ClaimFacts DEF TornClaim
    <3>3. ASSUME NEW v \in Pending(t), d \in TornFinalize(disk[t], v)
          PROVE  d.complete = disk[t].complete
      BY <2>2, <3>3, PendingVerdicts, FinalizeFacts DEF TornFinalize, IInv
    <3> QED
      BY <1>3, <3>1, <3>2, <3>3 DEF Torn
  <2>5. Lifecycle!Crashes
    <3>1. [x \in Tasks |-> disk'[x].state]
            = [[x \in Tasks |-> disk[x].state] EXCEPT ![t] = d.state]
      <4>1. \A x \in Tasks : disk'[x].state = IF x = t THEN d.state ELSE disk[x].state
        BY <2>1
      <4> QED
        BY <4>1
    <3>2. [x \in Tasks |-> disk'[x].complete] = [x \in Tasks |-> disk[x].complete]
      BY <2>1, <2>4
    <3>3. [x \in Tasks |-> run'[x] = "spawn"] = [x \in Tasks |-> FALSE]
      BY <1>1
    <3> QED
      BY <1>1, <2>3, <3>1, <3>2, <3>3 DEF Lifecycle!Crashes
  <2> QED
    BY <2>5 DEF Lifecycle!LifecycleNext
<1> QED
  BY <1>2, <1>3 DEF Crash, Exit

(* What every other step does to the permits: nothing. *)
LEMMA RestLifecycle ==
  ASSUME IInv,
         \/ \E h \in Handlers, t \in Tasks : SendMessage(h, t) \/ CancelTask(h, t)
         \/ \E h \in Handlers : StartTask(h) \/ CancelReply(h)
         \/ \E w \in Workers : (CancelStep(w) /\ ~CancelFinalize(w)) \/ CancelDoneExpires(w)
         \/ \E t \in Tasks : \/ Validate(t) \/ Register(t) \/ Collect(t) \/ Receipt(t)
                             \/ FinishRun(t) \/ PopSlot(t) \/ SandboxExit(t)
         \/ RequestShutdown \/ ListActive \/ JoinCancels \/ ReapRemaining \/ SweepDone
         \/ DrainOver \/ Restart \/ Serve \/ UNCHANGED vars
  PROVE  UNCHANGED Lifecycle!lifecycle
<1> USE DEF execVars
<1>1. run \in [Tasks -> RunPCs]
  BY DEF IInv, Typed, TypeOK
<1>2. ASSUME NEW h \in Handlers, StartTask(h)
      PROVE  UNCHANGED Lifecycle!lifecycle
  <2>1. run[job[h].tid] = "off" /\ job[h].tid \in Tasks
    BY <1>2 DEF StartTask, At, IInv, Owned, JobOwned, Typed, Reasoned, Workers
  <2>2. \A t \in Tasks : run'[t] = "spawn" <=> run[t] = "spawn"
    BY <1>1, <1>2, <2>1 DEF StartTask
  <2> QED
    BY <1>2, <2>2, KeepsLifecycle DEF StartTask
<1>3. ASSUME NEW t \in Tasks,
             \/ Validate(t) \/ Register(t) \/ Collect(t) \/ Receipt(t) \/ FinishRun(t)
             \/ PopSlot(t)
      PROVE  UNCHANGED Lifecycle!lifecycle
  <2>1. UNCHANGED <<disk, launches>> /\ run[t] # "spawn"
    BY <1>3 DEF Validate, Register, Collect, Receipt, FinishRun, PopSlot, RunAt
  <2>2. \E pc \in RunPCs \ {"spawn"} : run' = [run EXCEPT ![t] = pc]
    BY <1>3 DEF Validate, Register, Collect, Receipt, FinishRun, PopSlot, Yield, Conclude, RunPCs
  <2> QED
    BY <1>1, <2>1, <2>2, KeepsLifecycle
<1>4. CASE \/ \E h \in Handlers, t \in Tasks : SendMessage(h, t) \/ CancelTask(h, t)
           \/ \E h \in Handlers : CancelReply(h)
           \/ \E w \in Workers : (CancelStep(w) /\ ~CancelFinalize(w)) \/ CancelDoneExpires(w)
           \/ \E t \in Tasks : SandboxExit(t)
           \/ RequestShutdown \/ ListActive \/ JoinCancels \/ ReapRemaining \/ SweepDone
           \/ DrainOver \/ Restart \/ Serve \/ UNCHANGED vars
  <2>1. UNCHANGED <<disk, launches, run>>
    BY <1>4 DEF SendMessage, CancelTask, CancelReply, CancelStep, CancelLookup, CancelMark,
                CancelReady, CancelKill, CancelDone, CancelDoneExpires, SandboxExit,
                RequestShutdown, ListActive, JoinCancels, ReapRemaining, SweepDone, DrainOver,
                Restart, Serve, vars
  <2> QED
    BY <2>1, KeepsLifecycle
<1> QED
  BY <1>2, <1>3, <1>4

(* Every step of the runner is one of the lifecycle, or none. *)
LEMMA LifecycleStep ==
  IInv /\ [Next]_vars => [Lifecycle!LifecycleNext]_(Lifecycle!lifecycle)
<1> SUFFICES ASSUME IInv, [Next]_vars
             PROVE  [Lifecycle!LifecycleNext]_(Lifecycle!lifecycle)
  OBVIOUS
<1>1. ASSUME NEW w \in Workers, CancelFinalize(w)
      PROVE  [Lifecycle!LifecycleNext]_(Lifecycle!lifecycle)
  <2>1. job[w].tid \in Tasks /\ CancelVerdict(w) \in Verdict
    BY <1>1, VerdictType
    DEF CancelFinalize, CancelVerdict, At, CancelPCs, Errors, IInv, Typed, Reasoned
  <2> QED
    BY <1>1, <2>1, SettlesLifecycle DEF CancelFinalize, execVars
<1>2. ASSUME NEW t \in Tasks, FinalizeRun(t)
      PROVE  [Lifecycle!LifecycleNext]_(Lifecycle!lifecycle)
  <2>1. out[t] \in Verdict /\ run \in [Tasks -> RunPCs]
    BY DEF IInv, Typed, TypeOK
  <2>2. \A x \in Tasks : run'[x] = "spawn" <=> run[x] = "spawn"
    BY <1>2, <2>1 DEF FinalizeRun, RunAt
  <2> QED
    BY <1>2, <2>1, <2>2, SettlesLifecycle DEF FinalizeRun
<1>3. ASSUME NEW t \in Tasks, SweepTask(t) \/ RecoverTask(t)
      PROVE  [Lifecycle!LifecycleNext]_(Lifecycle!lifecycle)
  <2>1. Canceled(pass, "drained") \in Verdict /\ Failed("runner_restart") \in Verdict
    BY VerdictType DEF IInv, Typed, TypeOK, CancelReasons, Errors, Reasons
  <2> QED
    BY <1>3, <2>1, SettlesLifecycle DEF SweepTask, RecoverTask, execVars
<1> QED
  BY <1>1, <1>2, <1>3, CreateLifecycle, ClaimLifecycle, SpawnLifecycle, CrashLifecycle,
     RestLifecycle
  DEF Next, HandlerStep, CancelStep, RunStep, StopStep, StartStep

(* The runner with its threads, slots, cancels, shutdowns, crashes and     *)
(* restarts implements the lifecycle promised to the caller.               *)
THEOREM Implements == Spec => ImplementsLifecycle
<1>1. Init => Lifecycle!LifecycleInit
  <2> SUFFICES ASSUME Init PROVE Lifecycle!LifecycleInit
    OBVIOUS
  <2>1. NoTask.state = "NONE" /\ NoTask.complete = FALSE
    BY DEF NoTask
  <2>2. \A t \in Tasks : /\ disk[t].state = "NONE" /\ disk[t].complete = FALSE
                         /\ (run[t] = "spawn") = FALSE /\ (launches[t] > 0) = FALSE
    BY <2>1 DEF Init
  <2> QED
    BY <2>2 DEF Lifecycle!LifecycleInit
<1> QED
  BY <1>1, LifecycleStep, Invariance, PTL
  DEF Spec, ImplementsLifecycle, Lifecycle!LifecycleSpec

-----------------------------------------------------------------------------
(* Somebody sees to every active task. The invariant adds to ownership     *)
(* that slots and threads come and go together, and that nothing happens   *)
(* before the runner serves.                                               *)

(* What a process keeps in memory is fresh until it serves.                *)
Fresh ==
  mode # "serve" =>
    /\ sd = "none"
    /\ \A t \in Tasks : run[t] = "off" /\ slot[t] = FreshSlot
    /\ \A w \in Workers : job[w].pc = "idle"

(* A slot is registered while its thread runs, a cancel needs a task, and  *)
(* an active task is left to nobody only in a shutdown.                    *)
Starting(t) == \E h \in Handlers : job[h].pc = "start" /\ job[h].tid = t

TaskManned(t) ==
  /\ slot[t].reg <=> run[t] # "off"
  /\ slot[t].cancel => disk[t].state # "NONE"
  /\ mode = "serve" /\ disk[t].state \in Active =>
       run[t] # "off" \/ (disk[t].state = "SUBMITTED" /\ (shuttingDown \/ Starting(t)))

Manned == Fresh /\ (sd # "none" => shuttingDown) /\ \A t \in Tasks : TaskManned(t)

MInv == IInv /\ Manned

(* How the state of a record moves, whatever is done to it.                *)
StateMoves(d, e) ==
  \/ e.state = d.state
  \/ d.state = "NONE" /\ e.state = "SUBMITTED"
  \/ d.state = "SUBMITTED" /\ e.state = "WORKING"
  \/ d.state \in Active /\ e.state \in Final

LEMMA StateSteps ==
  ASSUME IInv, [Next]_vars, NEW t \in Tasks
  PROVE  StateMoves(disk[t], disk'[t])
<1>1. DiskChange(t) /\ disk[t] \in Disk
  BY DiskSteps DEF IInv, Typed, TypeOK
<1> QED
  BY <1>1, CreateFacts, ClaimFacts, FinalizeFacts
  DEF DiskChange, StateMoves, CanCreate, CanClaim, CanFinalize, Verdict

(* A slot, flag by flag; how it came to be cleaned up does not matter.     *)
Flags(s, reg, cancel, prc, ready, done) ==
  s.reg = reg /\ s.cancel = cancel /\ s.proc = prc /\ s.ready = ready /\ s.done = done

(* The flag updates of the code once more, now by what they leave.         *)
LEMMA SlotFields ==
  ASSUME NEW s \in Slot
  PROVE  /\ Flags([s EXCEPT !.ready = TRUE, !.cleanup = TRUE],
                  s.reg, s.cancel, s.proc, TRUE, s.done)
         /\ Flags([s EXCEPT !.proc = TRUE, !.ready = TRUE],
                  s.reg, s.cancel, TRUE, TRUE, s.done)
         /\ Flags([s EXCEPT !.ready = TRUE, !.done = TRUE],
                  s.reg, s.cancel, s.proc, TRUE, TRUE)
         /\ Flags([s EXCEPT !.reg = FALSE], FALSE, s.cancel, s.proc, s.ready, s.done)
         /\ Flags([s EXCEPT !.cleanup = TRUE], s.reg, s.cancel, s.proc, s.ready, s.done)
         /\ \A why : Flags([s EXCEPT !.cancel = TRUE, !.reason = why],
                           s.reg, TRUE, s.proc, s.ready, s.done)
         /\ Flags(FreshSlot, FALSE, FALSE, FALSE, FALSE, FALSE)
         /\ Flags([FreshSlot EXCEPT !.reg = TRUE], TRUE, FALSE, FALSE, FALSE, FALSE)
BY DEF Slot, Flags, FreshSlot


-----------------------------------------------------------------------------
(* What the steps of an execution thread come to: where it goes from       *)
(* where, which flags it raises, and what becomes of its sandbox.          *)
ThreadStep(t) ==
  \/ Validate(t) \/ ClaimTask(t) \/ Spawn(t) \/ SpawnFails(t) \/ Register(t)
  \/ Collect(t) \/ Receipt(t) \/ FinalizeRun(t) \/ FinishRun(t) \/ PopSlot(t)

SlotSame(t) == slot'[t] = slot[t]
SlotUp(t) ==
  Flags(slot'[t], slot[t].reg, slot[t].cancel, slot[t].proc, TRUE, slot[t].done)
SlotReady(t) ==
  Flags(slot'[t], slot[t].reg, slot[t].cancel, TRUE, TRUE, slot[t].done)
SlotDone(t) ==
  Flags(slot'[t], slot[t].reg, slot[t].cancel, slot[t].proc, TRUE, TRUE)
SlotGone(t) ==
  Flags(slot'[t], FALSE, slot[t].cancel, slot[t].proc, slot[t].ready, slot[t].done)

Moves(t, from, to) == run[t] = from /\ run'[t] = to

ThreadEdge(t) ==
  \/ Moves(t, "validate", "claim") /\ SlotSame(t) /\ proc'[t] = proc[t]
  \/ /\ \E from \in {"validate", "spawn", "receipt"} : Moves(t, from, "finalize")
     /\ SlotSame(t) \/ SlotUp(t)
     /\ proc'[t] = proc[t]
  \/ Moves(t, "claim", "spawn") /\ SlotSame(t) /\ proc'[t] = proc[t]
       /\ disk[t].state = "SUBMITTED"
  \/ Moves(t, "claim", "fin") /\ SlotUp(t) /\ proc'[t] = proc[t]
  \/ Moves(t, "spawn", "register") /\ SlotSame(t) /\ launches'[t] = launches[t] + 1
  \/ Moves(t, "register", "wait") /\ SlotReady(t) /\ proc'[t] = proc[t]
  \/ /\ Moves(t, "wait", "finalize") /\ SlotUp(t)
     /\ proc[t] # "alive" /\ proc'[t] \in {proc[t], "dead"}
  \/ /\ Moves(t, "wait", "receipt") /\ SlotSame(t)
     /\ proc[t] # "alive" /\ proc'[t] = proc[t]
  \/ Moves(t, "finalize", "fin") /\ SlotSame(t) /\ proc'[t] = proc[t]
  \/ Moves(t, "fin", "pop") /\ SlotDone(t) /\ proc'[t] = proc[t]
  \/ Moves(t, "pop", "off") /\ SlotGone(t) /\ proc'[t] = proc[t]

Others(t) ==
  \A x \in Tasks \ {t} : /\ disk'[x] = disk[x] /\ proc'[x] = proc[x]
                         /\ launches'[x] = launches[x]
                         /\ slot'[x] = slot[x] /\ run'[x] = run[x]

(* Every step of an execution thread is one of these edges, and touches no *)
(* other task.                                                             *)
LEMMA ThreadEffect ==
  ASSUME IInv, NEW t \in Tasks, ThreadStep(t)
  PROVE  /\ ThreadEdge(t) /\ Others(t)
         /\ run[t] # "spawn" \/ run'[t] # "register" => launches'[t] = launches[t]
         /\ UNCHANGED <<job, hostVars, stopVars>> /\ mode = "serve"
<1>1. /\ slot \in [Tasks -> Slot] /\ run \in [Tasks -> RunPCs] /\ disk \in [Tasks -> Disk]
      /\ proc \in [Tasks -> {"none", "alive", "remnant", "dead"}]
      /\ launches \in [Tasks -> Nat] /\ slot[t] \in Slot
  BY DEF IInv, Typed, TypeOK
<1>2. UNCHANGED <<job, hostVars, stopVars>> /\ mode = "serve"
  BY DEF ThreadStep, Validate, ClaimTask, Spawn, SpawnFails, Register, Collect, Receipt,
         FinalizeRun, FinishRun, PopSlot, RunAt
<1>3. Others(t)
  BY <1>1 DEF ThreadStep, Validate, ClaimTask, Spawn, SpawnFails, Register, Collect, Receipt,
         FinalizeRun, FinishRun, PopSlot, Yield, FlagsUp, Conclude, Update, Others
<1>4. /\ FlagsUp(t) => SlotUp(t)
      /\ UNCHANGED slot => SlotSame(t)
  <2>1. FlagsUp(t) => slot'[t] = [slot[t] EXCEPT !.ready = TRUE, !.cleanup = TRUE]
    BY <1>1 DEF FlagsUp
  <2> QED
    BY <1>1, <2>1, SlotFields DEF SlotUp, SlotSame
<1>5. ASSUME NEW v, Conclude(t, v)
      PROVE  run'[t] = "finalize"
  BY <1>1, <1>5 DEF Conclude
<1>6. Yield(t) => SlotUp(t) /\ run'[t] = "finalize"
  BY <1>4, <1>5 DEF Yield
<1>7. CASE Validate(t)
  <2>1. run[t] = "validate" /\ UNCHANGED <<proc, launches>>
    BY <1>7 DEF Validate, RunAt
  <2>2. \/ Yield(t) \/ (UNCHANGED slot /\ run'[t] = "claim")
        \/ UNCHANGED slot /\ run'[t] = "finalize"
    BY <1>1, <1>5, <1>7 DEF Validate
  <2> QED
    BY <1>2, <1>3, <1>4, <1>6, <2>1, <2>2 DEF ThreadEdge, Moves
<1>8. CASE ClaimTask(t)
  <2>1. run[t] = "claim" /\ UNCHANGED <<proc, launches>>
    BY <1>8 DEF ClaimTask, RunAt
  <2>2. \/ disk[t].state = "SUBMITTED" /\ run'[t] = "spawn" /\ UNCHANGED slot
        \/ run'[t] = "fin" /\ FlagsUp(t)
    BY <1>1, <1>8 DEF ClaimTask, CanClaim
  <2> QED
    BY <1>2, <1>3, <1>4, <2>1, <2>2 DEF ThreadEdge, Moves
<1>9. CASE Spawn(t)
  <2>1. /\ run[t] = "spawn" /\ run'[t] = "register" /\ UNCHANGED slot
        /\ launches'[t] = launches[t] + 1
    BY <1>1, <1>9 DEF Spawn, RunAt
  <2> QED
    BY <1>2, <1>3, <1>4, <2>1 DEF ThreadEdge, Moves
<1>10. CASE SpawnFails(t)
  <2>1. run[t] = "spawn" /\ UNCHANGED <<proc, launches>>
    BY <1>10 DEF SpawnFails, RunAt
  <2>2. Yield(t) \/ (UNCHANGED slot /\ run'[t] = "finalize")
    BY <1>5, <1>10 DEF SpawnFails
  <2> QED
    BY <1>2, <1>3, <1>4, <1>6, <2>1, <2>2 DEF ThreadEdge, Moves
<1>11. CASE Register(t)
  <2>1. run[t] = "register" /\ run'[t] = "wait" /\ UNCHANGED <<proc, launches>>
    BY <1>1, <1>11 DEF Register, RunAt
  <2>2. slot'[t] = [slot[t] EXCEPT !.proc = TRUE, !.ready = TRUE]
    BY <1>1, <1>11 DEF Register
  <2>3. SlotReady(t)
    BY <1>1, <2>2, SlotFields DEF SlotReady
  <2> QED
    BY <1>2, <1>3, <2>1, <2>3 DEF ThreadEdge, Moves
<1>12. CASE Collect(t)
  <2>1. run[t] = "wait" /\ UNCHANGED launches /\ proc[t] # "alive"
    BY <1>1, <1>12 DEF Collect, RunAt
  <2>2. \/ Yield(t) /\ proc'[t] \in {proc[t], "dead"}
        \/ UNCHANGED <<slot, proc>> /\ run'[t] = "receipt"
    BY <1>1, <1>12 DEF Collect, Terminated
  <2> QED
    BY <1>2, <1>3, <1>4, <1>6, <2>1, <2>2 DEF ThreadEdge, Moves
<1>13. CASE Receipt(t)
  <2>1. run[t] = "receipt" /\ UNCHANGED <<proc, launches>>
    BY <1>13 DEF Receipt, RunAt
  <2>2. Yield(t) \/ (UNCHANGED slot /\ run'[t] = "finalize")
    BY <1>5, <1>13 DEF Receipt
  <2> QED
    BY <1>2, <1>3, <1>4, <1>6, <2>1, <2>2 DEF ThreadEdge, Moves
<1>14. CASE FinalizeRun(t)
  <2>1. run[t] = "finalize" /\ run'[t] = "fin" /\ UNCHANGED <<proc, launches, slot>>
    BY <1>1, <1>14 DEF FinalizeRun, RunAt
  <2> QED
    BY <1>2, <1>3, <1>4, <2>1 DEF ThreadEdge, Moves
<1>15. CASE FinishRun(t)
  <2>1. run[t] = "fin" /\ run'[t] = "pop" /\ UNCHANGED <<proc, launches>>
    BY <1>1, <1>15 DEF FinishRun, RunAt
  <2>2. slot'[t] = [slot[t] EXCEPT !.ready = TRUE, !.done = TRUE]
    BY <1>1, <1>15 DEF FinishRun
  <2>3. SlotDone(t)
    BY <1>1, <2>2, SlotFields DEF SlotDone
  <2> QED
    BY <1>2, <1>3, <2>1, <2>3 DEF ThreadEdge, Moves
<1>16. CASE PopSlot(t)
  <2>1. run[t] = "pop" /\ run'[t] = "off" /\ UNCHANGED <<proc, launches>>
    BY <1>1, <1>16 DEF PopSlot, RunAt
  <2>2. slot'[t] = [slot[t] EXCEPT !.reg = FALSE]
    BY <1>1, <1>16 DEF PopSlot
  <2>3. SlotGone(t)
    BY <1>1, <2>2, SlotFields DEF SlotGone
  <2> QED
    BY <1>2, <1>3, <2>1, <2>3 DEF ThreadEdge, Moves
<1> QED
  BY <1>7, <1>8, <1>9, <1>10, <1>11, <1>12, <1>13, <1>14, <1>15, <1>16 DEF ThreadStep

-----------------------------------------------------------------------------
(* Most steps leave threads and slots registered as they are, open no      *)
(* record and take no handler from its start.                              *)
LEMMA MannedKept ==
  ASSUME MInv, UNCHANGED <<run, mode>>, Fresh',
         sd' # "none" => shuttingDown', shuttingDown => shuttingDown',
         \A t \in Tasks : /\ slot'[t].reg = slot[t].reg
                          /\ slot'[t].cancel => slot[t].cancel \/ slot[t].reg
                          /\ disk'[t].state \in Active => disk'[t].state = disk[t].state
                          /\ disk'[t].state = "NONE" => disk[t].state = "NONE",
         \A h \in Handlers : job[h].pc = "start" => job'[h] = job[h] \/ shuttingDown'
  PROVE  Manned'
<1>1. ASSUME NEW t \in Tasks
      PROVE  TaskManned(t)'
  <2>1. TaskManned(t) /\ TaskOwned(t)
    BY DEF MInv, IInv, Owned, Manned
  <2>2. Starting(t) => Starting(t)' \/ shuttingDown'
    BY DEF Starting
  <2> QED
    BY <2>1, <2>2 DEF TaskManned, TaskOwned
<1> QED
  BY <1>1 DEF Manned

(* A thread leaves its task only when the record is final.                 *)
LEMMA ThreadManned ==
  ASSUME MInv, [Next]_vars, NEW t \in Tasks, ThreadStep(t)
  PROVE  Manned'
<1>1. /\ ThreadEdge(t) /\ Others(t) /\ mode = "serve"
      /\ UNCHANGED <<job, mode, shuttingDown, sd>>
  BY ThreadEffect DEF MInv, hostVars, stopVars
<1>2. TaskManned(t) /\ TaskOwned(t) /\ StateMoves(disk[t], disk'[t])
  BY StateSteps DEF MInv, IInv, Owned, Manned
<1>3. /\ run[t] # "off" /\ slot'[t].cancel = slot[t].cancel
      /\ run'[t] # "off" => slot'[t].reg = slot[t].reg
      /\ run'[t] = "off" => run[t] = "pop" /\ ~slot'[t].reg
  BY <1>1 DEF ThreadEdge, Moves, SlotSame, SlotUp, SlotReady, SlotDone, SlotGone, Flags
<1>4. disk[t].state \in Final => disk'[t].state = disk[t].state
  BY <1>2 DEF StateMoves, Active, Final
<1>5. disk'[t].state = "NONE" => disk[t].state = "NONE"
  BY <1>2 DEF StateMoves, Final
<1>6. run'[t] = "off" => disk'[t].state \notin Active
  BY <1>2, <1>3, <1>4 DEF TaskOwned, Active, Final
<1>7. TaskManned(t)'
  BY <1>2, <1>3, <1>5, <1>6 DEF TaskManned
<1>8. ASSUME NEW x \in Tasks \ {t}
      PROVE  TaskManned(x)'
  <2>1. TaskManned(x) /\ (Starting(x) <=> Starting(x)')
    BY <1>1 DEF MInv, Manned, Starting
  <2> QED
    BY <1>1, <2>1 DEF TaskManned, Others
<1> QED
  BY <1>1, <1>7, <1>8 DEF MInv, Manned, Fresh

(* The calls, create and start aside. *)
LEMMA CallManned ==
  ASSUME MInv, [Next]_vars,
         \/ \E h \in Handlers, t \in Tasks : SendMessage(h, t) \/ CancelTask(h, t)
         \/ \E h \in Handlers : CancelReply(h)
         \/ \E w \in Workers : CancelStep(w) \/ CancelDoneExpires(w)
  PROVE  Manned'
<1>1. slot \in [Tasks -> Slot] /\ job \in [Workers -> Job]
  BY DEF MInv, IInv, Typed, TypeOK
<1>2. UNCHANGED <<run, mode, shuttingDown, sd>> /\ mode = "serve"
  BY DEF SendMessage, CancelTask, CancelReply, CancelStep, CancelLookup, CancelMark, CancelReady,
         CancelKill, CancelDone, CancelFinalize, CancelDoneExpires, At, execVars, hostVars, stopVars
<1>3. ASSUME NEW t \in Tasks
      PROVE  /\ slot'[t].reg = slot[t].reg
             /\ slot'[t].cancel => slot[t].cancel \/ slot[t].reg
  <2>1. ASSUME NEW w \in Workers, CancelMark(w)
        PROVE  /\ slot'[t].reg = slot[t].reg
               /\ slot'[t].cancel => slot[t].cancel \/ slot[t].reg
    <3> DEFINE x == job[w].tid
               u == [slot[x] EXCEPT !.cancel = TRUE,
                                    !.reason = IF @ = "none" THEN job[w].why ELSE @]
    <3>1. x \in Tasks
      BY <2>1 DEF CancelMark, At, MInv, IInv, Typed, Reasoned
    <3>2. u.reg = slot[x].reg
      BY <1>1, <3>1 DEF Slot
    <3>3. slot' = slot \/ (slot[x].reg /\ slot' = [slot EXCEPT ![x] = u])
      BY <2>1 DEF CancelMark
    <3> HIDE DEF u
    <3> QED
      BY <1>1, <3>1, <3>2, <3>3
  <2>2. ASSUME NEW w \in Workers, CancelKill(w)
        PROVE  slot'[t].reg = slot[t].reg /\ slot'[t].cancel = slot[t].cancel
    BY <1>1, <2>2 DEF CancelKill, Slot
  <2>3. \/ UNCHANGED slot
        \/ \E w \in Workers : CancelMark(w) \/ CancelKill(w)
    BY DEF SendMessage, CancelTask, CancelReply, CancelStep, CancelLookup, CancelReady,
           CancelDone, CancelFinalize, CancelDoneExpires, execVars
  <2> QED
    BY <2>1, <2>2, <2>3
<1>4. ASSUME NEW t \in Tasks
      PROVE  /\ disk'[t].state \in Active => disk'[t].state = disk[t].state
             /\ disk'[t].state = "NONE" => disk[t].state = "NONE"
  <2>1. StateMoves(disk[t], disk'[t])
    BY StateSteps DEF MInv
  <2>2. ASSUME NEW w \in Workers, CancelFinalize(w)
        PROVE  disk'[t].state \in Active => disk'[t].state = disk[t].state
    <3>1. job[w].tid \in Tasks /\ CancelVerdict(w) \in Verdict /\ disk \in [Tasks -> Disk]
      BY <2>2, VerdictType
      DEF CancelFinalize, CancelVerdict, At, CancelPCs, Errors, MInv, IInv, Typed, TypeOK, Reasoned
    <3>2. Settled(disk[job[w].tid], Finalized(disk[job[w].tid], CancelVerdict(w)))
      BY <3>1, FinalizedSettles
    <3> QED
      BY <2>2, <3>1, <3>2 DEF CancelFinalize, Update, Settled, Active, Final
  <2>3. UNCHANGED disk \/ \E w \in Workers : CancelFinalize(w)
    BY DEF SendMessage, CancelTask, CancelReply, CancelStep, CancelLookup, CancelMark,
           CancelReady, CancelKill, CancelDone, CancelDoneExpires
  <2> QED
    BY <2>1, <2>2, <2>3 DEF StateMoves, Final
<1>5. \A h \in Handlers : job[h].pc = "start" => job'[h] = job[h]
  <2>1. \E w \in Workers : job[w].pc # "start" /\ \E j : job' = [job EXCEPT ![w] = j]
    BY DEF SendMessage, CancelTask, CancelReply, CancelStep, CancelLookup, CancelMark, CancelReady,
           CancelKill, CancelDone, CancelFinalize, CancelDoneExpires, At, Goto, Workers
  <2> QED
    BY <1>1, <2>1 DEF Workers
<1> QED
  BY <1>2, <1>3, <1>4, <1>5, MannedKept DEF MInv, Manned, Fresh

(* Who created the record is the handler about to start it.                *)
LEMMA CreateManned ==
  ASSUME MInv, [Next]_vars, NEW h \in Handlers, CreateTask(h)
  PROVE  Manned'
<1> PICK t : t = job[h].tid
  OBVIOUS
<1>1. /\ h \in Workers /\ t \in Tasks /\ job[h].pc = "create" /\ mode = "serve"
      /\ job \in [Workers -> Job] /\ disk \in [Tasks -> Disk]
  BY DEF CreateTask, At, Workers, MInv, IInv, Typed, TypeOK, Reasoned
<1>2. UNCHANGED <<run, slot, mode, shuttingDown, sd>> /\ disk' = [disk EXCEPT ![t] = Created(disk[t])]
  BY DEF CreateTask, Update, execVars, hostVars, stopVars
<1>3. \A x \in Workers \ {h} : job'[x] = job[x]
  BY <1>1 DEF CreateTask
<1>4. ASSUME NEW x \in Tasks
      PROVE  TaskManned(x)'
  <2>1. TaskManned(x) /\ StateMoves(disk[x], disk'[x])
    BY StateSteps DEF MInv, Manned
  <2>2. Starting(x) => Starting(x)'
    BY <1>1, <1>3 DEF Starting, Workers
  <2>3. CASE x # t \/ ~CanCreate(disk[t])
    <3>1. disk'[x] = disk[x]
      BY <1>1, <1>2, <2>3 DEF Created
    <3> QED
      BY <1>2, <2>1, <2>2, <3>1 DEF TaskManned
  <2>4. CASE x = t /\ CanCreate(disk[t])
    <3>1. disk'[t].state = "SUBMITTED"
      BY <1>1, <1>2, <2>4, CreateFacts
    <3>2. job'[h].pc = "start" /\ job'[h].tid = t
      BY <1>1, <2>4 DEF CreateTask, Job
    <3>3. Starting(t)'
      BY <3>2 DEF Starting
    <3> QED
      BY <1>2, <2>1, <2>4, <3>1, <3>3 DEF TaskManned
  <2> QED
    BY <2>3, <2>4
<1> QED
  BY <1>1, <1>2, <1>4 DEF MInv, Manned, Fresh

(* The thread takes over from the handler, unless a shutdown refused it.   *)
LEMMA StartManned ==
  ASSUME MInv, NEW h \in Handlers, StartTask(h)
  PROVE  Manned'
<1> PICK t : t = job[h].tid
  OBVIOUS
<1>1. /\ h \in Workers /\ t \in Tasks /\ job[h].pc = "start" /\ mode = "serve"
      /\ job \in [Workers -> Job] /\ slot \in [Tasks -> Slot] /\ run \in [Tasks -> RunPCs]
  BY DEF StartTask, At, Workers, MInv, IInv, Typed, TypeOK, Reasoned
<1>2. UNCHANGED <<disk, mode, shuttingDown, sd>> /\ \A x \in Workers \ {h} : job'[x] = job[x]
  BY <1>1 DEF StartTask, hostVars, stopVars
<1>3. ASSUME NEW x \in Tasks
      PROVE  TaskManned(x)'
  <2>1. TaskManned(x) /\ TaskManned(t)
    BY <1>1 DEF MInv, Manned
  <2>2. run[t] = "off" /\ ~slot[t].reg
    BY <1>1, <2>1 DEF TaskManned, MInv, IInv, Owned, JobOwned
  <2>3. Starting(x) /\ x # t => Starting(x)'
    BY <1>1, <1>2 DEF Starting, Workers
  <2>4. CASE shuttingDown
    <3>1. UNCHANGED <<slot, run>>
      BY <2>4 DEF StartTask
    <3> QED
      BY <1>2, <2>1, <2>4, <3>1 DEF TaskManned
  <2>5. CASE ~shuttingDown
    <3>1. /\ run'[t] = "validate" /\ slot'[t] = [FreshSlot EXCEPT !.reg = TRUE]
          /\ x # t => run'[x] = run[x] /\ slot'[x] = slot[x]
      BY <1>1, <2>2, <2>5 DEF StartTask
    <3>2. slot'[t].reg /\ ~slot'[t].cancel
      BY <3>1 DEF FreshSlot
    <3> QED
      BY <1>2, <2>1, <2>3, <3>1, <3>2 DEF TaskManned
  <2> QED
    BY <2>4, <2>5
<1> QED
  BY <1>1, <1>2, <1>3 DEF MInv, Manned, Fresh

(* The shutdown, what happens to a sandbox, and the start.                 *)
LEMMA HostManned ==
  ASSUME MInv, [Next]_vars,
         \/ RequestShutdown \/ StopStep \/ Restart \/ StartStep \/ Crash
         \/ (\E t \in Tasks : SandboxExit(t)) \/ UNCHANGED vars
  PROVE  Manned'
<1>1. /\ slot \in [Tasks -> Slot] /\ run \in [Tasks -> RunPCs] /\ disk \in [Tasks -> Disk]
      /\ job \in [Workers -> Job] /\ active \in SUBSET Tasks /\ pass \in Passes
  BY DEF MInv, IInv, Typed, TypeOK
<1>2. \A t \in Tasks : disk'[t].state = "NONE" => disk[t].state = "NONE"
  BY StateSteps DEF MInv, StateMoves, Final
<1>3. CASE Crash \/ Exit
  <2>1. /\ mode' = "off" /\ sd' = "none"
        /\ \A t \in Tasks : run'[t] = "off" /\ slot'[t] = FreshSlot
        /\ \A w \in Workers : job'[w].pc = "idle"
    BY <1>3 DEF Crash, Exit, FreshMemory, Idle
  <2>2. \A t \in Tasks : TaskManned(t)'
    BY <2>1 DEF TaskManned, FreshSlot
  <2> QED
    BY <2>1, <2>2 DEF Manned, Fresh
<1>4. CASE Restart \/ Serve
  <2>1. /\ UNCHANGED <<disk, run, slot, job, sd>> /\ mode # "serve"
        /\ mode' = "serve" => \A t \in Tasks : disk[t].state \notin Active
    BY <1>4 DEF Restart, Serve, execVars, stopVars
  <2>2. \A t \in Tasks : TaskManned(t)'
    BY <2>1 DEF MInv, Manned, TaskManned
  <2> QED
    BY <2>1, <2>2 DEF MInv, Manned, Fresh
<1>5. ASSUME NEW t \in Tasks, SweepTask(t) \/ RecoverTask(t)
      PROVE  Manned'
  <2>1. UNCHANGED <<run, slot, job, mode, sd, shuttingDown>>
    BY <1>5 DEF SweepTask, RecoverTask, execVars, hostVars, stopVars
  <2>2. PICK v \in Verdict : disk' = [disk EXCEPT ![t] = Finalized(disk[t], v)]
    <3>1. Canceled(pass, "drained") \in Verdict /\ Failed("runner_restart") \in Verdict
      BY <1>1, VerdictType DEF CancelReasons, Errors, Reasons
    <3> QED
      BY <1>5, <3>1 DEF SweepTask, RecoverTask, Update
  <2>3. \A x \in Tasks : disk'[x].state \in Active => disk'[x].state = disk[x].state
    BY <1>1, <2>2, FinalizedSettles DEF Settled, Active, Final
  <2> QED
    BY <1>2, <2>1, <2>3, MannedKept DEF MInv, Manned, Fresh
<1>6. CASE ListActive
  <2>1. UNCHANGED <<disk, run, slot, mode>> /\ mode = "serve" /\ shuttingDown'
    BY <1>6 DEF ListActive, execVars, hostVars
  <2> QED
    BY <2>1, MannedKept DEF Fresh
<1>7. CASE ReapRemaining
  <2>1. /\ UNCHANGED <<disk, run, job, mode, shuttingDown>> /\ mode = "serve" /\ sd = "reap"
        /\ \A t \in Tasks : slot'[t].reg = slot[t].reg /\ slot'[t].cancel = slot[t].cancel
    BY <1>1, <1>7 DEF ReapRemaining, Slot, hostVars
  <2> QED
    BY <1>2, <2>1, MannedKept DEF Fresh, MInv, Manned
<1>8. CASE \/ RequestShutdown \/ JoinCancels \/ SweepDone \/ DrainOver
           \/ (\E t \in Tasks : SandboxExit(t)) \/ UNCHANGED vars
  <2>1. /\ UNCHANGED <<disk, run, slot, job, mode>>
        /\ sd' = sd \/ mode = "serve"
        /\ shuttingDown' = shuttingDown \/ shuttingDown'
        /\ sd' # "none" => sd # "none" \/ shuttingDown'
    BY <1>8 DEF RequestShutdown, JoinCancels, SweepDone, DrainOver, SandboxExit, vars, execVars,
                hostVars, stopVars
  <2>2. Fresh' /\ (sd' # "none" => shuttingDown')
    BY <2>1 DEF MInv, Manned, Fresh
  <2> QED
    BY <2>1, <2>2, MannedKept
<1> QED
  BY <1>3, <1>4, <1>5, <1>6, <1>7, <1>8 DEF StopStep, StartStep

(* Together: no step leaves an active task to nobody.                      *)
LEMMA MannedStep == MInv /\ [Next]_vars => MInv'
<1> SUFFICES ASSUME MInv, [Next]_vars PROVE MInv'
  OBVIOUS
<1>1. IInv'
  BY InvStep DEF MInv
<1>2. Manned'
  BY ThreadManned, CallManned, CreateManned, StartManned, HostManned
  DEF Next, HandlerStep, RunStep, ThreadStep
<1> QED
  BY <1>1, <1>2 DEF MInv

LEMMA InitManned == Init => MInv
<1> SUFFICES ASSUME Init PROVE MInv
  OBVIOUS
<1>1. NoTask.state = "NONE" /\ ~FreshSlot.reg /\ ~FreshSlot.cancel /\ Idle.pc = "idle"
  BY DEF NoTask, FreshSlot, Idle
<1>2. Fresh
  BY <1>1 DEF Init, Fresh
<1>3. \A t \in Tasks : TaskManned(t)
  BY <1>1 DEF Init, TaskManned
<1> QED
  BY <1>2, <1>3, InitTyped, InitOwned DEF MInv, IInv, Manned, Init

LEMMA MannedAlways == Spec => []MInv
BY InitManned, MannedStep, PTL DEF Spec

(* Somebody settles every active task of a runner that serves: its thread, *)
(* the handler about to start it, or the shutdown that refused the start.  *)
THEOREM NobodyIsOrphaned == Spec => []NoOrphanTask
<1>1. MInv => NoOrphanTask
  <2> SUFFICES ASSUME MInv, mode = "serve", NEW t \in Tasks, disk[t].state \in Active
               PROVE  \/ run[t] \notin {"off", "pop", "fin"}
                      \/ disk[t].state = "SUBMITTED" /\ (shuttingDown \/ Starting(t))
    BY DEF NoOrphanTask, Starting
  <2>1. TaskManned(t) /\ TaskOwned(t)
    BY DEF MInv, Manned, IInv, Owned
  <2>2. run[t] \notin {"fin", "pop"}
    BY <2>1 DEF TaskOwned, Active, Final
  <2> QED
    BY <2>1, <2>2 DEF TaskManned
<1> QED
  BY <1>1, MannedAlways, PTL

-----------------------------------------------------------------------------
(* Who may still have the sandbox of a task running. Once the flags of a   *)
(* slot are up its thread is past the launch, and whoever is about to      *)
(* settle a task has seen to its sandbox.                                  *)
Before == {"validate", "claim", "spawn", "register"}
Seen   == {"terminated", "cleaned", "drained"}

SandboxSeen(d, p, n, s, r) ==
  /\ d.state \notin Final => d.error = "none"
  /\ n = 0 => p = "none" /\ ~s.proc /\ r \notin {"register", "wait"}
  /\ s.ready => r \notin Before /\ (s.proc \/ p # "alive")
  /\ r \in {"receipt", "finalize", "fin", "pop"} => p # "alive"
  /\ d.error \in Seen => p # "alive" /\ r \notin {"spawn", "register"}
  /\ d.state \in Final /\ d.error # "unregistered" =>
       r \notin {"spawn", "register"} /\ (s.proc => p # "alive")

TaskWatched(t) == SandboxSeen(disk[t], proc[t], launches[t], slot[t], run[t])

(* How far a cancel is, and what it has made sure of. *)
CallSeen(j, s, p) ==
  /\ j.pc = "start" => ~s.cancel
  /\ j.pc \in {"ready", "kill", "done", "expire"} => s.cancel
  /\ j.pc \in {"kill", "done", "expire"} => s.ready
  /\ j.pc \in {"done", "expire"} => p # "alive"

JobWatched(w) ==
  job[w].tid \in Tasks => CallSeen(job[w], slot[job[w].tid], proc[job[w].tid])

(* The tasks a shutdown listed are those it sees to; the others can start  *)
(* no more.                                                                *)
StopWatched(t) ==
  /\ sd \in {"join", "reap", "sweep", "drain", "closing"} /\ t \notin active =>
       disk[t].state \in Final \/ (run[t] = "off" /\ launches[t] = 0)
  /\ t \in active =>
       /\ disk[t].state # "NONE"
       /\ sd = "join" => job[<<t, pass>>].tid = t
       /\ sd \in {"reap", "sweep"} /\ disk[t].state \in Active => slot[t].ready \/ run[t] = "off"
       /\ sd = "sweep" /\ disk[t].state \in Active => proc[t] # "alive"
       /\ sd \in {"drain", "closing"} => disk[t].state \in Final

Watched ==
  /\ \A t \in Tasks : TaskWatched(t) /\ StopWatched(t)
  /\ \A w \in Workers : JobWatched(w)

WInv == MInv /\ Watched

(* The verdicts, by what they say of the sandbox. *)
LEMMA FinalizeErrors ==
  ASSUME NEW d \in Disk, NEW v \in Verdict, CanFinalize(d),
         NEW x \in {Finalized(d, v)} \cup TornFinalize(d, v)
  PROVE  x.state \in Final /\ x.error = v.error
<1> DEFINE r == [d EXCEPT !.state = v.state, !.reason = v.reason, !.error = v.error]
           a == IF v.art THEN Logged(r, "artifact") ELSE r
           s == Logged(a, v.state)
           c == [s EXCEPT !.complete = TRUE]
<1>1. r.error = v.error /\ r.state = v.state
  BY DEF Disk, Verdict
<1>2. a.error = v.error /\ a.state = v.state
  BY <1>1 DEF Logged
<1>3. s.error = v.error /\ s.state = v.state
  BY <1>2 DEF Logged
<1>4. c.error = v.error /\ c.state = v.state
  BY <1>3
<1>5. x \in {r, a, s, c}
  <2>1. FinalizeImages(d, v)[1] = r /\ FinalizeImages(d, v)[2] = a
          /\ FinalizeImages(d, v)[3] = s /\ FinalizeImages(d, v)[4] = c
    BY DEF FinalizeImages
  <2>2. \A i \in 1..3 : i = 1 \/ i = 2 \/ i = 3
    OBVIOUS
  <2> HIDE DEF r, a, s, c
  <2> QED
    BY <2>1, <2>2 DEF Finalized, TornFinalize
<1> HIDE DEF r, a, s, c
<1> QED
  BY <1>1, <1>2, <1>3, <1>4, <1>5 DEF Verdict

(* Creating and claiming say nothing of it. *)
LEMMA OpenErrors ==
  ASSUME NEW d \in Disk
  PROVE  /\ \A x \in {Created(d)} \cup TornCreate(d) : x.error = d.error
         /\ \A x \in {Claimed(d)} \cup TornClaim(d) : x.error = d.error
<1>1. \A x \in {Created(d)} \cup TornCreate(d) : x.error = d.error
  <2> DEFINE r == [d EXCEPT !.state = "SUBMITTED"]
             e == [r EXCEPT !.log = <<>>]
             l == Logged(e, "SUBMITTED")
  <2>1. r.error = d.error /\ e.error = d.error /\ l.error = d.error
    BY DEF Disk, Logged
  <2>2. CreateImages(d)[1] = r /\ CreateImages(d)[2] = e /\ CreateImages(d)[3] = l
    BY DEF CreateImages
  <2>3. \A i \in 1..2 : i = 1 \/ i = 2
    OBVIOUS
  <2> HIDE DEF r, e, l
  <2> QED
    BY <2>1, <2>2, <2>3 DEF Created, TornCreate
<1>2. \A x \in {Claimed(d)} \cup TornClaim(d) : x.error = d.error
  <2> DEFINE r == [d EXCEPT !.state = "WORKING"]
             l == Logged(r, "WORKING")
  <2>1. r.error = d.error /\ l.error = d.error
    BY DEF Disk, Logged
  <2>2. ClaimImages(d)[1] = r /\ ClaimImages(d)[2] = l
    BY DEF ClaimImages
  <2> HIDE DEF r, l
  <2> QED
    BY <2>1, <2>2 DEF Claimed, TornClaim
<1> QED
  BY <1>1, <1>2

(* What becomes of a record, and of what it says.                          *)
ErrorMoves(d, e) ==
  \/ e = d
  \/ d.state \notin Final /\ e.state \notin Final /\ e.error = d.error
  \/ d.state \in Active /\ e.state \in Final

(* What a record says of its sandbox is said once, with its final state.   *)
LEMMA ErrorSteps ==
  ASSUME IInv, [Next]_vars, NEW t \in Tasks
  PROVE  ErrorMoves(disk[t], disk'[t])
<1>1. DiskChange(t) /\ disk[t] \in Disk
  BY DiskSteps DEF IInv, Typed, TypeOK
<1>2. CASE CanCreate(disk[t]) /\ disk'[t] \in {Created(disk[t])} \cup TornCreate(disk[t])
  BY <1>1, <1>2, CreateFacts, OpenErrors DEF ErrorMoves, CanCreate, Final
<1>3. CASE CanClaim(disk[t]) /\ disk'[t] \in {Claimed(disk[t])} \cup TornClaim(disk[t])
  BY <1>1, <1>3, ClaimFacts, OpenErrors DEF ErrorMoves, CanClaim, Final
<1>4. ASSUME NEW v \in Verdict, CanFinalize(disk[t]),
             disk'[t] \in {Finalized(disk[t], v)} \cup TornFinalize(disk[t], v)
      PROVE  ErrorMoves(disk[t], disk'[t])
  BY <1>1, <1>4, FinalizeErrors DEF ErrorMoves, CanFinalize
<1> QED
  BY <1>1, <1>2, <1>3, <1>4 DEF DiskChange, ErrorMoves

-----------------------------------------------------------------------------
(* What every step but the shutdown's own leaves of a shutdown.            *)
LEMMA StopKept ==
  ASSUME WInv, [Next]_vars, NEW t \in Tasks, UNCHANGED <<sd, pass, active>>,
         sd # "none" /\ run[t] = "off" => run'[t] = "off" /\ launches'[t] = launches[t],
         slot[t].ready => slot'[t].ready,
         (slot[t].ready \/ run[t] = "off") /\ proc[t] # "alive" => proc'[t] # "alive",
         job'[<<t, pass>>].tid = job[<<t, pass>>].tid
  PROVE  StopWatched(t)'
<1>1. StopWatched(t) /\ StateMoves(disk[t], disk'[t])
  BY StateSteps DEF WInv, MInv, Watched
<1>2. disk[t].state \in Final => disk'[t].state \in Final
  BY <1>1 DEF StateMoves, Active, Final
<1>3. disk[t].state # "NONE" =>
        disk'[t].state # "NONE" /\ (disk'[t].state \in Active => disk[t].state \in Active)
  BY <1>1 DEF StateMoves, Active, Final
<1> QED
  BY <1>1, <1>2, <1>3 DEF StopWatched

(* A thread writes the record in its claim and its finalize only.          *)
LEMMA ThreadDisk ==
  ASSUME NEW t \in Tasks, ThreadStep(t), IInv
  PROVE  \/ UNCHANGED disk
         \/ run[t] = "finalize"
         \/ run[t] = "claim" /\ disk'[t] = Claimed(disk[t])
BY DEF ThreadStep, Validate, ClaimTask, Spawn, SpawnFails, Register, Collect, Receipt,
       FinalizeRun, FinishRun, PopSlot, RunAt, Update, IInv, Typed, TypeOK

(* No thread finalizes before its sandbox is over, or launches after it    *)
(* was told to stop.                                                       *)
LEMMA ThreadWatched ==
  ASSUME WInv, [Next]_vars, NEW t \in Tasks, ThreadStep(t)
  PROVE  Watched'
<1>1. /\ ThreadEdge(t) /\ Others(t)
      /\ run[t] # "spawn" \/ run'[t] # "register" => launches'[t] = launches[t]
      /\ UNCHANGED <<job, sd, pass, active>>
  BY ThreadEffect DEF WInv, MInv, hostVars, stopVars
<1>2. /\ TaskWatched(t) /\ TaskOwned(t) /\ disk[t] \in Disk /\ launches[t] \in Nat
      /\ ErrorMoves(disk[t], disk'[t])
  BY ErrorSteps DEF WInv, MInv, Watched, IInv, Owned, Typed, TypeOK
<1>3. /\ slot'[t].cancel = slot[t].cancel /\ (slot[t].ready => slot'[t].ready)
      /\ run[t] # "off"
      /\ slot[t].ready /\ proc[t] # "alive" => proc'[t] # "alive"
  BY <1>1, <1>2
  DEF ThreadEdge, Moves, SlotSame, SlotUp, SlotReady, SlotDone, SlotGone, Flags, TaskWatched,
      SandboxSeen, Before
<1>4. \/ disk'[t] = disk[t]
      \/ run[t] = "finalize"
      \/ /\ run[t] = "claim" /\ disk[t].state \notin Final /\ disk'[t].state \notin Final
         /\ disk'[t].error = disk[t].error
  <2>1. ASSUME run[t] = "claim", disk'[t] = Claimed(disk[t])
        PROVE  \/ disk'[t] = disk[t]
               \/ /\ disk[t].state \notin Final /\ disk'[t].state \notin Final
                  /\ disk'[t].error = disk[t].error
    BY <1>2, <2>1, OpenErrors, ClaimFacts DEF Claimed, CanClaim, Final
  <2> QED
    BY <2>1, ThreadDisk DEF WInv, MInv
<1>5. TaskWatched(t)'
  <2> DEFINE d == disk[t]
             e == disk'[t]
  <2>1. (d.state \notin Final => d.error = "none") => (e.state \notin Final => e.error = "none")
    BY <1>2 DEF ErrorMoves
  <2>2. CASE run[t] \in {"validate", "spawn", "receipt"} /\ run'[t] = "finalize"
    BY <1>1, <1>2, <1>4, <2>1, <2>2
    DEF ThreadEdge, Moves, SlotSame, SlotUp, Flags, TaskWatched, SandboxSeen, TaskOwned, Before
  <2>3. CASE run[t] \in {"validate", "claim"} /\ run'[t] # "finalize"
    BY <1>1, <1>2, <1>4, <2>1, <2>3
    DEF ThreadEdge, Moves, SlotSame, SlotUp, Flags, TaskWatched, SandboxSeen, TaskOwned, Before,
        Seen, Final
  <2>4. CASE run[t] \in {"spawn", "register"} /\ run'[t] # "finalize"
    BY <1>1, <1>2, <1>4, <2>1, <2>4
    DEF ThreadEdge, Moves, SlotSame, SlotReady, Flags, TaskWatched, SandboxSeen, TaskOwned, Before
  <2>5. CASE run[t] \in {"wait", "finalize", "fin", "pop"}
    BY <1>1, <1>2, <1>4, <2>1, <2>5
    DEF ThreadEdge, Moves, SlotSame, SlotUp, SlotDone, SlotGone, Flags, TaskWatched, SandboxSeen,
        TaskOwned, Before
  <2> QED
    BY <1>1, <2>2, <2>3, <2>4, <2>5 DEF ThreadEdge, Moves
<1>6. \A x \in Tasks : TaskWatched(x)'
  <2>1. ASSUME NEW x \in Tasks \ {t}
        PROVE  TaskWatched(x)'
    BY <1>1 DEF WInv, Watched, TaskWatched, Others
  <2> QED
    BY <1>5, <2>1
<1>7. \A x \in Tasks : StopWatched(x)'
  <2> SUFFICES ASSUME NEW x \in Tasks PROVE StopWatched(x)'
    OBVIOUS
  <2>1. CASE x = t
    BY <1>1, <1>3, <2>1, StopKept
  <2>2. CASE x # t
    BY <1>1, <2>2, StopKept DEF Others
  <2> QED
    BY <2>1, <2>2
<1>8. \A w \in Workers : JobWatched(w)'
  <2> SUFFICES ASSUME NEW w \in Workers, job[w].tid \in Tasks
               PROVE  CallSeen(job[w], slot'[job[w].tid], proc'[job[w].tid])
    BY <1>1 DEF JobWatched
  <2>1. CallSeen(job[w], slot[job[w].tid], proc[job[w].tid])
    BY DEF WInv, Watched, JobWatched
  <2>2. CASE job[w].tid = t
    BY <1>3, <2>1, <2>2 DEF CallSeen
  <2>3. CASE job[w].tid # t
    BY <1>1, <2>1, <2>3 DEF Others
  <2> QED
    BY <2>2, <2>3
<1> QED
  BY <1>6, <1>7, <1>8 DEF Watched

-----------------------------------------------------------------------------
(* Tasks that are as they were, and the calls that are. *)
Untouched(t) ==
  /\ disk'[t] = disk[t] /\ launches'[t] = launches[t] /\ run'[t] = run[t]
  /\ slot'[t].proc = slot[t].proc /\ slot'[t].ready = slot[t].ready
  /\ proc'[t] \in {proc[t], "dead"} /\ (launches[t] = 0 => proc'[t] = proc[t])

(* A sandbox that is as it was, or dead, is no less seen to.               *)
LEMMA UntouchedWatched ==
  ASSUME WInv, NEW t \in Tasks, Untouched(t)
  PROVE  TaskWatched(t)'
BY DEF WInv, Watched, TaskWatched, SandboxSeen, Untouched

(* The steps of calls that only move the call.                             *)
LEMMA MoveWatched ==
  ASSUME WInv, [Next]_vars, ~Stalls,
         \/ \E h \in Handlers, t \in Tasks : SendMessage(h, t) \/ CancelTask(h, t)
         \/ \E h \in Handlers : CancelReply(h)
         \/ \E w \in Workers : \/ CancelLookup(w) \/ CancelReady(w) \/ CancelDone(w)
                               \/ CancelDoneExpires(w)
  PROVE  Watched'
<1>1. job \in [Workers -> Job] /\ pass \in Passes
  BY DEF WInv, MInv, IInv, Typed, TypeOK
<1>2. UNCHANGED <<disk, proc, launches, run, slot, sd, pass, active>>
  BY DEF SendMessage, CancelTask, CancelReply, CancelLookup, CancelReady, CancelDone,
         CancelDoneExpires, execVars, stopVars
<1>3. PICK w \in Workers :
        /\ \A x \in Workers \ {w} : job'[x] = job[x]
        /\ \/ w \in Handlers /\ job'[w].pc \in {"create", "lookup", "idle"}
           \/ job'[w].tid = job[w].tid /\ job'[w].pc \in {"ret", "mark"}
           \/ /\ job'[w].tid = job[w].tid /\ job[w].pc = "ready" /\ job'[w].pc = "kill"
              /\ slot[job[w].tid].ready
           \/ job'[w].tid = job[w].tid /\ job[w].pc = "done" /\ job'[w].pc = "expire"
  <2>1. ASSUME NEW h \in Handlers, NEW t \in Tasks, SendMessage(h, t) \/ CancelTask(h, t)
        PROVE  h \in Workers /\ job'[h].pc \in {"create", "lookup"}
               /\ \A x \in Workers \ {h} : job'[x] = job[x]
    BY <1>1, <2>1 DEF SendMessage, CancelTask, Workers
  <2>2. ASSUME NEW h \in Handlers, CancelReply(h)
        PROVE  h \in Workers /\ job'[h].pc = "idle" /\ \A x \in Workers \ {h} : job'[x] = job[x]
    BY <1>1, <2>2 DEF CancelReply, Workers, Idle
  <2>3. ASSUME NEW x \in Workers, NEW pc, Goto(x, pc)
        PROVE  /\ job'[x].tid = job[x].tid /\ job'[x].pc = pc
               /\ \A y \in Workers \ {x} : job'[y] = job[y]
    BY <1>1, <2>3 DEF Goto, Job
  <2>4. ASSUME NEW x \in Workers, CancelLookup(x) \/ CancelDone(x)
        PROVE  \E pc \in {"ret", "mark"} : Goto(x, pc)
    BY <2>4 DEF CancelLookup, CancelDone
  <2>5. ASSUME NEW x \in Workers, CancelReady(x)
        PROVE  Goto(x, "kill") /\ job[x].pc = "ready" /\ slot[job[x].tid].ready
    BY <2>5 DEF CancelReady, At
  <2>6. ASSUME NEW x \in Workers, CancelDoneExpires(x)
        PROVE  Goto(x, "expire") /\ job[x].pc = "done"
    BY <2>6 DEF CancelDoneExpires, At
  <2>7. ASSUME NEW x \in Workers, CancelLookup(x) \/ CancelDone(x)
        PROVE  /\ job'[x].tid = job[x].tid /\ job'[x].pc \in {"ret", "mark"}
               /\ \A y \in Workers \ {x} : job'[y] = job[y]
    BY <2>3, <2>4, <2>7
  <2> QED
    BY <2>1, <2>2, <2>3, <2>5, <2>6, <2>7
<1>4. ASSUME NEW t \in Tasks
      PROVE  TaskWatched(t)' /\ StopWatched(t)'
  <2>1. <<t, pass>> \in Workers /\ <<t, pass>> \notin Handlers
    BY <1>1, HandlersAssumption DEF Workers, Reapers
  <2>2. job'[<<t, pass>>].tid = job[<<t, pass>>].tid
    BY <1>3, <2>1
  <2> QED
    BY <1>2, <2>2, UntouchedWatched, StopKept DEF Untouched
<1>5. ASSUME NEW x \in Workers
      PROVE  JobWatched(x)'
  <2>1. JobWatched(x)
    BY DEF WInv, Watched
  <2> QED
    BY <1>2, <1>3, <2>1 DEF JobWatched, CallSeen
<1> QED
  BY <1>4, <1>5 DEF Watched

(* Marking: nobody is about to start a task whose slot is registered.      *)
LEMMA MarkWatched ==
  ASSUME WInv, [Next]_vars, NEW w \in Workers, CancelMark(w)
  PROVE  Watched'
<1> PICK t : t = job[w].tid
  OBVIOUS
<1>1. /\ t \in Tasks /\ job \in [Workers -> Job] /\ slot \in [Tasks -> Slot] /\ slot[t] \in Slot
      /\ pass \in Passes
  BY DEF CancelMark, At, WInv, MInv, IInv, Typed, TypeOK, Reasoned
<1>2. UNCHANGED <<disk, proc, launches, run, sd, pass, active>>
  BY DEF CancelMark, stopVars
<1>3. /\ \A x \in Workers \ {w} : job'[x] = job[x]
      /\ job'[w].tid = t /\ job'[w].pc \in {"ready", "unreg"}
      /\ job'[w].pc = "ready" => slot[t].reg
  BY <1>1 DEF CancelMark, Goto, Job
<1>4. /\ \A x \in Tasks \ {t} : slot'[x] = slot[x]
      /\ slot'[t].proc = slot[t].proc /\ slot'[t].ready = slot[t].ready
      /\ job'[w].pc = "ready" => slot'[t].cancel
      /\ ~slot[t].reg => slot' = slot
      /\ slot[t].cancel => slot'[t].cancel
  <2> PICK why : why = IF slot[t].reason = "none" THEN job[w].why ELSE slot[t].reason
    OBVIOUS
  <2> DEFINE u == [slot[t] EXCEPT !.cancel = TRUE, !.reason = why]
  <2>1. Flags(u, slot[t].reg, TRUE, slot[t].proc, slot[t].ready, slot[t].done)
    BY <1>1, SlotFields
  <2>2. \/ slot[t].reg /\ slot' = [slot EXCEPT ![t] = u]
        \/ ~slot[t].reg /\ slot' = slot /\ job'[w].pc = "unreg"
    <3>1. CASE slot[t].reg
      <4>1. slot' = [slot EXCEPT ![t].cancel = TRUE,
                                 ![t].reason = IF @ = "none" THEN job[w].why ELSE @]
        BY <3>1 DEF CancelMark
      <4>2. slot' = [slot EXCEPT ![t] = u]
        BY <1>1, <4>1
      <4> QED
        BY <3>1, <4>2
    <3>2. CASE ~slot[t].reg
      <4>1. Goto(w, "unreg") /\ slot' = slot
        BY <3>2 DEF CancelMark
      <4>2. job'[w].pc = "unreg"
        BY <1>1, <4>1 DEF Goto, Job, CancelMark, At
      <4> QED
        BY <3>2, <4>1, <4>2
    <3> QED
      BY <3>1, <3>2
  <2> HIDE DEF u
  <2> QED
    BY <1>1, <2>1, <2>2 DEF Flags
<1>5. ASSUME NEW x \in Tasks
      PROVE  TaskWatched(x)' /\ StopWatched(x)'
  <2>1. <<x, pass>> \in Workers
    BY <1>1 DEF Workers, Reapers
  <2>2. job'[<<x, pass>>].tid = job[<<x, pass>>].tid
    BY <1>3, <2>1
  <2>3. slot'[x].proc = slot[x].proc /\ slot'[x].ready = slot[x].ready
    BY <1>4
  <2> QED
    BY <1>2, <2>2, <2>3, UntouchedWatched, StopKept DEF Untouched
<1>6. ASSUME NEW x \in Workers
      PROVE  JobWatched(x)'
  <2>1. JobWatched(x) /\ JobOwned(x) /\ TaskManned(t)
    BY <1>1 DEF WInv, Watched, MInv, Manned, IInv, Owned
  <2>2. CASE x = w
    BY <1>3, <1>4, <2>2 DEF JobWatched, CallSeen
  <2>3. CASE x # w /\ job[x].tid = t
    <3>1. job[x].pc = "start" => slot' = slot
      BY <1>4, <2>1, <2>3 DEF JobOwned, TaskManned
    <3> QED
      BY <1>2, <1>3, <1>4, <2>1, <2>3, <3>1 DEF JobWatched, CallSeen
  <2>4. CASE x # w /\ job[x].tid # t
    BY <1>2, <1>3, <1>4, <2>1, <2>4 DEF JobWatched
  <2> QED
    BY <2>2, <2>3, <2>4
<1> QED
  BY <1>5, <1>6 DEF Watched

(* Killing: the flag that is up tells whether there is a process.          *)
LEMMA KillWatched ==
  ASSUME WInv, [Next]_vars, NEW w \in Workers, CancelKill(w)
  PROVE  Watched'
<1> PICK t : t = job[w].tid
  OBVIOUS
<1>1. /\ t \in Tasks /\ job \in [Workers -> Job] /\ slot \in [Tasks -> Slot]
      /\ pass \in Passes /\ job[w].pc = "kill"
      /\ proc \in [Tasks -> {"none", "alive", "remnant", "dead"}]
  BY DEF CancelKill, At, WInv, MInv, IInv, Typed, TypeOK, Reasoned
<1>2. UNCHANGED <<disk, launches, run, sd, pass, active>>
  BY DEF CancelKill, stopVars
<1>3. /\ \A x \in Workers \ {w} : job'[x] = job[x]
      /\ job'[w].tid = t /\ job'[w].pc = "done"
  BY <1>1 DEF CancelKill, Goto, Job
<1>4. \A x \in Tasks : /\ slot'[x].cancel = slot[x].cancel /\ slot'[x].proc = slot[x].proc
                       /\ slot'[x].ready = slot[x].ready
  BY <1>1 DEF CancelKill, Slot
<1>5. proc' = [proc EXCEPT ![t] = Terminated(t, slot[t].proc)]
  BY DEF CancelKill
<1>6. slot[t].ready /\ slot[t].cancel /\ (slot[t].proc \/ proc[t] # "alive")
  BY <1>1 DEF WInv, Watched, JobWatched, CallSeen, TaskWatched, SandboxSeen
<1>7. /\ proc'[t] # "alive" /\ \A x \in Tasks : proc'[x] \in {proc[x], "dead"}
      /\ \A x \in Tasks : proc[x] = "none" => proc'[x] = proc[x]
  BY <1>1, <1>5, <1>6 DEF Terminated
<1>8. ASSUME NEW x \in Tasks
      PROVE  TaskWatched(x)' /\ StopWatched(x)'
  <2>1. <<x, pass>> \in Workers
    BY <1>1 DEF Workers, Reapers
  <2>2. job'[<<x, pass>>].tid = job[<<x, pass>>].tid
    BY <1>3, <2>1
  <2>3. launches[x] = 0 => proc[x] = "none"
    BY DEF WInv, Watched, TaskWatched, SandboxSeen
  <2> QED
    BY <1>2, <1>4, <1>7, <2>2, <2>3, UntouchedWatched, StopKept DEF Untouched
<1>9. ASSUME NEW x \in Workers
      PROVE  JobWatched(x)'
  <2>1. JobWatched(x)
    BY DEF WInv, Watched
  <2>2. CASE x = w
    BY <1>1, <1>3, <1>4, <1>6, <1>7, <2>2 DEF JobWatched, CallSeen
  <2>3. CASE x # w
    BY <1>3, <1>4, <1>7, <2>1, <2>3 DEF JobWatched, CallSeen
  <2> QED
    BY <2>2, <2>3
<1> QED
  BY <1>8, <1>9 DEF Watched

(* To settle a task: the verdict is true of its sandbox.                   *)
LEMMA SettleWatched ==
  ASSUME WInv, [Next]_vars, NEW t \in Tasks, NEW v \in Verdict, Update(t, Finalized(disk[t], v)),
         UNCHANGED <<proc, launches, run, slot, sd, pass, active>>,
         \A w \in Reapers : job'[w].tid = job[w].tid,
         v.error \in Seen => proc[t] # "alive" /\ run[t] \notin {"spawn", "register"},
         v.error # "unregistered" =>
           run[t] \notin {"spawn", "register"} /\ (slot[t].proc => proc[t] # "alive")
  PROVE  \A x \in Tasks : TaskWatched(x)' /\ StopWatched(x)'
<1>1. disk \in [Tasks -> Disk] /\ disk[t] \in Disk /\ pass \in Passes
  BY DEF WInv, MInv, IInv, Typed, TypeOK
<1>2. disk' = [disk EXCEPT ![t] = Finalized(disk[t], v)]
  BY DEF Update
<1>3. TaskWatched(t)'
  <2>1. TaskWatched(t)
    BY DEF WInv, Watched
  <2>2. CASE CanFinalize(disk[t])
    <3>1. disk'[t].state \in Final /\ disk'[t].error = v.error
      BY <1>1, <1>2, <2>2, FinalizeErrors
    <3> QED
      BY <2>1, <3>1 DEF TaskWatched, SandboxSeen
  <2>3. CASE ~CanFinalize(disk[t])
    BY <1>1, <1>2, <2>1, <2>3 DEF Finalized, TaskWatched
  <2> QED
    BY <2>2, <2>3
<1>4. ASSUME NEW x \in Tasks \ {t}
      PROVE  TaskWatched(x)'
  BY <1>1, <1>2, UntouchedWatched DEF Untouched
<1>5. ASSUME NEW x \in Tasks
      PROVE  StopWatched(x)'
  <2>1. <<x, pass>> \in Reapers
    BY <1>1 DEF Reapers
  <2> QED
    BY <2>1, StopKept
<1> QED
  BY <1>3, <1>4, <1>5

(* cancel settles after its wait for the slot expired, or without a slot.  *)
LEMMA CancelFinalizeWatched ==
  ASSUME WInv, [Next]_vars, NEW w \in Workers, CancelFinalize(w)
  PROVE  Watched'
<1> PICK t : t = job[w].tid
  OBVIOUS
<1>1. /\ t \in Tasks /\ job \in [Workers -> Job] /\ job[w].pc \in {"unreg", "expire"}
      /\ CancelVerdict(w) \in Verdict
  BY VerdictType DEF CancelFinalize, CancelVerdict, At, CancelPCs, Errors, WInv, MInv, IInv,
                     Typed, TypeOK, Reasoned
<1>2. /\ UNCHANGED <<proc, launches, run, slot, sd, pass, active>>
      /\ Update(t, Finalized(disk[t], CancelVerdict(w)))
  BY DEF CancelFinalize, execVars, stopVars
<1>3. /\ \A x \in Workers \ {w} : job'[x] = job[x]
      /\ job'[w].tid = t /\ job'[w].pc = "ret"
  BY <1>1 DEF CancelFinalize, Goto, Job
<1>4. /\ CancelVerdict(w).error = "unregistered" \/ job[w].pc = "expire"
      /\ job[w].pc = "unreg" => CancelVerdict(w).error = "unregistered"
  BY <1>1 DEF CancelVerdict, Canceled
<1>5. job[w].pc = "expire" => proc[t] # "alive" /\ run[t] \notin {"spawn", "register"}
  BY <1>1 DEF WInv, Watched, JobWatched, CallSeen, TaskWatched, SandboxSeen, Before
<1>6. \A x \in Tasks : TaskWatched(x)' /\ StopWatched(x)'
  BY <1>1, <1>2, <1>3, <1>4, <1>5, SettleWatched DEF Workers, Seen
<1>7. ASSUME NEW x \in Workers
      PROVE  JobWatched(x)'
  BY <1>2, <1>3 DEF WInv, Watched, JobWatched, CallSeen
<1> QED
  BY <1>6, <1>7 DEF Watched

-----------------------------------------------------------------------------
(* The steps that make, list and settle tasks.                             *)

(* Creating: no record, so no cancel was recorded either. *)
LEMMA CreateWatched ==
  ASSUME WInv, [Next]_vars, NEW h \in Handlers, CreateTask(h)
  PROVE  Watched'
<1> PICK t : t = job[h].tid
  OBVIOUS
<1>1. /\ h \in Workers /\ t \in Tasks /\ job[h].pc = "create" /\ pass \in Passes
      /\ job \in [Workers -> Job] /\ disk \in [Tasks -> Disk]
  BY DEF CreateTask, At, Workers, WInv, MInv, IInv, Typed, TypeOK, Reasoned
<1>2. /\ UNCHANGED <<proc, launches, run, slot, sd, pass, active>>
      /\ disk' = [disk EXCEPT ![t] = Created(disk[t])]
  BY DEF CreateTask, Update, execVars, stopVars
<1>3. /\ \A x \in Workers \ {h} : job'[x] = job[x]
      /\ job'[h].pc = "start" => CanCreate(disk[t]) /\ job'[h].tid = t
      /\ job'[h].pc \in {"start", "idle"}
  BY <1>1 DEF CreateTask, Idle, Job
<1>4. ASSUME NEW x \in Tasks
      PROVE  TaskWatched(x)'
  <2>1. TaskWatched(x)
    BY DEF WInv, Watched
  <2>2. CASE x = t /\ CanCreate(disk[t])
    <3>1. disk'[t].error = disk[t].error /\ disk'[t].state = "SUBMITTED"
          /\ disk[t].state = "NONE"
      BY <1>1, <1>2, <2>2, OpenErrors, CreateFacts DEF CanCreate
    <3> QED
      BY <1>2, <2>1, <2>2, <3>1 DEF TaskWatched, SandboxSeen, Seen, Final
  <2>3. CASE x # t \/ ~CanCreate(disk[t])
    <3>1. disk'[x] = disk[x]
      BY <1>1, <1>2, <2>3 DEF Created
    <3> QED
      BY <1>2, <2>1, <3>1 DEF TaskWatched
  <2> QED
    BY <2>2, <2>3
<1>5. ASSUME NEW x \in Tasks
      PROVE  StopWatched(x)'
  <2>1. <<x, pass>> \in Workers /\ <<x, pass>> # h
    BY <1>1, HandlersAssumption DEF Workers, Reapers
  <2> QED
    BY <1>2, <1>3, <2>1, StopKept
<1>6. ASSUME NEW x \in Workers
      PROVE  JobWatched(x)'
  <2>1. CASE x = h
    <3>1. CanCreate(disk[t]) => ~slot[t].cancel
      BY <1>1 DEF WInv, MInv, Manned, TaskManned, CanCreate
    <3> QED
      BY <1>2, <1>3, <2>1, <3>1 DEF JobWatched, CallSeen
  <2>2. CASE x # h
    BY <1>2, <1>3, <2>2 DEF WInv, Watched, JobWatched
  <2> QED
    BY <2>1, <2>2
<1> QED
  BY <1>4, <1>5, <1>6 DEF Watched

(* Starting: before any shutdown, a task nobody cancelled yet.             *)
LEMMA StartWatched ==
  ASSUME WInv, [Next]_vars, NEW h \in Handlers, StartTask(h)
  PROVE  Watched'
<1> PICK t : t = job[h].tid
  OBVIOUS
<1>1. /\ h \in Workers /\ t \in Tasks /\ job[h].pc = "start" /\ pass \in Passes
      /\ job \in [Workers -> Job] /\ slot \in [Tasks -> Slot] /\ run \in [Tasks -> RunPCs]
  BY DEF StartTask, At, Workers, WInv, MInv, IInv, Typed, TypeOK, Reasoned
<1>2. /\ UNCHANGED <<disk, proc, launches, sd, pass, active>>
      /\ \A x \in Workers \ {h} : job'[x] = job[x]
      /\ job'[h].pc = "idle"
  BY <1>1 DEF StartTask, stopVars, Idle
<1>3. ~slot[t].cancel /\ launches[t] = 0
  BY <1>1 DEF WInv, Watched, JobWatched, CallSeen, MInv, IInv, Owned, JobOwned
<1>4. CASE UNCHANGED <<slot, run>>
  <2>1. \A x \in Tasks : TaskWatched(x)'
    BY <1>2, <1>4 DEF WInv, Watched, TaskWatched
  <2>2. ASSUME NEW x \in Tasks
        PROVE  StopWatched(x)'
    <3>1. <<x, pass>> \in Workers /\ <<x, pass>> # h
      BY <1>1, HandlersAssumption DEF Workers, Reapers
    <3> QED
      BY <1>2, <1>4, <3>1, StopKept
  <2>3. \A x \in Workers : JobWatched(x)'
    BY <1>2, <1>4 DEF WInv, Watched, JobWatched, CallSeen
  <2> QED
    BY <2>1, <2>2, <2>3 DEF Watched
<1>5. CASE ~shuttingDown /\ ~UNCHANGED <<slot, run>>
  <2>1. slot' = [slot EXCEPT ![t] = [FreshSlot EXCEPT !.reg = TRUE]]
        /\ run' = [run EXCEPT ![t] = "validate"]
    BY <1>5 DEF StartTask
  <2>2. /\ run'[t] = "validate" /\ ~slot'[t].proc /\ ~slot'[t].ready /\ ~slot'[t].cancel
        /\ \A x \in Tasks \ {t} : slot'[x] = slot[x] /\ run'[x] = run[x]
    BY <1>1, <2>1 DEF FreshSlot
  <2>3. sd = "none"
    BY <1>5 DEF WInv, MInv, Manned
  <2>4. \A x \in Tasks : TaskWatched(x)' /\ StopWatched(x)'
    BY <1>2, <1>3, <2>2, <2>3 DEF WInv, Watched, TaskWatched, SandboxSeen, StopWatched
  <2>5. ASSUME NEW x \in Workers
        PROVE  JobWatched(x)'
    <3>1. JobWatched(x)
      BY DEF WInv, Watched
    <3> QED
      BY <1>2, <1>3, <2>2, <3>1 DEF JobWatched, CallSeen
  <2> QED
    BY <2>4, <2>5 DEF Watched
<1> QED
  BY <1>4, <1>5 DEF StartTask

(* Nothing but the shutdown, or the sandbox, moves. *)
LEMMA StopStepWatched ==
  ASSUME WInv, [Next]_vars, ~Stalls,
         RequestShutdown \/ JoinCancels \/ SweepDone \/ DrainOver \/ Restart \/ Serve
           \/ UNCHANGED vars
  PROVE  Watched'
<1>1. UNCHANGED <<disk, proc, launches, slot, run, job, active>>
  BY DEF RequestShutdown, JoinCancels, SweepDone, DrainOver, Restart, Serve, vars, execVars,
         stopVars
<1>2. \A t \in Tasks : TaskWatched(t)'
  BY <1>1 DEF WInv, Watched, TaskWatched
<1>3. \A w \in Workers : JobWatched(w)'
  BY <1>1 DEF WInv, Watched, JobWatched
<1>4. ASSUME NEW t \in Tasks
      PROVE  StopWatched(t)'
  <2>1. StopWatched(t) /\ TaskManned(t) /\ disk[t] \in Disk
    BY DEF WInv, MInv, Manned, Watched, IInv, Typed, TypeOK
  <2>2. CASE UNCHANGED <<sd, pass>>
    BY <1>1, <2>1, <2>2 DEF StopWatched
  <2>3. CASE RequestShutdown \/ DrainOver
    <3>1. sd' = "snapshot"
      BY <2>3 DEF RequestShutdown, DrainOver
    <3> QED
      BY <1>1, <2>1, <3>1 DEF StopWatched
  <2>4. CASE JoinCancels
    <3>1. sd = "join" /\ sd' = "reap" /\ pass' = pass
      BY <2>4 DEF JoinCancels
    <3>2. ASSUME t \in active, disk[t].state \in Active
          PROVE  slot[t].ready \/ run[t] = "off"
      <4>1. <<t, pass>> \in Workers /\ job[<<t, pass>>].tid = t
        BY <2>1, <3>1, <3>2 DEF StopWatched, WInv, MInv, IInv, Typed, TypeOK, Workers, Reapers
      <4>2. job[<<t, pass>>].pc # "ret"
        BY <3>2, <4>1, StateFacts, <2>1 DEF WInv, MInv, IInv, Owned, JobOwned
      <4>3. slot[t].reg => slot[t].ready
        BY <2>4, <3>2, <4>2 DEF JoinCancels
      <4> QED
        BY <2>1, <4>3 DEF TaskManned
    <3> QED
      BY <1>1, <2>1, <3>1, <3>2 DEF StopWatched
  <2>5. CASE SweepDone
    <3>1. sd = "sweep" /\ sd' \in {"drain", "closing"} /\ pass' = pass
          /\ (t \in active => disk[t].state \notin Active)
      BY <2>5 DEF SweepDone
    <3>2. t \in active => disk[t].state \in Final
      BY <2>1, <3>1, StateFacts DEF StopWatched
    <3> QED
      BY <1>1, <2>1, <3>1, <3>2 DEF StopWatched
  <2> QED
    BY <2>2, <2>3, <2>4, <2>5 DEF Restart, Serve, vars, stopVars
<1> QED
  BY <1>2, <1>3, <1>4 DEF Watched

(* A sandbox that ends by itself.                                          *)
LEMMA ExitWatched ==
  ASSUME WInv, [Next]_vars, NEW t \in Tasks, SandboxExit(t)
  PROVE  Watched'
<1>1. /\ proc \in [Tasks -> {"none", "alive", "remnant", "dead"}] /\ proc[t] = "alive"
      /\ UNCHANGED <<disk, launches, slot, run, job, sd, pass, active>>
  BY DEF SandboxExit, execVars, stopVars, WInv, MInv, IInv, Typed, TypeOK
<1>2. proc'[t] # "alive" /\ \A x \in Tasks \ {t} : proc'[x] = proc[x]
  BY <1>1 DEF SandboxExit
<1>3. \A x \in Tasks : TaskWatched(x)'
  BY <1>1, <1>2 DEF WInv, Watched, TaskWatched, SandboxSeen
<1>4. \A x \in Tasks : StopWatched(x)'
  BY <1>1, <1>2, StopKept
<1>5. \A w \in Workers : JobWatched(w)'
  BY <1>1, <1>2 DEF WInv, Watched, JobWatched, CallSeen
<1> QED
  BY <1>3, <1>4, <1>5 DEF Watched

(* Listing: what is not active then is final, or not created yet.          *)
LEMMA ListWatched ==
  ASSUME WInv, [Next]_vars, ListActive
  PROVE  Watched'
<1>1. /\ UNCHANGED <<disk, proc, launches, slot, run, pass>> /\ sd' = "join"
      /\ active' = {t \in Tasks : disk[t].state \in Active}
      /\ pass \in Passes
  BY DEF ListActive, execVars, WInv, MInv, IInv, Typed, TypeOK
<1>2. ASSUME NEW w \in Workers
      PROVE  /\ w \in active' \X {pass} =>
                  job'[w] = [pc |-> "lookup", tid |-> w[1], why |-> pass]
             /\ w \notin active' \X {pass} => job'[w] = job[w]
  BY DEF ListActive
<1>3. \A t \in Tasks : TaskWatched(t)'
  BY <1>1 DEF WInv, Watched, TaskWatched
<1>4. ASSUME NEW w \in Workers
      PROVE  JobWatched(w)'
  <2>1. JobWatched(w)
    BY DEF WInv, Watched
  <2>2. job'[w] = job[w] \/ job'[w].pc = "lookup"
    <3>1. CASE w \in active' \X {pass}
      <4>1. job'[w] = [pc |-> "lookup", tid |-> w[1], why |-> pass]
        BY <1>2, <3>1
      <4> QED
        BY <4>1
    <3>2. CASE w \notin active' \X {pass}
      BY <1>2, <3>2
    <3> QED
      BY <3>1, <3>2
  <2> QED
    BY <1>1, <2>1, <2>2 DEF JobWatched, CallSeen
<1>5. ASSUME NEW t \in Tasks
      PROVE  StopWatched(t)'
  <2>1. disk[t] \in Disk /\ TaskOwned(t)
    BY DEF WInv, MInv, IInv, Typed, TypeOK, Owned
  <2>2. ASSUME t \notin active'
        PROVE  disk[t].state \in Final \/ (run[t] = "off" /\ launches[t] = 0)
    BY <1>1, <2>1, <2>2, StateFacts DEF TaskOwned, Final
  <2>3. ASSUME t \in active'
        PROVE  disk[t].state # "NONE" /\ job'[<<t, pass>>].tid = t
    <3>1. <<t, pass>> \in Workers /\ <<t, pass>> \in active' \X {pass} /\ <<t, pass>>[1] = t
      BY <1>1, <2>3 DEF Workers, Reapers
    <3>2. job'[<<t, pass>>] = [pc |-> "lookup", tid |-> <<t, pass>>[1], why |-> pass]
      BY <1>2, <3>1
    <3> QED
      BY <1>1, <2>3, <3>1, <3>2 DEF Active
  <2> QED
    BY <1>1, <2>2, <2>3 DEF StopWatched
<1> QED
  BY <1>3, <1>4, <1>5 DEF Watched

(* Reaping: a task that is still active has its slot ready and registered, *)
(* or was never launched.                                                  *)
LEMMA ReapWatched ==
  ASSUME WInv, [Next]_vars, ReapRemaining
  PROVE  Watched'
<1>1. /\ slot \in [Tasks -> Slot] /\ proc \in [Tasks -> {"none", "alive", "remnant", "dead"}]
      /\ UNCHANGED <<disk, launches, run, job, pass, active>> /\ sd = "reap" /\ sd' = "sweep"
      /\ mode = "serve"
  BY DEF ReapRemaining, hostVars, WInv, MInv, IInv, Typed, TypeOK
<1>2. ASSUME NEW t \in Tasks
      PROVE  /\ slot'[t].cancel = slot[t].cancel /\ slot'[t].proc = slot[t].proc
             /\ slot'[t].ready = slot[t].ready
             /\ proc'[t] \in {proc[t], "dead"} /\ (proc[t] = "none" => proc'[t] = proc[t])
             /\ t \in active /\ slot[t].reg /\ ~slot[t].done /\ slot[t].proc =>
                  proc'[t] # "alive"
  BY <1>1 DEF ReapRemaining, Terminated, Slot
<1>3. ASSUME NEW t \in Tasks
      PROVE  TaskWatched(t)' /\ StopWatched(t)'
  <2>1. TaskWatched(t) /\ StopWatched(t) /\ TaskManned(t) /\ TaskOwned(t) /\ disk[t] \in Disk
    BY DEF WInv, Watched, MInv, Manned, IInv, Owned, Typed, TypeOK
  <2>2. Untouched(t)
    BY <1>1, <1>2, <2>1 DEF Untouched, TaskWatched, SandboxSeen
  <2>3. ASSUME t \in active, disk[t].state \in Active
        PROVE  proc'[t] # "alive"
    <3>1. ~slot[t].done
      BY <2>1, <2>3, StateFacts DEF TaskOwned
    <3>2. CASE run[t] = "off"
      <4>1. launches[t] = 0
        BY <1>1, <2>1, <2>3, <3>2 DEF TaskManned, TaskOwned, Final
      <4> QED
        BY <1>2, <2>1, <4>1 DEF TaskWatched, SandboxSeen
    <3>3. CASE run[t] # "off"
      BY <1>1, <1>2, <2>1, <2>3, <3>1, <3>3 DEF TaskWatched, SandboxSeen, TaskManned, StopWatched
    <3> QED
      BY <3>2, <3>3
  <2>4. StopWatched(t)'
    BY <1>1, <1>2, <2>1, <2>3 DEF StopWatched
  <2> QED
    BY <2>2, <2>4, UntouchedWatched
<1>4. \A w \in Workers : JobWatched(w)'
  BY <1>1, <1>2 DEF WInv, Watched, JobWatched, CallSeen
<1> QED
  BY <1>3, <1>4 DEF Watched

(* The shutdown and the start settle what is left. *)
LEMMA SweepWatched ==
  ASSUME WInv, [Next]_vars, NEW t \in Tasks, SweepTask(t) \/ RecoverTask(t)
  PROVE  Watched'
<1> DEFINE v == IF sd = "sweep" THEN Canceled(pass, "drained") ELSE Failed("runner_restart")
<1>1. UNCHANGED <<proc, launches, run, slot, job, sd, pass, active>>
  BY DEF SweepTask, RecoverTask, execVars, stopVars
<1>2. TaskWatched(t) /\ StopWatched(t) /\ Fresh
  BY DEF WInv, Watched, MInv, Manned
<1>3. v \in Verdict
  BY VerdictType DEF WInv, MInv, IInv, Typed, TypeOK, CancelReasons, Errors, Reasons
<1>4. Update(t, Finalized(disk[t], v))
  BY <1>2 DEF SweepTask, RecoverTask, Fresh
<1>5. \/ proc[t] # "alive" /\ run[t] \notin {"spawn", "register"}
      \/ v.error = "none" /\ run[t] = "off" /\ ~slot[t].proc
  <2>1. CASE SweepTask(t)
    <3>1. sd = "sweep" /\ t \in active /\ disk[t].state \in Active
      BY <2>1 DEF SweepTask
    <3> QED
      BY <1>2, <3>1 DEF StopWatched, TaskWatched, SandboxSeen, Before
  <2>2. CASE RecoverTask(t)
    <3>1. mode # "serve"
      BY <2>2 DEF RecoverTask
    <3> QED
      BY <1>2, <3>1 DEF Fresh, FreshSlot, Failed
  <2> QED
    BY <2>1, <2>2
<1> HIDE DEF v
<1>6. \A x \in Tasks : TaskWatched(x)' /\ StopWatched(x)'
  BY <1>1, <1>3, <1>4, <1>5, SettleWatched DEF Seen
<1>7. \A w \in Workers : JobWatched(w)'
  BY <1>1 DEF WInv, Watched, JobWatched
<1> QED
  BY <1>6, <1>7 DEF Watched

(* A crash forgets the slots. What it tears was about to be settled by     *)
(* somebody who had seen to the sandbox.                                   *)
LEMMA CrashWatched ==
  ASSUME WInv, [Next]_vars, Crash \/ Exit
  PROVE  Watched'
<1>1. /\ UNCHANGED <<proc, launches>> /\ sd' = "none" /\ active' = {}
      /\ \A t \in Tasks : run'[t] = "off" /\ slot'[t] = FreshSlot
      /\ \A w \in Workers : job'[w].pc = "idle"
  BY DEF Crash, Exit, FreshMemory, Idle
<1>2. ~FreshSlot.ready /\ ~FreshSlot.proc
  BY DEF FreshSlot
<1>3. ASSUME NEW t \in Tasks, NEW v \in Pending(t), CanFinalize(disk[t]), v.error \in Seen
      PROVE  proc[t] # "alive"
  <2>1. TaskWatched(t) /\ StopWatched(t)
    BY DEF WInv, Watched
  <2>2. CASE run[t] = "finalize"
    BY <2>1, <2>2 DEF TaskWatched, SandboxSeen
  <2>3. ASSUME NEW w \in Workers, job[w].pc \in {"unreg", "expire"}, job[w].tid = t,
               v = CancelVerdict(w)
        PROVE  proc[t] # "alive"
    <3>1. job[w].pc = "expire"
      BY <1>3, <2>3 DEF CancelVerdict, Canceled, Seen
    <3> QED
      BY <2>3, <3>1 DEF WInv, Watched, JobWatched, CallSeen
  <2>4. CASE sd = "sweep" /\ t \in active
    BY <1>3, <2>1, <2>4 DEF StopWatched, CanFinalize
  <2>5. CASE v = Failed("runner_restart")
    BY <1>3, <2>5 DEF Failed, Seen
  <2> QED
    BY <2>2, <2>3, <2>4, <2>5 DEF Pending
<1>4. ASSUME NEW t \in Tasks
      PROVE  \/ disk'[t] = disk[t]
             \/ disk'[t].state \notin Final /\ disk'[t].error = "none"
             \/ /\ disk'[t].state \in Final
                /\ disk'[t].error \in Seen => proc[t] # "alive"
  <2>1. disk \in [Tasks -> Disk] /\ disk[t] \in Disk /\ TaskWatched(t)
    BY DEF WInv, Watched, MInv, IInv, Typed, TypeOK
  <2>2. disk'[t] = disk[t] \/ (Crash /\ disk'[t] \in Torn(t))
    <3>1. CASE Exit
      BY <3>1 DEF Exit
    <3>2. CASE Crash
      BY <2>1, <3>2 DEF Crash, Update
    <3> QED
      BY <3>1, <3>2
  <2>3. ASSUME disk'[t] \in TornCreate(disk[t])
        PROVE  disk'[t].state \notin Final /\ disk'[t].error = "none"
    <3>1. CanCreate(disk[t])
      BY <2>3 DEF TornCreate
    <3> QED
      BY <2>1, <2>3, <3>1, CreateFacts, OpenErrors
      DEF TaskWatched, SandboxSeen, CanCreate, Final
  <2>4. ASSUME disk'[t] \in TornClaim(disk[t])
        PROVE  disk'[t].state \notin Final /\ disk'[t].error = "none"
    <3>1. CanClaim(disk[t])
      BY <2>4 DEF TornClaim
    <3> QED
      BY <2>1, <2>4, <3>1, ClaimFacts, OpenErrors
      DEF TaskWatched, SandboxSeen, CanClaim, Final
  <2>5. ASSUME NEW v \in Pending(t), disk'[t] \in TornFinalize(disk[t], v)
        PROVE  /\ disk'[t].state \in Final
               /\ disk'[t].error \in Seen => proc[t] # "alive"
    <3>1. CanFinalize(disk[t])
      BY <2>5 DEF TornFinalize
    <3>2. v \in Verdict
      BY PendingVerdicts DEF WInv, MInv, IInv
    <3> QED
      BY <1>3, <2>1, <2>5, <3>1, <3>2, FinalizeErrors
  <2> QED
    BY <2>2, <2>3, <2>4, <2>5 DEF Torn
<1>5. \A t \in Tasks : TaskWatched(t)'
  BY <1>1, <1>2, <1>4 DEF WInv, Watched, TaskWatched, SandboxSeen, Before, Seen
<1>6. \A t \in Tasks : StopWatched(t)'
  BY <1>1 DEF StopWatched
<1>7. \A w \in Workers : JobWatched(w)'
  BY <1>1 DEF JobWatched, CallSeen
<1> QED
  BY <1>5, <1>6, <1>7 DEF Watched

(* Together: no step loses a sandbox, unless a thread may stall.           *)
LEMMA WatchedStep == ~Stalls /\ WInv /\ [Next]_vars => WInv'
<1> SUFFICES ASSUME ~Stalls, WInv, [Next]_vars PROVE WInv'
  OBVIOUS
<1>1. MInv'
  BY MannedStep DEF WInv
<1>2. Watched'
  BY ThreadWatched, MoveWatched, MarkWatched, KillWatched, CancelFinalizeWatched, CreateWatched,
     StartWatched, StopStepWatched, ExitWatched, ListWatched, ReapWatched, SweepWatched,
     CrashWatched
  DEF Next, HandlerStep, CancelStep, RunStep, ThreadStep, StopStep, StartStep
<1> QED
  BY <1>1, <1>2 DEF WInv

LEMMA InitWatched == Init => WInv
<1> SUFFICES ASSUME Init PROVE WInv
  OBVIOUS
<1>1. /\ NoTask.state = "NONE" /\ NoTask.error = "none" /\ Idle.pc = "idle"
      /\ ~FreshSlot.ready /\ ~FreshSlot.proc
  BY DEF NoTask, FreshSlot, Idle
<1>2. \A t \in Tasks : TaskWatched(t) /\ StopWatched(t)
  BY <1>1 DEF Init, TaskWatched, SandboxSeen, StopWatched, Seen, Final, Before
<1>3. \A w \in Workers : JobWatched(w)
  BY <1>1 DEF Init, JobWatched, CallSeen
<1> QED
  BY <1>2, <1>3, InitManned DEF WInv, Watched

(* Where no thread stalls for a whole shutdown_timeout between being       *)
(* registered and publishing its process: a record that says its sandbox   *)
(* was terminated, cleaned up or drained tells the truth for good, and the *)
(* runner exits with no sandbox of its own (cancel, _run, shutdown_all).   *)
THEOREM EverySandboxIsSeenTo == ~Stalls => (Spec => []NoSandboxIsLost)
<1>1. WInv => NoSandboxIsLost
  <2> SUFFICES ASSUME WInv, NEW t \in Tasks
               PROVE  /\ disk[t].error \in Seen => NoSandbox(t)
                      /\ sd = "closing" /\ disk[t].error # "unregistered" =>
                           /\ run[t] \notin {"spawn", "register"}
                           /\ slot[t].proc => proc[t] # "alive"
    BY DEF NoSandboxIsLost, Seen
  <2>1. TaskWatched(t) /\ StopWatched(t)
    BY DEF WInv, Watched
  <2> QED
    BY <2>1 DEF TaskWatched, SandboxSeen, StopWatched, NoSandbox
<1> SUFFICES ASSUME ~Stalls PROVE Spec => []NoSandboxIsLost
  OBVIOUS
<1>2. WInv /\ [Next]_vars => WInv'
  BY WatchedStep
<1> QED
  BY <1>1, <1>2, InitWatched, PTL DEF Spec

=============================================================================
