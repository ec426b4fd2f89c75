--------------------------- MODULE VMBridge_proofs ---------------------------
(***************************************************************************)
(* For any number of launches and probes over one VM, any number of        *)
(* connections, slots and requests, and any envelopes: the raw credential  *)
(* stays in its lease, the hole in the firewall is the lock holder's, a    *)
(* launch that returned left nothing in the guest, and what is accepted is *)
(* what was commissioned. The theorems are about ProbeSpec, the launches   *)
(* of the provider together with the probes that meet them.                *)
(***************************************************************************)
EXTENDS L2Probe, FiniteSetTheorems, TLAPS

(* Who holds the lock is in the part of launch that needs it.              *)
Serialized == \A l \in Launches : run[l].pc \in Locked <=> lock = l

(* How far __exit__ of a broker is, against where its launch is: it opens  *)
(* after the copy into the guest and is closed before anything that came   *)
(* out is looked at.                                                       *)
Serving  == {"close", "open", "start", "work", "copy", "copying", "revoke"}
Checking == {"check", "apply", "meta", "metaw"}
Leaving  == Cleaning \cup {"unlock"}
Alive    == {"open", "revoked", "cut"}

Served(r, st) ==
  /\ r.pc \in Serving => st = "open"
  /\ r.pc = "cut" => st = "revoked"
  /\ r.pc = "join" => st = "cut"
  /\ r.pc \notin WithBroker => st \notin Alive
  /\ r.pc \in Checking \cup {"returned"} => st = "closed"
  /\ r.pc \in Leaving /\ r.ok => st = "closed"

BrokerStaged == \A l \in Launches : Served(run[l], srv[l].st)

(* A handler belongs to a broker that is not closed, and serves, once the  *)
(* request is authorized, the guest of that broker's launch.               *)
ConnStaged ==
  \A c \in Conns :
    /\ conn[c].pc = "none" <=> conn[c].at = NoLaunch
    /\ conn[c].at # NoLaunch => srv[conn[c].at].st \in Alive
    /\ conn[c].pc \notin {"none", "idle"} => conn[c].from = conn[c].at

(* The semaphore counts the handlers. *)
SlotsCounted ==
  \A l \in Launches :
    IsFiniteSet(ConnsOf(l)) /\ srv[l].free + Cardinality(ConnsOf(l)) = Slots

(* The hole is opened only under firewall_reset_required, and survives the *)
(* finally only where that failed.                                         *)
Shut(r, open) ==
  /\ open => r.pc \in (WithBroker \ {"close"}) \cup Checking \cup Leaving \cup {"failed", "dead"}
  /\ r.pc \in {"start", "work"} => open
  /\ r.pc \in (WithBroker \ {"close"}) \cup Checking => r.reset
  /\ open /\ r.pc \in {"kill", "rm"} => r.reset
  /\ open /\ r.pc = "unlock" => ~r.ok

EgressStaged == \A l \in Launches : Shut(run[l], fw = l)

(* What a launch has in the guest: the copy of its snapshot from the copy  *)
(* on, a unit that is over when its result is awaited, and nothing when    *)
(* the cleanup went well.                                                  *)
InGuest(r, u, c, v) ==
  /\ r.pc \in {"lease"} \cup (Serving \ {"revoke"}) => v = r.ver
  /\ r.pc \in {"copy", "copying"} => u = "done"
  /\ r.pc \in {"revoke", "cut", "join"} /\ r.ok => u = "done"
  /\ r.pc \in Checking => u = "done" /\ r.ok
  /\ r.pc = "rm" => u = "none" /\ c = "none"
  /\ r.pc = "returned" \/ (r.pc \in {"base", "unlock"} /\ r.ok) =>
       u = "none" /\ c = "none" /\ v = NoVersion

GuestStaged == \A l \in Launches : InGuest(run[l], unit[l], cu[l], root[l])

(* What a launch has of the result, and what of it the checks let through. *)
Allowed(out, ver) ==
  /\ out.ver = ver /\ out.art = "reported"
  /\ out.src \in {"same"} \cup (IF ver \in Generators THEN {"changed"} ELSE {})

Result(r) ==
  /\ r.pc \in {"revoke", "cut", "join"} /\ r.ok => r.out.ver = r.ver
  /\ r.pc \in Checking => r.out.ver = r.ver
  /\ r.pc \in Checking \ {"check"} => Allowed(r.out, r.ver)

ResultStaged == \A l \in Launches : Result(run[l])

(* The record is that of a launch that is past its checks; it does not     *)
(* change hands, and nothing else was accepted.                            *)
RecordStaged ==
  /\ meta.by = NoLaunch => meta = NoMeta
  /\ meta.by # NoLaunch =>
       /\ Allowed(meta.out, meta.ver)
       /\ run[meta.by].pc \in {"metaw"} \cup Leaving \cup Ended
       /\ unit[meta.by] \in {"done", "none"}
  /\ \A l \in Launches : run[l].pc = "metaw" => meta.by = l
  /\ accepted \in {NoLaunch, meta.by}

(* A probe's own part, against its run in the VM: its drop unit is gone    *)
(* once KillUnits went well, what it runs is what it read, and "passed" is *)
(* said at the very end.                                                   *)
BeforeVM == ProbePCs \ {"vm", "over", "dead"}
HasRead  == {"manifest", "mkstage", "write", "load", "snapshot", "close", "archive", "vm"}

Dropped(r, drop) ==
  r.pc \in {"rm", "returned"} \/ (r.pc \in {"base", "unlock"} /\ r.ok) => drop = "none"

Pinned(q, r) ==
  /\ q.pc \in BeforeVM => r.pc = "idle"
  /\ q.pc \in HasRead => q.read # NoVersion
  /\ q.pc \in {"close", "archive", "vm"} => q.ran = q.read
  /\ q.pc \in {"archive", "vm"} => q.stage = "none"
  /\ q.said = "passed" =>
       /\ r.pc = "returned" /\ q.pc = "over"
       /\ q.ran = q.read /\ q.read # NoVersion
       /\ q.stage = "none" /\ ~q.dir

ProbeStaged ==
  \A l \in probes : Dropped(run[l], probe[l].drop) /\ Pinned(probe[l], run[l])

(* What holds of the VM, whoever uses it; and of the probes too.           *)
VMInv ==
  /\ TypeOK
  /\ Serialized /\ BrokerStaged /\ ConnStaged /\ SlotsCounted
  /\ EgressStaged /\ GuestStaged /\ ResultStaged /\ RecordStaged

IInv == VMInv /\ ProbeTypeOK /\ ProbeStaged

-----------------------------------------------------------------------------
(* What Step, Raise and End make of the process record, field by field.    *)
Runs == [pc : PCs, ver : Versions \cup {NoVersion}, ok : BOOLEAN, reset : BOOLEAN,
         out : Outs \cup {NoOut}]

Becomes(l, p, ver, ok, reset, out) ==
  /\ run' \in [Launches -> Runs]
  /\ \A k \in Launches : k # l => run'[k] = run[k]
  /\ run'[l].pc = p /\ run'[l].ver = ver /\ run'[l].ok = ok
  /\ run'[l].reset = reset /\ run'[l].out = out

Steps(l, p)  == Becomes(l, p, run[l].ver, run[l].ok, run[l].reset, run[l].out)
Raises(l, p) == Becomes(l, p, NoVersion, FALSE, run[l].reset, NoOut)
Ends(l, p)   == Becomes(l, p, NoVersion, TRUE, FALSE, NoOut)

(* The names, as one set: what leaves need of them.                        *)
LEMMA PCNames ==
  PCs = {"idle", "wait", "ready", "stage", "copyin", "lease", "check", "apply", "meta",
         "metaw", "unlock", "close", "open", "start", "work", "copy", "copying", "revoke",
         "cut", "join", "kill", "rm", "base", "returned", "failed", "dead"}
  BY DEF PCs, Locked, WithBroker, Cleaning, Ended

(* A step that goes on changes where the process is, and nothing else.     *)
LEMMA StepSteps ==
  ASSUME TypeOK, NEW l \in Launches, NEW p \in PCs, Step(l, p)
  PROVE  Steps(l, p)
  BY DEF TypeOK, Step, Steps, Becomes, Runs

(* An exception keeps of the run only whether the base is to be reset.     *)
LEMMA RaiseRaises ==
  ASSUME TypeOK, NEW l \in Launches, NEW p \in PCs, Raise(l, p)
  PROVE  Raises(l, p)
  BY DEF TypeOK, Raise, Raises, Becomes, Runs, NoRun

(* So does a command that fails.                                           *)
LEMMA FailRaises ==
  ASSUME TypeOK, NEW l \in Launches, NEW p \in PCs, Fail(l, p)
  PROVE  Raises(l, p)
  BY RaiseRaises DEF Fail

(* A process that is over leaves nothing of its run but where it ended.    *)
LEMMA EndEnds ==
  ASSUME TypeOK, NEW l \in Launches, NEW p \in PCs, End(l, p)
  PROVE  Ends(l, p)
  BY DEF TypeOK, End, Ends, Becomes, Runs, NoRun

-----------------------------------------------------------------------------
(* A step of the process of one launch, be it a probe or not, by what it   *)
(* changes beside the process itself: nothing, the lock, the guest root,   *)
(* the broker, the firewall, the units, the record.                        *)
VMStep(l) ==
  \/ LaunchOf(l)
  \/ l \in probes /\ (PackArchive(l) \/ ProbeReady(l) \/ DropFails(l) \/ ProbeCheck(l))

Quiet(l) ==
  /\ UNCHANGED <<srv, conn, env, lock, root, unit, cu, fw, meta, accepted>>
  /\ \/ /\ run[l].pc = "idle"
        /\ \E v \in Versions : Becomes(l, "wait", v, run[l].ok, run[l].reset, run[l].out)
     \/ run[l].pc \in {"idle", "wait"} /\ Ends(l, "failed")
     \/ run[l].pc = "ready" /\ (Steps(l, "stage") \/ Steps(l, "copyin") \/ Raises(l, "unlock"))
     \/ run[l].pc = "stage" /\ (Steps(l, "copyin") \/ Raises(l, "unlock"))
     \/ run[l].pc = "lease" /\ Raises(l, "kill")
     \/ run[l].pc = "work" /\ ((unit[l] = "done" /\ Steps(l, "copy")) \/ Raises(l, "revoke"))
     \/ run[l].pc = "copying" /\ Raises(l, "revoke")
     \/ /\ run[l].pc = "copying"
        /\ \E out \in CopiesOut(l) :
             Becomes(l, "revoke", run[l].ver, run[l].ok, run[l].reset, out)
     \/ run[l].pc = "check" /\ (Steps(l, "kill") \/ Raises(l, "kill"))
     \/ run[l].pc = "check" /\ ReceiptHolds(l) /\ SourceAllowed(l) /\ Steps(l, "apply")
     \/ run[l].pc = "apply" /\ (Steps(l, "meta") \/ Raises(l, "kill"))
     \/ run[l].pc = "meta" /\ Raises(l, "kill")
     \/ run[l].pc = "metaw" /\ Raises(l, "kill")
     \/ run[l].pc = "kill" /\ Raises(l, AfterJob(l))
     \/ run[l].pc = "rm" /\ Raises(l, AfterJob(l))
     \/ run[l].pc = "base" /\ Raises(l, "unlock")

Locks(l) ==
  /\ UNCHANGED <<env, root, unit, cu, fw, meta, accepted>>
  /\ \/ /\ run[l].pc = "wait" /\ Steps(l, "ready")
        /\ lock = NoLaunch /\ lock' = l /\ UNCHANGED <<srv, conn>>
     \/ /\ run[l].pc = "unlock" /\ Ends(l, IF run[l].ok THEN "returned" ELSE "failed")
        /\ lock' = NoLaunch /\ UNCHANGED <<srv, conn>>
     \/ /\ run[l].pc \in {"wait"} \cup Locked /\ Ends(l, "dead")
        /\ lock' = (IF lock = l THEN NoLaunch ELSE lock) /\ DropBroker(l)

Roots(l) ==
  /\ UNCHANGED <<srv, conn, env, lock, unit, cu, fw, meta, accepted>>
  /\ \/ /\ run[l].pc = "copyin" /\ Steps(l, "lease")
        /\ root' = [root EXCEPT ![l] = run[l].ver]
     \/ /\ run[l].pc = "copyin" /\ Raises(l, "kill")
        /\ root' \in {root, [root EXCEPT ![l] = run[l].ver]}
     \/ /\ run[l].pc = "rm" /\ Steps(l, AfterJob(l))
        /\ root' = [root EXCEPT ![l] = NoVersion]

Brokers(l) ==
  /\ UNCHANGED <<env, lock, root, unit, cu, fw, meta, accepted>>
  /\ \/ run[l].pc = "lease" /\ OpenBroker(l) /\ Steps(l, "close")
     \/ run[l].pc = "revoke" /\ Revoke(l) /\ Steps(l, "cut")
     \/ run[l].pc = "cut" /\ CutSockets(l) /\ Steps(l, "join")
     \/ /\ run[l].pc = "join" /\ CloseBroker(l)
        /\ Steps(l, IF run[l].ok THEN "check" ELSE "kill")

Holes(l) ==
  /\ UNCHANGED <<srv, conn, env, lock, root, unit, cu, meta, accepted>>
  /\ \/ /\ run[l].pc = "close" /\ fw' = NoLaunch
        /\ Becomes(l, "open", run[l].ver, run[l].ok, TRUE, run[l].out)
     \/ /\ run[l].pc = "close" /\ fw' = fw
        /\ Becomes(l, "revoke", NoVersion, FALSE, TRUE, NoOut)
     \/ run[l].pc = "open" /\ fw' = l /\ Steps(l, "start")
     \/ run[l].pc = "open" /\ fw' \in {NoLaunch, l} /\ Raises(l, "revoke")
     \/ run[l].pc = "base" /\ fw' = NoLaunch /\ Steps(l, "unlock")

Units(l) ==
  /\ UNCHANGED <<srv, conn, env, lock, root, fw, meta, accepted>>
  /\ \/ /\ run[l].pc = "start" /\ Steps(l, "work")
        /\ unit' = [unit EXCEPT ![l] = "run"] /\ UNCHANGED cu
     \/ /\ run[l].pc = "copy" /\ Steps(l, "copying")
        /\ cu' = [cu EXCEPT ![l] = "run"] /\ UNCHANGED unit
     \/ /\ run[l].pc = "kill" /\ Steps(l, "rm")
        /\ unit' = [unit EXCEPT ![l] = "none"] /\ cu' = [cu EXCEPT ![l] = "none"]

Records(l) ==
  /\ UNCHANGED <<srv, conn, env, lock, root, unit, cu, fw, accepted>>
  /\ \/ /\ run[l].pc = "meta" /\ Steps(l, "metaw")
        /\ meta = NoMeta /\ meta' = MetaOf(l)
     \/ /\ run[l].pc = "metaw" /\ Steps(l, "kill")
        /\ meta' = [meta EXCEPT !.full = TRUE]

Effect(l) == Quiet(l) \/ Locks(l) \/ Roots(l) \/ Brokers(l) \/ Holes(l) \/ Units(l) \/ Records(l)

(* The clean-up goes on at a step of the program.                          *)
LEMMA AfterJobNames == \A l \in Launches : AfterJob(l) \in PCs
  BY PCNames DEF AfterJob

(* The wait for the job changes one launch, and only as Becomes says.      *)
LEMMA WaitBecomes ==
  ASSUME TypeOK, NEW l \in Launches, NEW v \in Versions,
         run' = [run EXCEPT ![l].pc = "wait", ![l].ver = v]
  PROVE  Becomes(l, "wait", v, run[l].ok, run[l].reset, run[l].out)
  <1>1. "wait" \in PCs
    BY PCNames
  <1> DEFINE r == [run[l] EXCEPT !.pc = "wait", !.ver = v]
  <1>2. run \in [Launches -> Runs] /\ run[l] \in Runs
    BY DEF TypeOK, Runs
  <1>3. run' = [run EXCEPT ![l] = r]
    BY <1>2
  <1>4. /\ r \in Runs /\ r.pc = "wait" /\ r.ver = v /\ r.ok = run[l].ok
        /\ r.reset = run[l].reset /\ r.out = run[l].out
    BY <1>1, <1>2 DEF Runs
  <1> HIDE DEF r
  <1> QED BY <1>2, <1>3, <1>4 DEF Becomes

(* So does copying the result out.                                         *)
LEMMA OutBecomes ==
  ASSUME TypeOK, NEW l \in Launches, NEW out \in CopiesOut(l),
         run' = [run EXCEPT ![l].pc = "revoke", ![l].out = out]
  PROVE  Becomes(l, "revoke", run[l].ver, run[l].ok, run[l].reset, out)
  <1>1. "revoke" \in PCs /\ out \in Outs
    BY PCNames DEF CopiesOut
  <1> DEFINE r == [run[l] EXCEPT !.pc = "revoke", !.out = out]
  <1>2. run \in [Launches -> Runs] /\ run[l] \in Runs
    BY DEF TypeOK, Runs
  <1>3. run' = [run EXCEPT ![l] = r]
    BY <1>2
  <1>4. /\ r \in Runs /\ r.pc = "revoke" /\ r.ver = run[l].ver /\ r.ok = run[l].ok
        /\ r.reset = run[l].reset /\ r.out = out
    BY <1>1, <1>2 DEF Runs
  <1> HIDE DEF r
  <1> QED BY <1>2, <1>3, <1>4 DEF Becomes

(* Closing the egress commits the launch to resetting it, failed or not.    *)
LEMMA CloseBecomes ==
  ASSUME TypeOK, NEW l \in Launches
  PROVE  /\ run' = [run EXCEPT ![l].pc = "open", ![l].reset = TRUE]
              => Becomes(l, "open", run[l].ver, run[l].ok, TRUE, run[l].out)
         /\ run' = [run EXCEPT ![l] = [NoRun EXCEPT !.pc = "revoke", !.ok = FALSE,
                                                    !.reset = TRUE]]
              => Becomes(l, "revoke", NoVersion, FALSE, TRUE, NoOut)
  <1>1. "open" \in PCs /\ "revoke" \in PCs
    BY PCNames
  <1>2. ASSUME run' = [run EXCEPT ![l].pc = "open", ![l].reset = TRUE]
        PROVE  Becomes(l, "open", run[l].ver, run[l].ok, TRUE, run[l].out)
    <2> DEFINE r == [run[l] EXCEPT !.pc = "open", !.reset = TRUE]
    <2>1. run' = [run EXCEPT ![l] = r]
      BY <1>2 DEF TypeOK
    <2>2. run \in [Launches -> Runs] /\ run[l] \in Runs
      BY DEF TypeOK, Runs
    <2>3. /\ r \in Runs /\ r.pc = "open" /\ r.ver = run[l].ver /\ r.ok = run[l].ok
          /\ r.reset = TRUE /\ r.out = run[l].out
      BY <2>2, <1>1 DEF Runs
    <2> HIDE DEF r
    <2> QED BY <2>1, <2>2, <2>3 DEF Becomes
  <1>3. ASSUME run' = [run EXCEPT ![l] = [NoRun EXCEPT !.pc = "revoke", !.ok = FALSE,
                                                       !.reset = TRUE]]
        PROVE  Becomes(l, "revoke", NoVersion, FALSE, TRUE, NoOut)
    BY <1>1, <1>3 DEF TypeOK, Becomes, Runs, NoRun
  <1> QED BY <1>2, <1>3

(* The environment version a launch reads is one of the versions.          *)
LEMMA EnvVersion == TypeOK => env \in Versions
  BY DEF TypeOK

(* Every step of a launch has one of the effects on what launches share.   *)
LEMMA VMEffect ==
  ASSUME TypeOK, ProbeStaged, NEW l \in Launches, VMStep(l)
  PROVE  Effect(l) \/ UNCHANGED vars
  <1> USE PCNames, AfterJobNames, StepSteps, RaiseRaises, FailRaises, EndEnds
      DEF Effect, At, Shared, guestVars, brokerVars
  <1>1. CASE Snapshot(l)
    <2>1. Becomes(l, "wait", env, run[l].ok, run[l].reset, run[l].out)
      BY <1>1, EnvVersion, WaitBecomes DEF Snapshot
    <2> QED BY <2>1, EnvVersion, <1>1 DEF Snapshot, Quiet
  <1>2. CASE RefuseInput(l) BY <1>2 DEF RefuseInput, Quiet
  <1>3. CASE Acquire(l) BY <1>3 DEF Acquire, Locks
  <1>4. CASE GiveUp(l) BY <1>4 DEF GiveUp, Quiet
  <1>5. CASE Ready(l) BY <1>5 DEF Ready, Quiet
  <1>6. CASE Archive(l) BY <1>6 DEF Archive, Quiet
  <1>7. CASE CopyIn(l) BY <1>7 DEF CopyIn, Roots
  <1>8. CASE Lease(l) BY <1>8 DEF Lease, Quiet, Brokers
  <1>9. CASE CloseEgress(l)
    <2>1. \/ Becomes(l, "open", run[l].ver, run[l].ok, TRUE, run[l].out) /\ fw' = NoLaunch
          \/ Becomes(l, "revoke", NoVersion, FALSE, TRUE, NoOut) /\ fw' = fw
      BY <1>9, CloseBecomes DEF CloseEgress
    <2> QED BY <2>1, <1>9 DEF CloseEgress, Holes
  <1>10. CASE OpenEgress(l) BY <1>10 DEF OpenEgress, Holes
  <1>11. CASE StartWorker(l) BY <1>11 DEF StartWorker, Units
  <1>12. CASE AwaitWorker(l) BY <1>12 DEF AwaitWorker, Quiet
  <1>13. CASE StartCopyout(l) BY <1>13 DEF StartCopyout, Units
  <1>14. CASE AwaitCopyout(l)
    <2>1. PICK out \in CopiesOut(l) : run' = [run EXCEPT ![l].pc = "revoke", ![l].out = out]
      BY <1>14 DEF AwaitCopyout
    <2>2. Becomes(l, "revoke", run[l].ver, run[l].ok, run[l].reset, out)
      BY <2>1, OutBecomes
    <2> QED BY <2>2, <1>14 DEF AwaitCopyout, Quiet
  <1>15. CASE ExitBroker(l) BY <1>15 DEF ExitBroker, Brokers
  <1>16. CASE Check(l) BY <1>16 DEF Check, Quiet
  <1>17. CASE Apply(l) BY <1>17 DEF Apply, Quiet
  <1>18. CASE CreateMeta(l) BY <1>18 DEF CreateMeta, Quiet, Records
  <1>19. CASE FillMeta(l) BY <1>19 DEF FillMeta, Quiet, Records
  <1>20. CASE KillUnits(l) BY <1>20 DEF KillUnits, Quiet, Units
  <1>21. CASE RemoveRoot(l) BY <1>21 DEF RemoveRoot, Quiet, Roots
  <1>22. CASE RestoreBaseline(l) BY <1>22 DEF RestoreBaseline, Quiet, Holes
  <1>23. CASE Unlock(l) BY <1>23 DEF Unlock, Locks
  <1>24. CASE LoseUnit(l) BY <1>24 DEF LoseUnit, Quiet
  <1>25. CASE Kill(l) BY <1>25 DEF Kill, Locks
  <1>26. CASE l \in probes /\ PackArchive(l)
    <2>1. CASE run' = [run EXCEPT ![l].pc = "wait", ![l].ver = FixedVersion]
      <3>1. FixedVersion \in Versions
        BY VersionsAssumption DEF FixedVersion, Versions
      <3>2. Becomes(l, "wait", FixedVersion, run[l].ok, run[l].reset, run[l].out)
        BY <2>1, <3>1, WaitBecomes
      <3>3. run[l].pc = "idle"
        BY <1>26 DEF PackArchive, On, ProbeStaged, Pinned, BeforeVM, ProbePCs
      <3> QED BY <3>1, <3>2, <3>3, <1>26 DEF PackArchive, Quiet
    <2>2. CASE UNCHANGED run
      BY <2>2, <1>26 DEF PackArchive, vars
    <2> QED BY <2>1, <2>2, <1>26 DEF PackArchive
  <1>27. CASE ProbeReady(l) BY <1>27 DEF ProbeReady, Quiet
  <1>28. CASE DropFails(l) BY <1>28 DEF DropFails, Quiet
  <1>29. CASE ProbeCheck(l) BY <1>29 DEF ProbeCheck, Quiet
   <1> QED BY <1>1, <1>2, <1>3, <1>4, <1>5, <1>6, <1>7, <1>8, <1>9, <1>10, <1>11, <1>12,
              <1>13, <1>14, <1>15, <1>16, <1>17, <1>18, <1>19, <1>20, <1>21, <1>22, <1>23,
              <1>24, <1>25, <1>26, <1>27, <1>28, <1>29
           DEF VMStep, LaunchOf, LaunchStep

-----------------------------------------------------------------------------
(* The parts of the invariant, one after the other, over the effects.      *)

LEMMA EffectRuns ==
  ASSUME NEW l \in Launches, Effect(l)
  PROVE  /\ run' \in [Launches -> Runs]
         /\ \A k \in Launches : k # l => run'[k] = run[k]
  <1> USE DEF Steps, Raises, Ends, Becomes
  <1>1. CASE Quiet(l)   BY <1>1 DEF Quiet
  <1>2. CASE Locks(l)   BY <1>2 DEF Locks
  <1>3. CASE Roots(l)   BY <1>3 DEF Roots
  <1>4. CASE Brokers(l) BY <1>4 DEF Brokers
  <1>5. CASE Holes(l)   BY <1>5 DEF Holes
  <1>6. CASE Units(l)   BY <1>6 DEF Units
  <1>7. CASE Records(l) BY <1>7 DEF Records
  <1> QED BY <1>1, <1>2, <1>3, <1>4, <1>5, <1>6, <1>7 DEF Effect

(* What a server and a handler are; the broker's own steps keep to it.     *)
SrvRec  == [st : ServerStates, used : 0..Budget, free : 0..Slots]
ConnRec == [at : Launches \cup {NoLaunch}, from : Launches \cup {NoLaunch},
            pc : ConnPCs, cut : BOOLEAN]

(* The effects on the broker keep its shape.                               *)
LEMMA BrokerTypes ==
  ASSUME BrokerTypeOK, NEW l \in Launches,
         \/ UNCHANGED <<srv, conn>>
         \/ OpenBroker(l) \/ Revoke(l) \/ CutSockets(l) \/ CloseBroker(l) \/ DropBroker(l)
  PROVE  BrokerTypeOK'
  <1>1. srv \in [Launches -> SrvRec] /\ conn \in [Conns -> ConnRec]
    BY DEF BrokerTypeOK, SrvRec, ConnRec
  <1>2. NoServer \in SrvRec /\ [NoServer EXCEPT !.st = "open"] \in SrvRec /\ NoConn \in ConnRec
    BY SlotsAssumption, BudgetAssumption
       DEF NoServer, NoConn, SrvRec, ConnRec, ServerStates, ConnPCs
  <1>3. srv' \in [Launches -> SrvRec]
    <2>1. \A st \in ServerStates : [srv EXCEPT ![l].st = st] \in [Launches -> SrvRec]
      BY <1>1 DEF SrvRec
    <2>2. {"revoked", "cut", "closed"} \subseteq ServerStates
      BY DEF ServerStates
    <2> QED
      BY <1>1, <1>2, <2>1, <2>2 DEF OpenBroker, Revoke, CutSockets, CloseBroker, DropBroker
  <1>4. conn' \in [Conns -> ConnRec]
    <2>1. ASSUME NEW c \in Conns
          PROVE  [conn[c] EXCEPT !.cut = @ \/ conn[c].at = l] \in ConnRec
      <3>1. ASSUME NEW r \in ConnRec, NEW b \in BOOLEAN
            PROVE  [r EXCEPT !.cut = b] \in ConnRec
        BY DEF ConnRec
      <3>2. conn[c] \in ConnRec
        BY <1>1
      <3>3. (conn[c].cut \/ conn[c].at = l) \in BOOLEAN
        OBVIOUS
      <3> QED BY <3>1, <3>2, <3>3
    <2> QED
      BY <1>1, <1>2, <2>1 DEF OpenBroker, Revoke, CutSockets, CloseBroker, DropBroker
  <1> QED BY <1>3, <1>4 DEF BrokerTypeOK, SrvRec, ConnRec

(* The effects on the VM and the broker keep the type invariant.           *)
LEMMA EffectTypes ==
  ASSUME TypeOK, NEW l \in Launches, Effect(l)
  PROVE  TypeOK'
  <1>1. run' \in [Launches -> Runs]
    BY EffectRuns
  <1>2. BrokerTypeOK'
    BY BrokerTypes DEF TypeOK, Effect, Quiet, Locks, Roots, Brokers, Holes, Units, Records
  <1>3. /\ env' \in Versions
        /\ lock' \in Launches \cup {NoLaunch} /\ fw' \in Launches \cup {NoLaunch}
        /\ accepted' \in Launches \cup {NoLaunch}
    BY DEF TypeOK, Effect, Quiet, Locks, Roots, Brokers, Holes, Units, Records
  <1>4. root' \in [Launches -> Versions \cup {NoVersion}]
    BY DEF TypeOK, Effect, Quiet, Locks, Roots, Brokers, Holes, Units, Records
  <1>5. /\ unit' \in [Launches -> {"none"} \cup UnitRunning \cup UnitOver]
        /\ cu' \in [Launches -> {"none", "run", "ended"}]
    BY DEF TypeOK, Effect, Quiet, Locks, Roots, Brokers, Holes, Units, Records, UnitRunning
  <1>6. meta' \in [by : Launches \cup {NoLaunch}, full : BOOLEAN,
                   ver : Versions \cup {NoVersion}, out : Outs \cup {NoOut}]
    <2>1. run[l].ver \in Versions \cup {NoVersion} /\ run[l].out \in Outs \cup {NoOut}
      BY DEF TypeOK
    <2>2. MetaOf(l) \in [by : Launches \cup {NoLaunch}, full : BOOLEAN,
                        ver : Versions \cup {NoVersion}, out : Outs \cup {NoOut}]
      BY <2>1 DEF MetaOf
    <2>3. CASE Records(l)
      BY <2>2, <2>3 DEF Records, TypeOK
    <2>4. CASE UNCHANGED meta
      BY <2>4 DEF TypeOK
    <2> QED BY <2>3, <2>4 DEF Effect, Quiet, Locks, Roots, Brokers, Holes, Units
  <1> QED BY <1>1, <1>2, <1>3, <1>4, <1>5, <1>6 DEF TypeOK, Runs

(* A step keeps the launches in the VM serialized by the lock.             *)
LEMMA EffectSerialized ==
  ASSUME Serialized, NEW l \in Launches, Effect(l)
  PROVE  Serialized'
  <1>1. \A k \in Launches : k # l => run'[k] = run[k]
    BY EffectRuns
  <1>2. \/ lock' = lock /\ (run[l].pc \in Locked <=> run'[l].pc \in Locked)
        \/ lock = NoLaunch /\ lock' = l /\ run'[l].pc \in Locked
        \/ /\ lock' = (IF lock = l THEN NoLaunch ELSE lock)
           /\ run'[l].pc \notin Locked
        \/ run[l].pc = "unlock" /\ lock' = NoLaunch /\ run'[l].pc \notin Locked
    <2> USE DEF Steps, Raises, Ends, Becomes, Locked, WithBroker, Cleaning
    <2>1. CASE Quiet(l)   BY <2>1 DEF Quiet, AfterJob
    <2>2. CASE Locks(l)   BY <2>2 DEF Locks
    <2>3. CASE Roots(l)   BY <2>3 DEF Roots, AfterJob
    <2>4. CASE Brokers(l) BY <2>4 DEF Brokers
    <2>5. CASE Holes(l)   BY <2>5 DEF Holes
    <2>6. CASE Units(l)   BY <2>6 DEF Units
    <2>7. CASE Records(l) BY <2>7 DEF Records
    <2> QED BY <2>1, <2>2, <2>3, <2>4, <2>5, <2>6, <2>7 DEF Effect
  <1>3. run[l].pc = "unlock" => lock = l
    BY DEF Serialized, Locked
  <1> QED BY <1>1, <1>2, <1>3, NoLaunchAssumption DEF Serialized

(* A step keeps a broker only where its launch needs one.                  *)
LEMMA EffectBrokers ==
  ASSUME TypeOK, BrokerStaged, NEW l \in Launches, Effect(l)
  PROVE  BrokerStaged'
  <1>1. \A k \in Launches : k # l => Served(run'[k], srv'[k].st)
    <2>1. ASSUME NEW k \in Launches, k # l
          PROVE  run'[k] = run[k] /\ srv'[k].st = srv[k].st
      BY <2>1, EffectRuns
         DEF TypeOK, BrokerTypeOK, Effect, Quiet, Locks, Roots, Brokers, Holes, Units, Records,
             OpenBroker, Revoke, CutSockets, CloseBroker, DropBroker
    <2> QED BY <2>1 DEF BrokerStaged
  <1>2. Served(run[l], srv[l].st)
    BY DEF BrokerStaged
  <1>3. Served(run'[l], srv'[l].st)
    <2> USE DEF Steps, Raises, Ends, Becomes, Served, Serving, Checking, Leaving, Alive,
                WithBroker, Cleaning
    <2>1. CASE Quiet(l)   BY <1>2, <2>1 DEF Quiet, AfterJob
    <2>2. CASE Locks(l)
      <3>1. DropBroker(l) => srv'[l].st = "none"
        BY DEF DropBroker, NoServer, TypeOK, BrokerTypeOK
      <3> QED BY <1>2, <2>2, <3>1 DEF Locks
    <2>3. CASE Roots(l)   BY <1>2, <2>3 DEF Roots, AfterJob
    <2>4. CASE Brokers(l)
      <3>1. /\ OpenBroker(l) => srv'[l].st = "open"
            /\ Revoke(l) => srv'[l].st = "revoked"
            /\ CutSockets(l) => srv'[l].st = "cut"
            /\ CloseBroker(l) => srv'[l].st = "closed"
        BY DEF OpenBroker, Revoke, CutSockets, CloseBroker, NoServer, TypeOK, BrokerTypeOK
      <3> QED BY <1>2, <2>4, <3>1 DEF Brokers
    <2>5. CASE Holes(l)   BY <1>2, <2>5 DEF Holes
    <2>6. CASE Units(l)   BY <1>2, <2>6 DEF Units
    <2>7. CASE Records(l) BY <1>2, <2>7 DEF Records
    <2> QED BY <2>1, <2>2, <2>3, <2>4, <2>5, <2>6, <2>7 DEF Effect
  <1> QED BY <1>1, <1>3 DEF BrokerStaged

(* A step keeps the egress hole the holder of the lock's.                  *)
LEMMA EffectEgress ==
  ASSUME Serialized, EgressStaged, NEW l \in Launches, Effect(l)
  PROVE  EgressStaged'
  <1>1. \A k \in Launches : k # l => Shut(run'[k], fw' = k)
    <2>1. ASSUME NEW k \in Launches, k # l, fw' = fw
          PROVE  Shut(run'[k], fw' = k)
      BY <2>1, EffectRuns DEF EgressStaged
    <2>2. ASSUME NEW k \in Launches, k # l, fw' # fw
          PROVE  Shut(run'[k], fw' = k)
      <3>1. run[l].pc \in Locked /\ fw' \in {NoLaunch, l}
        BY <2>2 DEF Effect, Quiet, Locks, Roots, Brokers, Holes, Units, Records, Locked,
                    WithBroker, Cleaning
      <3>2. run[k].pc \notin Locked
        BY <2>2, <3>1 DEF Serialized
      <3>3. run[k].pc \notin {"start", "work"}
        BY <3>2 DEF Locked, WithBroker
      <3>4. Shut(run[k], fw = k) /\ run'[k] = run[k] /\ fw' # k
        BY <2>2, <3>1, EffectRuns, NoLaunchAssumption DEF EgressStaged
      <3> QED BY <3>3, <3>4 DEF Shut
    <2> QED BY <2>1, <2>2
  <1>2. Shut(run[l], fw = l)
    BY DEF EgressStaged
  <1>3. Shut(run'[l], fw' = l)
    <2> USE NoLaunchAssumption
        DEF Steps, Raises, Ends, Becomes, Shut, Checking, Leaving, WithBroker, Cleaning
    <2>1. CASE Quiet(l)   BY <1>2, <2>1 DEF Quiet, AfterJob
    <2>2. CASE Locks(l)   BY <1>2, <2>2 DEF Locks, Locked
    <2>3. CASE Roots(l)   BY <1>2, <2>3 DEF Roots, AfterJob
    <2>4. CASE Brokers(l) BY <1>2, <2>4 DEF Brokers
    <2>5. CASE Holes(l)   BY <1>2, <2>5 DEF Holes
    <2>6. CASE Units(l)   BY <1>2, <2>6 DEF Units
    <2>7. CASE Records(l) BY <1>2, <2>7 DEF Records
    <2> QED BY <2>1, <2>2, <2>3, <2>4, <2>5, <2>6, <2>7 DEF Effect
  <1> QED BY <1>1, <1>3 DEF EgressStaged

(* A step keeps the guest units the holder of the lock's.                  *)
LEMMA EffectGuest ==
  ASSUME TypeOK, GuestStaged, NEW l \in Launches, Effect(l)
  PROVE  GuestStaged'
  <1>1. \A k \in Launches : k # l => InGuest(run'[k], unit'[k], cu'[k], root'[k])
    <2>1. ASSUME NEW k \in Launches, k # l
          PROVE  /\ run'[k] = run[k] /\ unit'[k] = unit[k]
                 /\ cu'[k] = cu[k] /\ root'[k] = root[k]
      BY <2>1, EffectRuns
         DEF TypeOK, Effect, Quiet, Locks, Roots, Brokers, Holes, Units, Records
    <2> QED BY <2>1 DEF GuestStaged
  <1>2. InGuest(run[l], unit[l], cu[l], root[l])
    BY DEF GuestStaged
  <1>3. /\ unit \in [Launches -> {"none"} \cup UnitRunning \cup UnitOver]
        /\ cu \in [Launches -> {"none", "run", "ended"}]
        /\ root \in [Launches -> Versions \cup {NoVersion}]
    BY DEF TypeOK
  <1>4. InGuest(run'[l], unit'[l], cu'[l], root'[l])
    <2> USE DEF Steps, Raises, Ends, Becomes, InGuest, Serving, Checking
    <2>1. CASE Quiet(l)   BY <1>2, <2>1 DEF Quiet, AfterJob
    <2>2. CASE Locks(l)   BY <1>2, <2>2 DEF Locks
    <2>3. CASE Roots(l)   BY <1>2, <1>3, <2>3 DEF Roots, AfterJob
    <2>4. CASE Brokers(l) BY <1>2, <2>4 DEF Brokers
    <2>5. CASE Holes(l)   BY <1>2, <2>5 DEF Holes
    <2>6. CASE Units(l)   BY <1>2, <1>3, <2>6 DEF Units
    <2>7. CASE Records(l) BY <1>2, <2>7 DEF Records
    <2> QED BY <2>1, <2>2, <2>3, <2>4, <2>5, <2>6, <2>7 DEF Effect
  <1> QED BY <1>1, <1>4 DEF GuestStaged

(* A step ends only with what its clean-up established.                    *)
LEMMA EffectResult ==
  ASSUME GuestStaged, ResultStaged, NEW l \in Launches, Effect(l)
  PROVE  ResultStaged'
  <1>1. \A k \in Launches : k # l => Result(run'[k])
    BY EffectRuns DEF ResultStaged
  <1>2. Result(run[l]) /\ InGuest(run[l], unit[l], cu[l], root[l])
    BY DEF ResultStaged, GuestStaged
  <1>3. Result(run'[l])
    <2> USE DEF Steps, Raises, Ends, Becomes, Result, Checking
    <2>1. CASE Quiet(l)   
      BY <1>2, <2>1 DEF Quiet, AfterJob, CopiesOut, InGuest, Serving, ReceiptHolds,
                        SourceAllowed, Allowed
    <2>2. CASE Locks(l)   BY <1>2, <2>2 DEF Locks
    <2>3. CASE Roots(l)   BY <1>2, <2>3 DEF Roots, AfterJob
    <2>4. CASE Brokers(l) BY <1>2, <2>4 DEF Brokers
    <2>5. CASE Holes(l)   BY <1>2, <2>5 DEF Holes
    <2>6. CASE Units(l)   BY <1>2, <2>6 DEF Units
    <2>7. CASE Records(l) BY <1>2, <2>7 DEF Records
    <2> QED BY <2>1, <2>2, <2>3, <2>4, <2>5, <2>6, <2>7 DEF Effect
  <1> QED BY <1>1, <1>3 DEF ResultStaged

(* A step keeps the record of what is clean true of the VM.                *)
LEMMA EffectRecord ==
  ASSUME TypeOK, GuestStaged, ResultStaged, RecordStaged, NEW l \in Launches, Effect(l)
  PROVE  RecordStaged'
  <1>1. \A k \in Launches : k # l => run'[k] = run[k] /\ unit'[k] = unit[k]
    BY EffectRuns DEF TypeOK, Effect, Quiet, Locks, Roots, Brokers, Holes, Units, Records
  <1>2. accepted' = accepted
    BY DEF Effect, Quiet, Locks, Roots, Brokers, Holes, Units, Records
  <1>3. CASE ~Records(l)
    <2>1. meta' = meta
      BY <1>3 DEF Effect, Quiet, Locks, Roots, Brokers, Holes, Units
    <2>2. run'[l].pc # "metaw"
      BY <1>3 DEF Effect, Quiet, Locks, Roots, Brokers, Holes, Units, Steps, Raises, Ends,
                  Becomes, AfterJob
    <2>3. run[l].pc \in {"metaw"} \cup Leaving \cup Ended =>
            run'[l].pc \in {"metaw"} \cup Leaving \cup Ended
      BY <1>3 DEF Effect, Quiet, Locks, Roots, Brokers, Holes, Units, Steps, Raises, Ends,
                  Becomes, AfterJob, Leaving, Cleaning, Ended
    <2>4. run[l].pc \in {"metaw"} \cup Leaving \cup Ended /\ unit[l] \in {"done", "none"} =>
            unit'[l] \in {"done", "none"}
      BY <1>3 DEF TypeOK, Effect, Quiet, Locks, Roots, Brokers, Holes, Units, Leaving, Cleaning,
                  Ended
    <2>5. meta.by \in Launches \cup {NoLaunch}
      BY DEF TypeOK
    <2>6. meta.by # NoLaunch =>
            /\ run'[meta.by].pc \in {"metaw"} \cup Leaving \cup Ended
            /\ unit'[meta.by] \in {"done", "none"}
      BY <1>1, <2>3, <2>4, <2>5 DEF RecordStaged
    <2>7. \A k \in Launches : run'[k].pc = "metaw" => meta.by = k
      BY <1>1, <2>2 DEF RecordStaged
    <2> QED BY <1>2, <2>1, <2>6, <2>7 DEF RecordStaged
  <1>4. CASE Records(l)
    <2>1. unit' = unit
      BY <1>4 DEF Records
    <2>2. CASE run[l].pc = "meta"
      <3>1. meta = NoMeta /\ meta' = MetaOf(l) /\ run'[l].pc = "metaw"
        BY <1>4, <2>2 DEF Records, Steps, Becomes
      <3>2. Allowed(run[l].out, run[l].ver) /\ unit[l] = "done"
        BY <2>2 DEF ResultStaged, Result, GuestStaged, InGuest, Checking
      <3>3. meta.by = NoLaunch
        BY <3>1 DEF NoMeta
      <3>4. /\ meta'.by = l /\ meta'.ver = run[l].ver /\ meta'.out = run[l].out
        BY <3>1 DEF MetaOf
      <3> QED BY <1>1, <1>2, <2>1, <3>1, <3>2, <3>3, <3>4, NoLaunchAssumption DEF RecordStaged
    <2>3. CASE run[l].pc = "metaw"
      <3>1. meta' = [meta EXCEPT !.full = TRUE] /\ run'[l].pc = "kill"
        BY <1>4, <2>3 DEF Records, Steps, Becomes
      <3>2. meta'.by = meta.by /\ meta'.ver = meta.ver /\ meta'.out = meta.out
        BY <3>1 DEF TypeOK
      <3>3. meta.by = l
        BY <2>3 DEF RecordStaged
      <3>4. run'[l].pc \in Leaving
        BY <3>1 DEF Leaving, Cleaning
      <3> QED BY <1>1, <1>2, <2>1, <3>1, <3>2, <3>3, <3>4, NoLaunchAssumption DEF RecordStaged
    <2> QED BY <1>4, <2>2, <2>3 DEF Records
  <1> QED BY <1>3, <1>4

(* A step keeps the counts of the broker's connections.                    *)
LEMMA EffectConns ==
  ASSUME TypeOK, BrokerStaged, ConnStaged, SlotsCounted, NEW l \in Launches, Effect(l)
  PROVE  ConnStaged' /\ SlotsCounted'
  <1> USE DEF ConnStaged, SlotsCounted, Alive
  <1>1. /\ srv \in [Launches -> SrvRec] /\ conn \in [Conns -> ConnRec]
        /\ Served(run[l], srv[l].st)
    BY DEF TypeOK, BrokerTypeOK, SrvRec, ConnRec, BrokerStaged
  <1>2. CASE UNCHANGED <<srv, conn>>
    BY <1>2 DEF ConnsOf
  <1>3. CASE OpenBroker(l) /\ run[l].pc = "lease"
    <2>1. ConnsOf(l) = {}
      BY <1>1, <1>3, NoLaunchAssumption DEF Served, WithBroker, ConnsOf
    <2>2. srv'[l] = [NoServer EXCEPT !.st = "open"] /\ conn' = conn
      BY <1>1, <1>3 DEF OpenBroker
    <2>3. srv'[l].st = "open" /\ srv'[l].free = Slots
      BY <2>2 DEF NoServer
    <2>4. \A k \in Launches : k # l => srv'[k] = srv[k]
      BY <1>1, <1>3 DEF OpenBroker
    <2>5. ConnStaged'
      BY <2>2, <2>3, <2>4, <1>1 DEF ConnRec
    <2>6. \A k \in Launches : ConnsOf(k)' = ConnsOf(k)
      BY <2>2 DEF ConnsOf
    <2>7. SlotsCounted'
      BY <2>1, <2>3, <2>4, <2>6, FS_EmptySet, SlotsAssumption
    <2> QED BY <2>5, <2>7
  <1>4. CASE (Revoke(l) /\ run[l].pc = "revoke") \/ (CloseBroker(l) /\ run[l].pc = "join")
    <2>1. conn' = conn /\ \A k \in Launches : srv'[k].free = srv[k].free
      BY <1>1, <1>4 DEF Revoke, CloseBroker, SrvRec
    <2>2. \A k \in Launches : k # l => srv'[k].st = srv[k].st
      BY <1>1, <1>4 DEF Revoke, CloseBroker, SrvRec
    <2>3. srv'[l].st = "revoked" \/ ConnsOf(l) = {}
      BY <1>1, <1>4 DEF Revoke, CloseBroker, SrvRec
    <2> QED BY <2>1, <2>2, <2>3, <1>1 DEF ConnRec, ConnsOf
  <1>5. CASE CutSockets(l)
    <2>1. \A k \in Launches : srv'[k].free = srv[k].free
      BY <1>1, <1>5 DEF CutSockets, SrvRec
    <2>2. /\ \A k \in Launches : k # l => srv'[k].st = srv[k].st
          /\ srv'[l].st = "cut"
      BY <1>1, <1>5 DEF CutSockets, SrvRec
    <2>3. \A c \in Conns : conn'[c].at = conn[c].at /\ conn'[c].from = conn[c].from
                           /\ conn'[c].pc = conn[c].pc
      BY <1>1, <1>5 DEF CutSockets, ConnRec
    <2>4. ConnStaged'
      BY <2>2, <2>3, <1>1 DEF ConnRec
    <2>5. \A k \in Launches : ConnsOf(k)' = ConnsOf(k)
      BY <2>3 DEF ConnsOf
    <2> QED BY <2>1, <2>4, <2>5
  <1>6. CASE DropBroker(l)
    <2>1. /\ \A k \in Launches : k # l => srv'[k] = srv[k]
          /\ srv'[l].st = "none" /\ srv'[l].free = Slots
      BY <1>1, <1>6 DEF DropBroker, NoServer
    <2>2. \A c \in Conns : conn'[c] = IF conn[c].at = l THEN NoConn ELSE conn[c]
      BY <1>6 DEF DropBroker
    <2>3. NoConn.at = NoLaunch /\ NoConn.pc = "none"
      BY DEF NoConn
    <2>4. ConnStaged'
      BY <2>1, <2>2, <2>3, <1>1 DEF ConnRec
    <2>5. \A k \in Launches : k # l => ConnsOf(k)' = ConnsOf(k)
      BY <2>2, <2>3, NoLaunchAssumption DEF ConnsOf
    <2>6. ConnsOf(l)' = {}
      BY <2>2, <2>3, NoLaunchAssumption DEF ConnsOf
    <2>7. ASSUME NEW k \in Launches
          PROVE  /\ IsFiniteSet(ConnsOf(k)')
                 /\ srv'[k].free + Cardinality(ConnsOf(k)') = Slots
      <3>1. CASE k = l
        BY <3>1, <2>1, <2>6, FS_EmptySet, SlotsAssumption
      <3>2. CASE k # l
        BY <3>2, <2>1, <2>5
      <3> QED BY <3>1, <3>2
    <2> QED BY <2>4, <2>7
  <1> QED
    BY <1>2, <1>3, <1>4, <1>5, <1>6
       DEF Effect, Quiet, Locks, Roots, Brokers, Holes, Units, Records

(* What the invariant speaks of may stutter.                               *)
LEMMA UnchangedInv ==
  ASSUME VMInv, UNCHANGED vars
  PROVE  VMInv'
  <1>1. UNCHANGED <<srv, conn, env, lock, run, root, unit, cu, fw, meta, accepted>>
    BY DEF vars, brokerVars, guestVars
  <1>2. TypeOK' /\ RecordStaged'
    BY <1>1 DEF VMInv, TypeOK, BrokerTypeOK, RecordStaged
  <1>3. Serialized' /\ EgressStaged' /\ ResultStaged' /\ GuestStaged' /\ BrokerStaged'
    BY <1>1 DEF VMInv, Serialized, EgressStaged, ResultStaged, GuestStaged, BrokerStaged
  <1>4. ConnStaged' /\ SlotsCounted'
    BY <1>1 DEF VMInv, ConnStaged, SlotsCounted, ConnsOf
  <1> QED BY <1>2, <1>3, <1>4 DEF VMInv

(* A step of a launch, as launch or as probe.                              *)
LEMMA LaunchInv ==
  ASSUME VMInv, ProbeStaged, NEW l \in Launches, VMStep(l)
  PROVE  VMInv'
  <1>1. CASE UNCHANGED vars
    BY <1>1, UnchangedInv
  <1>2. CASE Effect(l)
    BY <1>2, EffectTypes, EffectSerialized, EffectBrokers, EffectConns, EffectEgress,
       EffectGuest, EffectResult, EffectRecord DEF VMInv
  <1> QED BY <1>1, <1>2, VMEffect DEF VMInv

-----------------------------------------------------------------------------
(* The guest: its units go on by themselves, whatever the launches do.     *)
LEMMA GuestInv ==
  ASSUME VMInv, NEW l \in Launches, GuestOf(l)
  PROVE  VMInv'
  <1>1. /\ UNCHANGED <<srv, conn, env, lock, run, root, fw, meta, accepted>>
        /\ \A k \in Launches : unit'[k] = unit[k] \/ unit[k] \in UnitRunning
        /\ \A k \in Launches : cu'[k] = cu[k] \/ cu[k] = "run"
        /\ unit' \in [Launches -> {"none"} \cup UnitRunning \cup UnitOver]
        /\ cu' \in [Launches -> {"none", "run", "ended"}]
    <2> USE DEF VMInv, TypeOK, UnitStep, Provider, brokerVars, UnitRunning, UnitOver
    <2>1. CASE BridgeReports(l) BY <2>1 DEF BridgeReports
    <2>2. CASE WorkerProves(l)  BY <2>2 DEF WorkerProves
    <2>3. CASE UnitEnds(l)      BY <2>3 DEF UnitEnds
    <2>4. CASE CopyoutEnds(l)   BY <2>4 DEF CopyoutEnds
    <2> QED BY <2>1, <2>2, <2>3, <2>4 DEF GuestOf
  <1>2. TypeOK'
    BY <1>1 DEF VMInv, TypeOK, BrokerTypeOK
  <1>3. Serialized' /\ BrokerStaged' /\ EgressStaged' /\ ResultStaged'
    BY <1>1 DEF VMInv, Serialized, BrokerStaged, EgressStaged, ResultStaged
  <1>4. ConnStaged' /\ SlotsCounted'
    BY <1>1 DEF VMInv, ConnStaged, SlotsCounted, ConnsOf
  <1>5. GuestStaged'
    BY <1>1 DEF VMInv, GuestStaged, InGuest, UnitRunning
  <1>6. RecordStaged'
    <2>1. meta.by \in Launches \cup {NoLaunch}
      BY DEF VMInv, TypeOK
    <2>2. meta.by # NoLaunch => unit'[meta.by] = unit[meta.by]
      BY <1>1, <2>1 DEF VMInv, RecordStaged, UnitRunning
    <2> QED BY <1>1, <2>2 DEF VMInv, RecordStaged
  <1> QED BY <1>2, <1>3, <1>4, <1>5, <1>6 DEF VMInv

-----------------------------------------------------------------------------
(* The broker's handlers: where they are counted, and whom they serve.     *)
LEMMA ConnectCounts ==
  ASSUME srv \in [Launches -> SrvRec], conn \in [Conns -> ConnRec], ConnStaged, SlotsCounted,
         NEW c \in Conns, NEW l \in Launches, NEW u \in Launches,
         conn[c].pc = "none", srv[l].st = "open", srv[l].free > 0,
         conn' = [conn EXCEPT ![c] = [NoConn EXCEPT !.at = l, !.from = u, !.pc = "idle"]],
         srv' = [srv EXCEPT ![l].free = @ - 1]
  PROVE  /\ srv' \in [Launches -> SrvRec] /\ conn' \in [Conns -> ConnRec]
         /\ \A k \in Launches : srv'[k].st = srv[k].st
         /\ ConnStaged' /\ SlotsCounted'
  <1> DEFINE new == [NoConn EXCEPT !.at = l, !.from = u, !.pc = "idle"]
  <1>1. new \in ConnRec /\ new.at = l /\ new.pc = "idle"
    BY DEF NoConn, ConnRec, ConnPCs
  <1>2. conn' = [conn EXCEPT ![c] = new]
    OBVIOUS
  <1> HIDE DEF new
  <1>3. conn' \in [Conns -> ConnRec]
    BY <1>1, <1>2
  <1>4. /\ srv' \in [Launches -> SrvRec] /\ srv'[l].free = srv[l].free - 1
        /\ \A k \in Launches : srv'[k].st = srv[k].st
        /\ \A k \in Launches : k # l => srv'[k] = srv[k]
    BY SlotsAssumption DEF SrvRec
  <1>5. ConnStaged'
    BY <1>1, <1>2, <1>4, NoLaunchAssumption DEF ConnStaged, Alive, ConnRec
  <1>6. conn[c].at = NoLaunch
    BY DEF ConnStaged
  <1>7. ASSUME NEW k \in Launches
        PROVE  /\ IsFiniteSet(ConnsOf(k)')
               /\ srv'[k].free + Cardinality(ConnsOf(k)') = Slots
    <2>1. CASE k = l
      <3>1. ConnsOf(l)' = ConnsOf(l) \cup {c} /\ c \notin ConnsOf(l)
        BY <1>1, <1>2, <1>6, NoLaunchAssumption DEF ConnsOf
      <3>2. IsFiniteSet(ConnsOf(l)) /\ srv[l].free + Cardinality(ConnsOf(l)) = Slots
        BY DEF SlotsCounted
      <3>3. Cardinality(ConnsOf(l)) \in Nat
        BY <3>2, FS_CardinalityType
      <3>4. IsFiniteSet(ConnsOf(l)') /\ Cardinality(ConnsOf(l)') = Cardinality(ConnsOf(l)) + 1
        BY <3>1, <3>2, FS_AddElement
      <3>5. srv[l].free \in Nat
        BY SlotsAssumption DEF SrvRec
      <3> QED BY <2>1, <1>4, <3>2, <3>3, <3>4, <3>5
    <2>2. CASE k # l
      <3>1. ConnsOf(k)' = ConnsOf(k)
        BY <2>2, <1>1, <1>2, <1>6, NoLaunchAssumption DEF ConnsOf
      <3> QED BY <2>2, <3>1, <1>4 DEF SlotsCounted
    <2> QED BY <2>1, <2>2
  <1> QED BY <1>3, <1>4, <1>5, <1>7 DEF SlotsCounted

(* A connection ended frees its slot, once.                                *)
LEMMA HangUpCounts ==
  ASSUME srv \in [Launches -> SrvRec], conn \in [Conns -> ConnRec], ConnStaged, SlotsCounted,
         NEW c \in Conns, HangUp(c)
  PROVE  /\ srv' \in [Launches -> SrvRec] /\ conn' \in [Conns -> ConnRec]
         /\ \A k \in Launches : srv'[k].st = srv[k].st
         /\ ConnStaged' /\ SlotsCounted'
  <1>1. NoConn \in ConnRec /\ NoConn.at = NoLaunch /\ NoConn.pc = "none"
    BY DEF NoConn, ConnRec, ConnPCs
  <1>2. PICK l \in Launches : conn[c].at = l
    BY DEF HangUp, ConnStaged, ConnRec
  <1>3. /\ conn[c].pc = "idle" /\ conn' = [conn EXCEPT ![c] = NoConn]
        /\ srv' = [srv EXCEPT ![l].free = @ + 1]
    BY <1>2 DEF HangUp
  <1>4. IsFiniteSet(ConnsOf(l)) /\ srv[l].free + Cardinality(ConnsOf(l)) = Slots
    BY <1>2 DEF SlotsCounted
  <1>5. Cardinality(ConnsOf(l)) \in Nat
    BY <1>4, FS_CardinalityType
  <1>6. ConnsOf(l)' = ConnsOf(l) \ {c} /\ c \in ConnsOf(l)
    BY <1>1, <1>3, <1>2, NoLaunchAssumption DEF ConnsOf
  <1>7. IsFiniteSet(ConnsOf(l)') /\ Cardinality(ConnsOf(l)') = Cardinality(ConnsOf(l)) - 1
    BY <1>4, <1>6, FS_RemoveElement
  <1>8. Cardinality(ConnsOf(l)') \in Nat
    BY <1>7, FS_CardinalityType
  <1>9. srv[l].free \in Nat /\ srv[l].free + 1 \in 0..Slots
    BY <1>2, <1>4, <1>5, <1>7, <1>8, SlotsAssumption DEF SrvRec
  <1>10. /\ srv' \in [Launches -> SrvRec] /\ srv'[l].free = srv[l].free + 1
         /\ \A k \in Launches : srv'[k].st = srv[k].st
         /\ \A k \in Launches : k # l => srv'[k] = srv[k]
    BY <1>3, <1>2, <1>9 DEF SrvRec
  <1>11. conn' \in [Conns -> ConnRec] /\ ConnStaged'
    BY <1>1, <1>3, <1>10 DEF ConnStaged, ConnRec
  <1>12. ASSUME NEW k \in Launches, k # l
         PROVE  ConnsOf(k)' = ConnsOf(k)
    BY <1>1, <1>3, <1>2, <1>12, NoLaunchAssumption DEF ConnsOf
  <1>13. SlotsCounted'
    BY <1>4, <1>5, <1>7, <1>9, <1>10, <1>12 DEF SlotsCounted
  <1> QED BY <1>10, <1>11, <1>13

(* The handlers keep slots and connections in step.                        *)
LEMMA HandlerCounts ==
  ASSUME srv \in [Launches -> SrvRec], conn \in [Conns -> ConnRec], ConnStaged, SlotsCounted,
         NEW c \in Conns, NEW p \in ConnPCs \ {"none"},
         conn' = [conn EXCEPT ![c].pc = p],
         conn[c].pc # "none",
         p = "idle" \/ conn[c].pc # "idle" \/ conn[c].from = conn[c].at,
         \/ UNCHANGED srv
         \/ /\ conn[c].pc = "authorized" /\ srv[conn[c].at].used < Budget
            /\ srv' = [srv EXCEPT ![conn[c].at].used = @ + 1]
  PROVE  /\ srv' \in [Launches -> SrvRec] /\ conn' \in [Conns -> ConnRec]
         /\ \A k \in Launches : srv'[k].st = srv[k].st
         /\ ConnStaged' /\ SlotsCounted'
  <1>1. conn[c].at \in Launches
    BY DEF ConnStaged, ConnRec
  <1>2. /\ srv' \in [Launches -> SrvRec]
        /\ \A k \in Launches : srv'[k].st = srv[k].st /\ srv'[k].free = srv[k].free
    BY <1>1, BudgetAssumption DEF SrvRec
  <1>3. /\ conn' \in [Conns -> ConnRec]
        /\ \A d \in Conns : conn'[d].at = conn[d].at /\ conn'[d].from = conn[d].from
        /\ \A d \in Conns : d # c => conn'[d].pc = conn[d].pc
        /\ conn'[c].pc = p
    BY DEF ConnRec
  <1>4. ConnStaged'
    BY <1>2, <1>3 DEF ConnStaged, ConnRec
  <1>5. \A k \in Launches : ConnsOf(k)' = ConnsOf(k)
    BY <1>3 DEF ConnsOf
  <1>6. SlotsCounted'
    BY <1>2, <1>5 DEF SlotsCounted
  <1> QED BY <1>2, <1>3, <1>4, <1>6

(* So a handler keeps the invariant.                                       *)
LEMMA HandlerInv ==
  ASSUME VMInv, NEW c \in Conns, OverBroker(c)
  PROVE  VMInv'
  <1>1. UNCHANGED <<env, lock, run, root, unit, cu, fw, meta, accepted>>
    BY DEF OverBroker, GuestConnects, GuestAsks, BrokerWorks, GuestHangsUp, Provider, guestVars
  <1>2. srv \in [Launches -> SrvRec] /\ conn \in [Conns -> ConnRec]
    BY DEF VMInv, TypeOK, BrokerTypeOK, SrvRec, ConnRec
  <1>3. ConnStaged /\ SlotsCounted
    BY DEF VMInv
  <1>4. /\ srv' \in [Launches -> SrvRec] /\ conn' \in [Conns -> ConnRec]
        /\ \A l \in Launches : srv'[l].st = srv[l].st
        /\ ConnStaged' /\ SlotsCounted'
    <2>1. CASE \E l, u \in Launches : GuestConnects(c, l, u)
      <3>1. PICK l \in Launches, u \in Launches : GuestConnects(c, l, u)
        BY <2>1
      <3>2. /\ conn[c].pc = "none" /\ srv[l].st = "open" /\ srv[l].free > 0
            /\ conn' = [conn EXCEPT ![c] = [NoConn EXCEPT !.at = l, !.from = u, !.pc = "idle"]]
            /\ srv' = [srv EXCEPT ![l].free = @ - 1]
        BY <3>1 DEF GuestConnects, Connect, Accepting
      <3> QED BY <1>2, <1>3, <3>2, ConnectCounts
    <2>2. CASE GuestHangsUp(c)
      BY <1>2, <1>3, <2>2, HangUpCounts DEF GuestHangsUp
    <2>3. CASE GuestAsks(c) \/ BrokerWorks(c)
      <3>1. PICK p \in ConnPCs \ {"none"} :
              /\ conn' = [conn EXCEPT ![c].pc = p]
              /\ conn[c].pc # "none"
              /\ p = "idle" \/ conn[c].pc # "idle" \/ conn[c].from = conn[c].at
              /\ \/ UNCHANGED srv
                 \/ /\ conn[c].pc = "authorized" /\ srv[conn[c].at].used < Budget
                    /\ srv' = [srv EXCEPT ![conn[c].at].used = @ + 1]
        BY <2>3 DEF GuestAsks, BrokerWorks, HandlerStep, Authorize, Reserve, RejectBody,
                    TakeCredential, RegisterUpstream, SendUpstream, FinishUpstream, GoTo, Reject,
                    ConnPCs
      <3> QED BY <1>2, <1>3, <3>1, HandlerCounts
    <2> QED BY <2>1, <2>2, <2>3 DEF OverBroker
  <1>5. TypeOK'
    BY <1>1, <1>4 DEF VMInv, TypeOK, BrokerTypeOK, SrvRec, ConnRec
  <1>6. Serialized' /\ EgressStaged' /\ ResultStaged' /\ GuestStaged' /\ RecordStaged'
    BY <1>1 DEF VMInv, Serialized, EgressStaged, ResultStaged, GuestStaged, RecordStaged
  <1>7. BrokerStaged'
    BY <1>1, <1>4 DEF VMInv, BrokerStaged
  <1> QED BY <1>4, <1>5, <1>6, <1>7 DEF VMInv

(* The Coordinator.                                                        *)
LEMMA CoordinatorInv ==
  ASSUME VMInv, WriteEnvelope \/ Accept
  PROVE  VMInv'
  <1>1. UNCHANGED <<srv, conn, lock, run, root, unit, cu, fw, meta>>
    BY DEF WriteEnvelope, Accept, brokerVars, guestVars
  <1>2. env' \in Versions
    BY DEF VMInv, TypeOK, WriteEnvelope, Accept
  <1>3. accepted' \in {accepted, meta.by}
    BY DEF WriteEnvelope, Accept
  <1>4. TypeOK'
    BY <1>1, <1>2, <1>3 DEF VMInv, TypeOK, BrokerTypeOK
  <1>5. RecordStaged'
    BY <1>1, <1>3 DEF VMInv, RecordStaged
  <1>6. Serialized' /\ EgressStaged' /\ ResultStaged' /\ GuestStaged' /\ BrokerStaged'
    BY <1>1 DEF VMInv, Serialized, EgressStaged, ResultStaged, GuestStaged, BrokerStaged
  <1>7. ConnStaged' /\ SlotsCounted'
    BY <1>1 DEF VMInv, ConnStaged, SlotsCounted, ConnsOf
  <1> QED BY <1>4, <1>5, <1>6, <1>7 DEF VMInv

-----------------------------------------------------------------------------
(* The probes. A launch reaches the end of its cleanup without an error    *)
(* only through KillUnits.                                                 *)
LEMMA EffectCleanup ==
  ASSUME NEW l \in Launches, Effect(l)
  PROVE  /\ run'[l].pc # "idle"
         /\ run'[l].pc = "rm" => run[l].pc = "kill"
         /\ run'[l].pc \in {"base", "unlock"} /\ run'[l].ok =>
              run[l].pc = "rm" \/ (run[l].pc = "base" /\ run[l].ok)
         /\ run'[l].pc = "returned" => run[l].pc = "unlock" /\ run[l].ok
  <1> USE DEF Steps, Raises, Ends, Becomes
  <1>1. CASE Quiet(l)   BY <1>1 DEF Quiet, AfterJob
  <1>2. CASE Locks(l)   BY <1>2 DEF Locks
  <1>3. CASE Roots(l)   BY <1>3 DEF Roots, AfterJob
  <1>4. CASE Brokers(l) BY <1>4 DEF Brokers
  <1>5. CASE Holes(l)   BY <1>5 DEF Holes
  <1>6. CASE Units(l)   BY <1>6 DEF Units
  <1>7. CASE Records(l) BY <1>7 DEF Records
  <1> QED BY <1>1, <1>2, <1>3, <1>4, <1>5, <1>6, <1>7 DEF Effect

(* Once its drop unit is gone a launch has none until it starts one.       *)
LEMMA EffectDropped ==
  ASSUME NEW l \in Launches, Effect(l) \/ UNCHANGED vars, NEW drop, Dropped(run[l], drop),
         run[l].pc # "kill"
  PROVE  Dropped(run'[l], drop)
  <1>1. CASE UNCHANGED vars
    BY <1>1 DEF vars
  <1>2. CASE Effect(l)
    BY <1>2, EffectCleanup DEF Dropped
  <1> QED BY <1>1, <1>2

ProbeRec == [pc : ProbePCs, read : Versions \cup {NoVersion}, stage : {"none", "made", "full"},
             dir : BOOLEAN, ran : Versions \cup {NoVersion}, drop : DropUnits, said : Evidence]

(* Only l's own part changes: what it becomes must fit its run.            *)
LEMMA SetProbe ==
  ASSUME ProbeTypeOK, ProbeStaged, NEW l \in probes, NEW q \in ProbeRec, Set(l, q),
         Dropped(run'[l], q.drop), Pinned(q, run'[l]),
         \A k \in Launches : k # l => run'[k] = run[k]
  PROVE  ProbeTypeOK' /\ ProbeStaged'
  <1>1. l \in Launches /\ probes' = probes /\ probe' = [probe EXCEPT ![l] = q]
    BY DEF ProbeTypeOK, Set
  <1>2. probe \in [Launches -> ProbeRec]
    BY DEF ProbeTypeOK, ProbeRec
  <1>3. ProbeTypeOK'
    BY <1>1, <1>2 DEF ProbeTypeOK, ProbeRec
  <1>4. probe'[l] = q /\ \A k \in Launches : k # l => probe'[k] = probe[k]
    BY <1>1, <1>2
  <1>5. ProbeStaged'
    BY <1>1, <1>4 DEF ProbeStaged, ProbeTypeOK
  <1> QED BY <1>3, <1>5

(* Nothing of the probes changes, and of the launches only l's run.        *)
LEMMA KeepProbe ==
  ASSUME ProbeTypeOK, ProbeStaged, UNCHANGED probeVars, NEW l \in Launches,
         \A k \in Launches : k # l => run'[k] = run[k],
         l \in probes => Dropped(run'[l], probe[l].drop) /\ Pinned(probe[l], run'[l])
  PROVE  ProbeTypeOK' /\ ProbeStaged'
  <1>1. probes' = probes /\ probe' = probe
    BY DEF probeVars
  <1> QED BY <1>1 DEF ProbeTypeOK, ProbeStaged

(* The same where no run changes. *)
LEMMA KeepAll ==
  ASSUME ProbeTypeOK, ProbeStaged, UNCHANGED <<probes, probe, run>>
  PROVE  ProbeTypeOK' /\ ProbeStaged'
  BY DEF ProbeTypeOK, ProbeStaged

(* What a probe step leaves is a probe record.                             *)
LEMMA ProbeRecord ==
  ASSUME ProbeTypeOK, NEW l \in probes
  PROVE  l \in Launches /\ probe[l] \in ProbeRec
  BY DEF ProbeTypeOK, ProbeRec

(* The names of the probe's phases, as one set.                            *)
LEMMA ProbeNames ==
  /\ ProbePCs = {"idle", "manifest", "mkstage", "write", "load", "snapshot", "close",
                 "archive", "undo", "vm", "over", "dead"}
  /\ FixedVersion \in Versions /\ FixedVersion # NoVersion
  BY VersionsAssumption DEF ProbePCs, FixedVersion, Versions, NoVersion

(* A probe that quits has nothing in the VM to answer for.                 *)
LEMMA QuitProbe ==
  ASSUME ProbeTypeOK, ProbeStaged, NEW l \in probes,
         NEW pc \in {"over", "dead"}, NEW said \in {"none", "refused", "failed"},
         Quit(l, pc, said), Dropped(run'[l], probe[l].drop),
         \A k \in Launches : k # l => run'[k] = run[k]
  PROVE  ProbeTypeOK' /\ ProbeStaged'
  <1> DEFINE q == [NoProbe EXCEPT !.pc = pc, !.said = said, !.drop = probe[l].drop]
  <1>1. probe[l] \in ProbeRec
    BY ProbeRecord
  <1>2. /\ q \in ProbeRec /\ q.pc = pc /\ q.said = said /\ q.drop = probe[l].drop
    BY <1>1 DEF NoProbe, ProbeRec, ProbePCs, Evidence
  <1>3. Set(l, q)
    BY DEF Quit
  <1> HIDE DEF q
  <1>4. Pinned(q, run'[l])
    BY <1>2 DEF Pinned, BeforeVM, HasRead
  <1> QED BY <1>2, <1>3, <1>4, SetProbe

(* A step before the lock: nothing is in the VM yet.                       *)
LEMMA EarlyProbe ==
  ASSUME ProbeTypeOK, ProbeStaged, UNCHANGED vars,
         NEW l \in probes, probe[l].pc \in BeforeVM,
         NEW q \in ProbeRec, Set(l, q),
         q.drop = probe[l].drop, q.said = probe[l].said, q.pc \in BeforeVM,
         q.pc \in HasRead => q.read # NoVersion,
         q.pc \in {"close", "archive"} => q.ran = q.read,
         q.pc = "archive" => q.stage = "none"
  PROVE  ProbeTypeOK' /\ ProbeStaged'
  <1>1. run' = run
    BY DEF vars
  <1>2. Dropped(run[l], probe[l].drop) /\ Pinned(probe[l], run[l]) /\ run[l].pc = "idle"
    BY DEF ProbeStaged, Pinned
  <1>3. probe[l].said # "passed"
    BY <1>2 DEF Pinned
  <1>4. q.pc # "vm"
    BY DEF BeforeVM
  <1>5. Pinned(q, run'[l]) /\ Dropped(run'[l], q.drop)
    BY <1>1, <1>2, <1>3, <1>4 DEF Pinned
  <1> QED BY <1>1, <1>5, SetProbe

(* So every step before the lock keeps the probes' part.                   *)
LEMMA BeforeLockProbe ==
  ASSUME TypeOK, ProbeTypeOK, ProbeStaged, NEW l \in probes, BeforeLock(l)
  PROVE  ProbeTypeOK' /\ ProbeStaged'
  <1>1. /\ l \in Launches /\ probe[l] \in ProbeRec
        /\ Dropped(run[l], probe[l].drop) /\ Pinned(probe[l], run[l])
    BY ProbeRecord DEF ProbeStaged
  <1>2. ASSUME Says(l, "failed") \/ Says(l, "refused"), UNCHANGED vars
        PROVE  ProbeTypeOK' /\ ProbeStaged'
    BY <1>1, <1>2, QuitProbe DEF Says, vars
  <1>3. ASSUME NEW q \in ProbeRec, Set(l, q), UNCHANGED vars,
               probe[l].pc \in BeforeVM, q.pc \in BeforeVM,
               q.drop = probe[l].drop, q.said = probe[l].said,
               q.pc \in HasRead => q.read # NoVersion,
               q.pc \in {"close", "archive"} => q.ran = q.read,
               q.pc = "archive" => q.stage = "none"
        PROVE  ProbeTypeOK' /\ ProbeStaged'
    BY <1>3, EarlyProbe
  <1> USE DEF ProbeRec, BeforeVM, HasRead, On, GoOn
  <1>4. CASE Refuse(l)
    BY <1>2, <1>4 DEF Refuse
  <1>5. CASE ReadSource(l)
    <2> DEFINE q == [probe[l] EXCEPT !.pc = "manifest", !.read = FixedVersion]
    <2>1. CASE Set(l, q)
      BY <1>1, <1>3, <1>5, <2>1, ProbeNames DEF ReadSource
    <2> QED BY <1>2, <1>5, <2>1 DEF ReadSource
  <1>6. CASE ReadManifest(l)
    <2> DEFINE q == [probe[l] EXCEPT !.pc = "mkstage"]
    <2>1. CASE Set(l, q)
      BY <1>1, <1>3, <1>6, <2>1, ProbeNames DEF ReadManifest, Pinned
    <2> QED BY <1>2, <1>6, <2>1 DEF ReadManifest
  <1>7. CASE MakeStage(l)
    <2> DEFINE q == [probe[l] EXCEPT !.pc = "write", !.stage = "made"]
    <2>1. CASE Set(l, q)
      BY <1>1, <1>3, <1>7, <2>1, ProbeNames DEF MakeStage, Pinned
    <2> QED BY <1>2, <1>7, <2>1 DEF MakeStage
  <1>8. CASE WriteStage(l)
    <2> DEFINE q == [probe[l] EXCEPT !.pc = "load", !.stage = "full"]
    <2>1. CASE Set(l, q)
      BY <1>1, <1>3, <1>8, <2>1, ProbeNames DEF WriteStage, Pinned
    <2> QED BY <1>2, <1>8, <2>1 DEF WriteStage
  <1>9. CASE LoadProvider(l)
    <2> DEFINE q == [probe[l] EXCEPT !.pc = "snapshot"]
    <2>1. CASE Set(l, q)
      BY <1>1, <1>3, <1>9, <2>1, ProbeNames DEF LoadProvider, Pinned
    <2> QED BY <1>2, <1>9, <2>1 DEF LoadProvider
  <1>10. CASE SnapshotInputs(l)
    <2> DEFINE q(v) == [probe[l] EXCEPT !.pc = "close", !.dir = TRUE, !.ran = v]
               u == [probe[l] EXCEPT !.pc = "undo", !.dir = TRUE]
    <2>1. CASE Set(l, u)
      BY <1>1, <1>3, <1>10, <2>1, ProbeNames DEF SnapshotInputs
    <2>2. ASSUME Set(l, q(probe[l].read))
          PROVE  ProbeTypeOK' /\ ProbeStaged'
      <3>1. probe[l].pc = "snapshot" /\ probe[l].read # NoVersion
        BY <1>1, <1>10 DEF SnapshotInputs, Pinned
      <3>2. /\ q(probe[l].read) \in ProbeRec /\ q(probe[l].read).pc = "close"
            /\ q(probe[l].read).read = probe[l].read /\ q(probe[l].read).ran = probe[l].read
            /\ q(probe[l].read).drop = probe[l].drop /\ q(probe[l].read).said = probe[l].said
        BY <1>1, ProbeNames
      <3>3. UNCHANGED vars
        BY <1>10 DEF SnapshotInputs
      <3> HIDE DEF q
      <3> QED BY <1>3, <2>2, <3>1, <3>2, <3>3, ProbeNames
    <2> QED BY <1>10, <2>1, <2>2 DEF SnapshotInputs
  <1>11. CASE CloseSession(l)
    <2> DEFINE q == [probe[l] EXCEPT !.pc = "archive", !.stage = "none"]
    <2>1. CASE Set(l, q)
      BY <1>1, <1>3, <1>11, <2>1, ProbeNames DEF CloseSession, Pinned
    <2> QED BY <1>11, <2>1 DEF CloseSession
  <1>12. CASE PackArchive(l)
    <2> DEFINE q == [probe[l] EXCEPT !.pc = "vm"]
               u == [probe[l] EXCEPT !.pc = "undo"]
    <2>1. CASE Set(l, u) /\ UNCHANGED run
      <3>1. UNCHANGED vars /\ probe[l].pc = "archive"
        BY <1>12, <2>1 DEF PackArchive, vars, Shared
      <3> QED BY <1>1, <1>3, <2>1, <3>1, ProbeNames
    <2>2. CASE Set(l, q) /\ run' = [run EXCEPT ![l].pc = "wait", ![l].ver = FixedVersion]
      <3>1. Becomes(l, "wait", FixedVersion, run[l].ok, run[l].reset, run[l].out)
        BY <1>1, <2>2, WaitBecomes, ProbeNames
      <3>2. /\ q \in ProbeRec /\ q.pc = "vm" /\ q.drop = probe[l].drop
            /\ q.said = probe[l].said /\ q.read = probe[l].read /\ q.ran = probe[l].ran
            /\ q.stage = probe[l].stage
        BY <1>1, ProbeNames
      <3>3. probe[l].pc = "archive" /\ run[l].pc = "idle"
        BY <1>1, <1>12, ProbeNames DEF PackArchive, Pinned
      <3> HIDE DEF q
      <3>4. Dropped(run'[l], q.drop) /\ Pinned(q, run'[l])
        BY <1>1, <3>1, <3>2, <3>3 DEF Dropped, Pinned, Becomes
      <3>5. \A k \in Launches : k # l => run'[k] = run[k]
        BY <3>1 DEF Becomes
      <3> QED BY <2>2, <3>2, <3>4, <3>5, SetProbe
    <2> QED BY <1>12, <2>1, <2>2 DEF PackArchive
  <1>13. CASE Undo(l)
    BY <1>2, <1>13 DEF Undo
  <1> QED
    BY <1>4, <1>5, <1>6, <1>7, <1>8, <1>9, <1>10, <1>11, <1>12, <1>13 DEF BeforeLock

(* In the VM: what the probe shares with launch leaves its own part alone, *)
(* except that KillUnits takes its drop unit along.                        *)
LEMMA InVMProbe ==
  ASSUME TypeOK, ProbeTypeOK, ProbeStaged, NEW l \in probes, InVM(l),
         VMStep(l), run[l].pc # "kill", UNCHANGED probeVars
  PROVE  ProbeTypeOK' /\ ProbeStaged'
  <1>1. /\ l \in Launches /\ probe[l].pc = "vm"
        /\ Dropped(run[l], probe[l].drop) /\ Pinned(probe[l], run[l])
    BY ProbeRecord DEF ProbeStaged, InVM, On
  <1>2. Effect(l) \/ UNCHANGED vars
    BY <1>1, VMEffect
  <1>3. \A k \in Launches : k # l => run'[k] = run[k]
    BY <1>1, <1>2, EffectRuns DEF vars
  <1>4. Dropped(run'[l], probe[l].drop)
    BY <1>1, <1>2, EffectDropped
  <1>5. Pinned(probe[l], run'[l])
    BY <1>1 DEF Pinned, BeforeVM
  <1> QED BY <1>1, <1>3, <1>4, <1>5, KeepProbe

(* A step in the VM that leaves the guest alone keeps it.                  *)
LEMMA SharedProbe ==
  ASSUME TypeOK, ProbeTypeOK, ProbeStaged, NEW l \in probes, InVM(l),
         SharedStep(l) \/ ProbeReady(l) \/ DropFails(l) \/ ProbeLease(l) \/ ProbeCheck(l)
           \/ (LoseUnit(l) /\ UNCHANGED probeVars)
  PROVE  VMStep(l) /\ run[l].pc # "kill" /\ UNCHANGED probeVars
  <1>1. UNCHANGED probeVars
    BY DEF SharedStep, ProbeReady, DropFails, ProbeLease, ProbeCheck
  <1>2. VMStep(l)
    BY DEF SharedStep, ProbeLease, VMStep, LaunchOf, LaunchStep
  <1>3. run[l].pc # "kill"
    BY DEF SharedStep, ProbeReady, DropFails, ProbeLease, ProbeCheck, LoseUnit, Acquire, GiveUp,
           CopyIn, CloseEgress, OpenEgress, StartWorker, AwaitWorker, StartCopyout, AwaitCopyout,
           ExitBroker, RemoveRoot, RestoreBaseline, Unlock, Lease, At
  <1> QED BY <1>1, <1>2, <1>3

(* KillUnits takes the drop unit along, and the probe saw it.              *)
LEMMA KillUnitsProbe ==
  ASSUME TypeOK, ProbeTypeOK, ProbeStaged, NEW l \in probes, ProbeKillUnits(l)
  PROVE  ProbeTypeOK' /\ ProbeStaged'
  <1>1. /\ l \in Launches /\ probe[l] \in ProbeRec /\ probe[l].pc = "vm"
        /\ Pinned(probe[l], run[l])
    BY ProbeRecord DEF ProbeStaged, ProbeKillUnits, InVM, On
  <1>2. /\ \A k \in Launches : k # l => run'[k] = run[k]
        /\ \/ run'[l].pc = "rm"
           \/ run'[l].pc = AfterJob(l) /\ run'[l].ok = FALSE
    BY <1>1, PCNames, AfterJobNames, StepSteps, FailRaises
       DEF ProbeKillUnits, KillUnits, Steps, Raises, Becomes
  <1> DEFINE q == [probe[l] EXCEPT !.drop = IF run'[l].pc = "rm" THEN "none" ELSE @]
  <1>3. /\ q \in ProbeRec /\ q.pc = "vm" /\ q.read = probe[l].read /\ q.ran = probe[l].ran
        /\ q.stage = probe[l].stage /\ q.said = probe[l].said
        /\ run'[l].pc = "rm" => q.drop = "none"
    BY <1>1 DEF ProbeRec, DropUnits
  <1>4. Set(l, q)
    BY DEF ProbeKillUnits
  <1> HIDE DEF q
  <1>5. Pinned(q, run'[l])
    BY <1>1, <1>3 DEF Pinned, BeforeVM
  <1>6. Dropped(run'[l], q.drop)
    BY <1>2, <1>3 DEF Dropped, AfterJob
  <1> QED BY <1>1, <1>2, <1>3, <1>4, <1>5, <1>6, SetProbe

(* The probe's own drop is started and seen by its holder.                 *)
LEMMA DropProbe ==
  ASSUME TypeOK, ProbeTypeOK, ProbeStaged, NEW l \in probes, StartDrop(l) \/ DropEnds(l)
  PROVE  ProbeTypeOK' /\ ProbeStaged'
  <1>1. /\ l \in Launches /\ probe[l] \in ProbeRec
        /\ Dropped(run[l], probe[l].drop) /\ Pinned(probe[l], run[l])
    BY ProbeRecord DEF ProbeStaged
  <1>2. run' = run
    BY DEF StartDrop, DropEnds, vars
  <1>3. PICK s \in DropUnits : Set(l, [probe[l] EXCEPT !.drop = s])
    BY DEF StartDrop, DropEnds, DropUnits
  <1> DEFINE q == [probe[l] EXCEPT !.drop = s]
  <1>4. /\ q \in ProbeRec /\ q.pc = probe[l].pc /\ q.read = probe[l].read
        /\ q.ran = probe[l].ran /\ q.stage = probe[l].stage /\ q.said = probe[l].said
        /\ q.dir = probe[l].dir /\ q.drop = s
    BY <1>1 DEF ProbeRec
  <1>5. Set(l, q)
    BY <1>3
  <1> HIDE DEF q
  <1>6. probe[l].drop # "none" \/ run[l].pc = "lease"
    BY DEF StartDrop, DropEnds, At
  <1>7. Dropped(run'[l], q.drop) /\ Pinned(q, run'[l])
    BY <1>1, <1>2, <1>4, <1>6 DEF Dropped, Pinned
  <1> QED BY <1>2, <1>4, <1>5, <1>7, SetProbe

(* The verdict is written from what the probe saw.                         *)
LEMMA EmitProbe ==
  ASSUME TypeOK, ProbeTypeOK, ProbeStaged, NEW l \in probes, Emit(l)
  PROVE  ProbeTypeOK' /\ ProbeStaged'
  <1>1. /\ l \in Launches /\ probe[l] \in ProbeRec /\ probe[l].pc = "vm"
        /\ Dropped(run[l], probe[l].drop) /\ Pinned(probe[l], run[l])
    BY ProbeRecord DEF ProbeStaged, Emit, InVM, On
  <1>2. run' = run
    BY DEF Emit, vars
  <1>3. CASE Says(l, "failed")
    BY <1>1, <1>2, <1>3, QuitProbe DEF Says
  <1> DEFINE q == [probe[l] EXCEPT !.pc = "over", !.dir = FALSE, !.said = "passed"]
  <1>4. CASE run[l].pc = "returned" /\ Set(l, q)
    <2>1. /\ q \in ProbeRec /\ q.pc = "over" /\ q.read = probe[l].read
          /\ q.ran = probe[l].ran /\ q.stage = probe[l].stage
          /\ ~q.dir /\ q.drop = probe[l].drop
      BY <1>1, ProbeNames DEF ProbeRec, Evidence
    <2> HIDE DEF q
    <2>2. Dropped(run'[l], q.drop) /\ Pinned(q, run'[l])
      BY <1>1, <1>2, <1>4, <2>1 DEF Dropped, Pinned, BeforeVM, HasRead
    <2> QED BY <1>2, <1>4, <2>1, <2>2, SetProbe
  <1> QED BY <1>3, <1>4 DEF Emit

(* A killed probe leaves no verdict.                                       *)
LEMMA KilledProbe ==
  ASSUME TypeOK, ProbeTypeOK, ProbeStaged, NEW l \in probes, KillProbe(l)
  PROVE  ProbeTypeOK' /\ ProbeStaged'
  <1>1. /\ l \in Launches
        /\ Dropped(run[l], probe[l].drop) /\ Pinned(probe[l], run[l])
    BY ProbeRecord DEF ProbeStaged
  <1>2. CASE UNCHANGED vars /\ Quit(l, "dead", "none")
    BY <1>1, <1>2, QuitProbe DEF vars
  <1>3. CASE Kill(l) /\ Quit(l, "dead", "none")
    <2>1. /\ \A k \in Launches : k # l => run'[k] = run[k]
          /\ run'[l].pc = "dead"
      BY <1>1, <1>3, PCNames, EndEnds DEF Kill, Ends, Becomes
    <2>2. Dropped(run'[l], probe[l].drop)
      BY <2>1 DEF Dropped
    <2> QED BY <1>3, <2>1, <2>2, QuitProbe
  <1> QED BY <1>2, <1>3 DEF KillProbe

-----------------------------------------------------------------------------
(* Everything that may happen.                                             *)

(* Every step keeps the probe's part of the invariant.                     *)
LEMMA ProbeInv ==
  ASSUME IInv, NEW l \in probes,
         \/ BeforeLock(l) \/ ProbeStep(l) \/ DropEnds(l) \/ KillProbe(l)
         \/ InVM(l) /\ LoseUnit(l) /\ UNCHANGED probeVars
  PROVE  IInv'
  <1>1. TypeOK /\ ProbeTypeOK /\ ProbeStaged /\ VMInv /\ l \in Launches
    BY DEF IInv, VMInv, ProbeTypeOK
  <1>2. CASE BeforeLock(l)
    <2>1. VMStep(l) \/ UNCHANGED vars
      BY <1>2 DEF BeforeLock, Refuse, ReadSource, ReadManifest, MakeStage, WriteStage,
                  LoadProvider, SnapshotInputs, CloseSession, Undo, VMStep
    <2> QED BY <1>1, <1>2, <2>1, LaunchInv, UnchangedInv, BeforeLockProbe DEF IInv
  <1>3. CASE \/ SharedStep(l) \/ ProbeReady(l) \/ DropFails(l) \/ ProbeLease(l) \/ ProbeCheck(l)
             \/ InVM(l) /\ LoseUnit(l) /\ UNCHANGED probeVars
    <2>1. InVM(l)
      BY <1>3 DEF SharedStep, ProbeReady, DropFails, ProbeLease, ProbeCheck
    <2> QED BY <1>1, <1>3, <2>1, SharedProbe, InVMProbe, LaunchInv DEF IInv
  <1>4. CASE ProbeKillUnits(l)
    <2>1. VMStep(l)
      BY <1>4 DEF ProbeKillUnits, VMStep, LaunchOf, LaunchStep
    <2> QED BY <1>1, <1>4, <2>1, KillUnitsProbe, LaunchInv DEF IInv
  <1>5. CASE StartDrop(l) \/ DropEnds(l) \/ Emit(l)
    <2>1. UNCHANGED vars
      BY <1>5 DEF StartDrop, DropEnds, Emit
    <2> QED BY <1>1, <1>5, <2>1, DropProbe, EmitProbe, UnchangedInv DEF IInv
  <1>6. CASE KillProbe(l)
    <2>1. VMStep(l) \/ UNCHANGED vars
      BY <1>6 DEF KillProbe, VMStep, LaunchOf
    <2> QED BY <1>1, <1>6, <2>1, KilledProbe, LaunchInv, UnchangedInv DEF IInv
  <1> QED BY <1>2, <1>3, <1>4, <1>5, <1>6 DEF ProbeStep

(* Every step of the bridge with its probe keeps the invariant.            *)
LEMMA NextInv ==
  ASSUME IInv, ProbeNext
  PROVE  IInv'
  <1>1. TypeOK /\ ProbeTypeOK /\ ProbeStaged /\ VMInv
    BY DEF IInv, VMInv
  <1>2. ASSUME NEW l \in Launches \ probes, LaunchOf(l), UNCHANGED probeVars
        PROVE  IInv'
    <2>1. VMStep(l) /\ l \in Launches
      BY <1>2 DEF VMStep
    <2>2. \A k \in Launches : k # l => run'[k] = run[k]
      BY <1>1, <2>1, VMEffect, EffectRuns DEF vars
    <2>3. ProbeTypeOK' /\ ProbeStaged'
      BY <1>1, <1>2, <2>1, <2>2, KeepProbe
    <2> QED BY <1>1, <2>1, <2>3, LaunchInv DEF IInv
  <1>3. ASSUME NEW l \in Launches, GuestOf(l), UNCHANGED probeVars
        PROVE  IInv'
    <2>1. UNCHANGED <<probes, probe, run>>
      BY <1>3 DEF GuestOf, BridgeReports, WorkerProves, UnitEnds, CopyoutEnds, UnitStep,
                  Provider, probeVars
    <2> QED BY <1>1, <1>3, <2>1, GuestInv, KeepAll DEF IInv
  <1>4. ASSUME NEW c \in Conns, OverBroker(c), UNCHANGED probeVars
        PROVE  IInv'
    <2>1. UNCHANGED <<probes, probe, run>>
      BY <1>4 DEF OverBroker, GuestConnects, GuestAsks, BrokerWorks, GuestHangsUp, Provider,
                  probeVars
    <2> QED BY <1>1, <1>4, <2>1, HandlerInv, KeepAll DEF IInv
  <1>5. ASSUME WriteEnvelope \/ Accept, UNCHANGED probeVars
        PROVE  IInv'
    <2>1. UNCHANGED <<probes, probe, run>>
      BY <1>5 DEF WriteEnvelope, Accept, probeVars
    <2> QED BY <1>1, <1>5, <2>1, CoordinatorInv, KeepAll DEF IInv
  <1> QED BY <1>2, <1>3, <1>4, <1>5, ProbeInv DEF ProbeNext

(* It holds at the start.                                                  *)
LEMMA InitInv == ProbeInit => IInv
  <1> SUFFICES ASSUME ProbeInit PROVE IInv
    OBVIOUS
  <1>1. /\ NoRun \in Runs /\ NoRun.pc = "idle" /\ NoServer \in SrvRec /\ NoConn \in ConnRec
        /\ NoConn.pc = "none" /\ NoConn.at = NoLaunch
        /\ NoServer.st = "none" /\ NoServer.free = Slots
    BY PCNames, SlotsAssumption, BudgetAssumption
       DEF NoRun, NoServer, NoConn, Runs, SrvRec, ConnRec, ServerStates, ConnPCs
  <1>2. /\ \A l \in Launches : run[l] = NoRun /\ srv[l] = NoServer
        /\ \A c \in Conns : conn[c] = NoConn
        /\ run \in [Launches -> Runs] /\ srv \in [Launches -> SrvRec]
        /\ conn \in [Conns -> ConnRec]
    BY <1>1 DEF ProbeInit, Init, BrokerInit
  <1>3. /\ NoMeta \in [by : Launches \cup {NoLaunch}, full : BOOLEAN,
                       ver : Versions \cup {NoVersion}, out : Outs \cup {NoOut}]
        /\ NoMeta.by = NoLaunch
    BY DEF NoMeta
  <1>4. env \in Versions
    BY VersionsAssumption DEF ProbeInit, Init, Versions
  <1>5. TypeOK
    <2>1. BrokerTypeOK
      BY <1>2 DEF BrokerTypeOK, SrvRec, ConnRec
    <2> QED BY <2>1, <1>2, <1>3, <1>4 DEF TypeOK, Runs, ProbeInit, Init
  <1>6. Serialized
    BY <1>1, <1>2, NoLaunchAssumption
       DEF Serialized, Locked, WithBroker, Cleaning, ProbeInit, Init
  <1>7. ConnStaged /\ SlotsCounted
    <2>1. \A l \in Launches : ConnsOf(l) = {}
      BY <1>1, <1>2, NoLaunchAssumption DEF ConnsOf
    <2> QED BY <2>1, <1>1, <1>2, FS_EmptySet, SlotsAssumption DEF ConnStaged, SlotsCounted
  <1>8. BrokerStaged
    BY <1>1, <1>2
       DEF BrokerStaged, Served, Serving, Checking, Leaving, Alive, WithBroker, Cleaning
  <1>9. EgressStaged
    BY <1>1, <1>2, NoLaunchAssumption
       DEF EgressStaged, Shut, Checking, Leaving, WithBroker, Cleaning, ProbeInit, Init
  <1>10. GuestStaged /\ ResultStaged
    BY <1>1, <1>2 DEF GuestStaged, InGuest, ResultStaged, Result, Serving, Checking
  <1>11. RecordStaged
    BY <1>1, <1>2, <1>3 DEF RecordStaged, ProbeInit, Init
  <1>12. ProbeTypeOK /\ ProbeStaged
    <2>1. /\ NoProbe \in ProbeRec /\ NoProbe.pc = "idle" /\ NoProbe.said = "none"
      BY ProbeNames DEF NoProbe, ProbeRec, DropUnits, Evidence
    <2>2. probes \subseteq Launches /\ probe = [l \in Launches |-> NoProbe]
      BY DEF ProbeInit
    <2>3. ProbeTypeOK
      BY <2>1, <2>2 DEF ProbeTypeOK, ProbeRec
    <2>4. ASSUME NEW l \in probes
          PROVE  Dropped(run[l], probe[l].drop) /\ Pinned(probe[l], run[l])
      BY <2>1, <2>2, <1>1, <1>2 DEF Dropped, Pinned, HasRead
    <2> QED BY <2>3, <2>4 DEF ProbeStaged
  <1> QED
    BY <1>5, <1>6, <1>7, <1>8, <1>9, <1>10, <1>11, <1>12 DEF IInv, VMInv

(* All of it stays true whatever launches, probes, guest, broker and       *)
(* Coordinator do, in any order.                                           *)
THEOREM Invariance == ProbeSpec => []IInv
  <1>1. IInv /\ [ProbeNext]_allVars => IInv'
    <2> SUFFICES ASSUME IInv, [ProbeNext]_allVars PROVE IInv'
      OBVIOUS
    <2>1. CASE ProbeNext
      BY <2>1, NextInv
    <2>2. CASE UNCHANGED allVars
      <3>1. UNCHANGED vars /\ UNCHANGED <<probes, probe, run>>
        BY <2>2 DEF allVars, vars, probeVars
      <3> QED BY <3>1, UnchangedInv, KeepAll DEF IInv
    <2> QED BY <2>1, <2>2
  <1> QED BY InitInv, <1>1, PTL DEF ProbeSpec

(* The state of the launches, of their brokers and of the probes keeps its *)
(* shape: no semaphore counts above its slots, no budget is overdrawn.     *)
THEOREM TypeCorrect == ProbeSpec => [](TypeOK /\ ProbeTypeOK)
  <1>1. IInv => TypeOK /\ ProbeTypeOK
    BY DEF IInv, VMInv
  <1> QED BY <1>1, Invariance, PTL

(* What a launch that returned left behind.                                *)
LEMMA CleanRun ==
  ASSUME VMInv, NEW l \in Launches, run[l].pc = "returned"
  PROVE  /\ ~Running(l) /\ cu[l] # "run"
         /\ root[l] = NoVersion /\ fw # l
         /\ srv[l].st = "closed" /\ ConnsOf(l) = {}
  <1>1. /\ Served(run[l], srv[l].st) /\ Shut(run[l], fw = l)
        /\ InGuest(run[l], unit[l], cu[l], root[l])
    BY DEF VMInv, BrokerStaged, EgressStaged, GuestStaged
  <1>2. unit[l] = "none" /\ cu[l] = "none" /\ root[l] = NoVersion
    BY <1>1 DEF InGuest
  <1>3. fw # l
    BY <1>1 DEF Shut, WithBroker, Checking, Leaving, Cleaning
  <1>4. srv[l].st = "closed"
    BY <1>1 DEF Served
  <1>5. ConnsOf(l) = {}
    BY <1>4, NoLaunchAssumption DEF VMInv, ConnStaged, ConnsOf, Alive
  <1> QED BY <1>2, <1>3, <1>4, <1>5 DEF Running, UnitRunning

(* Only the validator accepts. *)
LEMMA OnlyAcceptAccepts ==
  ASSUME IInv, [ProbeNext]_allVars, accepted' # accepted
  PROVE  Accept
  <1>1. TypeOK /\ ProbeStaged /\ probes \subseteq Launches
    BY DEF IInv, VMInv, ProbeTypeOK
  <1>2. ASSUME NEW l \in Launches, VMStep(l)
        PROVE  FALSE
    BY <1>1, <1>2, VMEffect
       DEF Effect, Quiet, Locks, Roots, Brokers, Holes, Units, Records, vars
  <1>3. ~UNCHANGED vars
    BY DEF vars
  <1>4. ASSUME NEW l \in probes,
               \/ BeforeLock(l) \/ ProbeStep(l) \/ DropEnds(l) \/ KillProbe(l)
               \/ InVM(l) /\ LoseUnit(l) /\ UNCHANGED probeVars
        PROVE  FALSE
    BY <1>1, <1>2, <1>3, <1>4
       DEF BeforeLock, Refuse, ReadSource, ReadManifest, MakeStage, WriteStage, LoadProvider,
           SnapshotInputs, CloseSession, Undo, ProbeStep, SharedStep, ProbeLease, ProbeKillUnits,
           StartDrop, DropEnds, Emit, KillProbe, VMStep, LaunchOf, LaunchStep
  <1>5. ASSUME NEW l \in Launches, LaunchOf(l)
        PROVE  FALSE
    BY <1>2, <1>5 DEF VMStep
  <1>6. ASSUME NEW l \in Launches, GuestOf(l)
        PROVE  FALSE
    BY <1>6 DEF GuestOf, BridgeReports, WorkerProves, UnitEnds, CopyoutEnds, UnitStep, Provider
  <1>7. ASSUME NEW c \in Conns, OverBroker(c)
        PROVE  FALSE
    BY <1>7 DEF OverBroker, GuestConnects, GuestAsks, BrokerWorks, GuestHangsUp, Provider
  <1>8. ~WriteEnvelope
    BY DEF WriteEnvelope
  <1>9. ~UNCHANGED allVars
    BY <1>3 DEF allVars
  <1> QED BY <1>4, <1>5, <1>6, <1>7, <1>8, <1>9 DEF ProbeNext

(* The raw credential is in use only between __enter__ and __exit__ of the *)
(* broker of a launch, for the guest unit of that launch alone, and within *)
(* MAX_BROKER_REQUESTS and MAX_BROKER_CONCURRENT_CONNECTIONS, whatever the *)
(* guests send and whenever launches are killed (_BrokerServer).           *)
THEOREM CredentialIsLeased == ProbeSpec => []CredentialStaysInLease
  <1>1. IInv => CredentialStaysInLease
    <2> SUFFICES ASSUME IInv PROVE CredentialStaysInLease
      OBVIOUS
    <2>1. ASSUME NEW c \in Conns, conn[c].pc \in Holding
          PROVE  run[conn[c].at].pc \in WithBroker /\ conn[c].from = conn[c].at
      <3>1. conn[c].at \in Launches /\ conn[c].from = conn[c].at /\ srv[conn[c].at].st \in Alive
        BY <2>1 DEF IInv, VMInv, ConnStaged, TypeOK, BrokerTypeOK, Holding
      <3>2. Served(run[conn[c].at], srv[conn[c].at].st)
        BY <3>1 DEF IInv, VMInv, BrokerStaged
      <3> QED BY <3>1, <3>2 DEF Served
    <2>2. \A l \in Launches : srv[l].used <= Budget
      BY BudgetAssumption DEF IInv, VMInv, TypeOK, BrokerTypeOK
    <2>3. \A l \in Launches : srv[l].free + Cardinality(ConnsOf(l)) = Slots
      BY DEF IInv, VMInv, SlotsCounted
    <2> QED BY <2>1, <2>2, <2>3 DEF CredentialStaysInLease
  <1> QED BY <1>1, Invariance, PTL

(* The one hole in the VM's firewall is that of the launch that holds      *)
(* .launch.lock, or of one that was killed or failed to shut it; and while *)
(* a worker is started or awaited it is its own launch's.                  *)
THEOREM EgressIsHeld == ProbeSpec => []EgressIsTheHolders
  <1>1. IInv => EgressIsTheHolders
    <2> SUFFICES ASSUME IInv PROVE EgressIsTheHolders
      OBVIOUS
    <2>1. /\ fw \in Launches \cup {NoLaunch}
          /\ \A l \in Launches : Shut(run[l], fw = l) /\ (run[l].pc \in Locked <=> lock = l)
      BY DEF IInv, VMInv, TypeOK, EgressStaged, Serialized
    <2>2. fw # NoLaunch => lock = fw \/ run[fw].pc \in {"dead", "failed"}
      BY <2>1 DEF Shut, Locked, WithBroker, Cleaning, Checking, Leaving
    <2>3. ASSUME NEW l \in Launches, run[l].pc \in {"start", "work"}
          PROVE  lock = l /\ fw = l
      BY <2>1, <2>3 DEF Shut, Locked, WithBroker
    <2> QED BY <2>2, <2>3 DEF EgressIsTheHolders
  <1> QED BY <1>1, Invariance, PTL

(* A launch that returned has nothing left in the guest, no hole and no    *)
(* broker thread: every failed step of the cleanup made it fail.           *)
THEOREM ReturnedIsClean == ProbeSpec => []ReturnedLeavesNothing
  <1>1. IInv => ReturnedLeavesNothing
    BY CleanRun DEF IInv, ReturnedLeavesNothing
  <1> QED BY <1>1, Invariance, PTL

(* Evidence that says "passed" is of the runners that were read and bound  *)
(* by digest, and comes after the stage, the run directory and everything  *)
(* in the guest are gone (run-vm-kimi-l2-probe.py, main).                  *)
THEOREM PassedIsTrue == ProbeSpec => []PassedIsPinned
  <1>1. IInv => PassedIsPinned
    <2> SUFFICES ASSUME IInv, NEW l \in probes, probe[l].said = "passed"
                 PROVE  /\ probe[l].ran = probe[l].read /\ probe[l].ran # NoVersion
                        /\ probe[l].stage = "none" /\ ~probe[l].dir /\ probe[l].drop # "run"
                        /\ ~Running(l) /\ cu[l] # "run" /\ root[l] = NoVersion /\ fw # l
                        /\ ConnsOf(l) = {}
      BY DEF PassedIsPinned
    <2>1. l \in Launches /\ Dropped(run[l], probe[l].drop) /\ Pinned(probe[l], run[l])
      BY DEF IInv, ProbeStaged, ProbeTypeOK
    <2>2. run[l].pc = "returned"
      BY <2>1 DEF Pinned
    <2>3. probe[l].drop # "run"
      BY <2>1, <2>2 DEF Dropped
    <2> QED BY <2>1, <2>2, <2>3, CleanRun DEF IInv, Pinned
  <1> QED BY <1>1, Invariance, PTL

(* What the receipt's validator accepts ran the envelope as it is now, is  *)
(* the artifact the guest's root receipt names, changes other files only   *)
(* for a generator and none of the control plane, cannot change any more,  *)
(* and is the only result ever accepted for the task                       *)
(* (validate_external_subagent_receipt).                                   *)
THEOREM AcceptedIsCommissioned == ProbeSpec => AcceptedAsCommissioned
  <1>1. IInv /\ [ProbeNext]_allVars =>
          [accepted' # accepted =>
             LET out == meta.out IN
             /\ accepted = NoLaunch
             /\ out.ver = env /\ out.art = "reported" /\ ~Running(accepted')
             /\ out.src # "same" => out.src = "changed" /\ env \in Generators]_vars
    <2> SUFFICES ASSUME IInv, [ProbeNext]_allVars, accepted' # accepted
                 PROVE  /\ accepted = NoLaunch
                        /\ meta.out.ver = env /\ meta.out.art = "reported"
                        /\ ~Running(accepted')
                        /\ meta.out.src # "same" =>
                             meta.out.src = "changed" /\ env \in Generators
      OBVIOUS
    <2>1. Accept
      BY OnlyAcceptAccepts
    <2>2. meta.full /\ meta.ver = env /\ accepted' = meta.by
      BY <2>1 DEF Accept, RecordIsWhole
    <2>3. RecordStaged
      BY DEF IInv, VMInv
    <2>4. meta.by # NoLaunch
      BY <2>2, <2>3 DEF RecordStaged, NoMeta
    <2>5. accepted = NoLaunch
      BY <2>2, <2>3 DEF RecordStaged
    <2>6. Allowed(meta.out, meta.ver) /\ unit[meta.by] \in {"done", "none"}
      BY <2>3, <2>4 DEF RecordStaged
    <2>7. ~Running(accepted')
      BY <2>2, <2>6 DEF Running, UnitRunning
    <2> QED BY <2>2, <2>5, <2>6, <2>7 DEF Allowed
  <1> QED BY <1>1, Invariance, PTL DEF ProbeSpec, AcceptedAsCommissioned

=============================================================================
