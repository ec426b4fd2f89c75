------------------------------- MODULE L2Probe -------------------------------
(***************************************************************************)
(* run-vm-kimi-l2-probe.py: an evaluator runs one fixed task in the VM, to *)
(* see that the bridge works. The probe pins the source it is going to     *)
(* run - it reads each file once, writes it to a private stage and loads   *)
(* the provider from there - and then does with the provider's functions   *)
(* what launch does, under the same lock, in the same VM. So some of the   *)
(* Launches here are probes, and meet the provider's launches in there.    *)
(*                                                                         *)
(* An interrupt from the keyboard is a failure like any other, except that *)
(* the evidence is not printed and a stage half written stays.             *)
(***************************************************************************)
EXTENDS VMBridge

VARIABLES
  probes,  (* which of the Launches are probes                               *)
  probe    (* [Launches -> the probe, beside its run in the VM]              *)

probeVars == <<probes, probe>>
allVars   == <<vars, probeVars>>

(* "vm" is _run_pinned_probe from the launch lock on. *)
ProbePCs  == {"idle", "manifest", "mkstage", "write", "load", "snapshot", "close",
              "archive", "undo", "vm", "over", "dead"}
Evidence  == {"none", "refused", "failed", "passed"}
DropUnits == {"none", "run", "ended", "said"}

(* read is the pinned runners' version, ran the one that went to the VM,   *)
(* dir the run directory, drop the unit of the vendor-drop preflight.      *)
NoProbe == [pc |-> "idle", read |-> NoVersion, stage |-> "none", dir |-> FALSE,
            ran |-> NoVersion, drop |-> "none", said |-> "none"]

(* The fixed envelope of the probe, and the runners as its one read finds  *)
(* them; another version of those is one the checkout is edited to later.  *)
FixedVersion == 1

ProbeTypeOK ==
  /\ probes \subseteq Launches
  /\ probe \in [Launches -> [pc : ProbePCs, read : Versions \cup {NoVersion},
                             stage : {"none", "made", "full"}, dir : BOOLEAN,
                             ran : Versions \cup {NoVersion}, drop : DropUnits,
                             said : Evidence]]

(* At most one of them: a second would meet the first as a launch does.    *)
ProbeInit ==
  /\ Init
  /\ probes \in {p \in SUBSET Launches : Cardinality(p) <= 1}
  /\ probe = [l \in Launches |-> NoProbe]

-----------------------------------------------------------------------------
(* Before the lock.                                                        *)

On(l, pc)  == l \in probes /\ probe[l].pc = pc
InVM(l)    == On(l, "vm")
Set(l, p)  == probe' = [probe EXCEPT ![l] = p] /\ UNCHANGED probes
GoOn(l, pc) == Set(l, [probe[l] EXCEPT !.pc = pc])
(* The process ends. Of what it may leave on the disk, where a failure or  *)
(* a kill comes at the wrong moment, nobody reads anything again: only its *)
(* unit in the guest is still looked at.                                   *)
Quit(l, pc, s) == Set(l, [NoProbe EXCEPT !.pc = pc, !.said = s, !.drop = probe[l].drop])
Says(l, s)     == Quit(l, "over", s)

(* Without the flag, or in a runtime that is not isolated. *)
Refuse(l) ==
  /\ On(l, "idle") /\ Says(l, "refused")
  /\ UNCHANGED vars

(* Each file is read once, below one descriptor of the checkout; one that  *)
(* changes while it is read is refused.                                    *)
ReadSource(l) ==
  /\ On(l, "idle")
  /\ \/ Set(l, [probe[l] EXCEPT !.pc = "manifest", !.read = FixedVersion])
     \/ Says(l, "failed")
  /\ UNCHANGED vars

(* A manifest of another shape is refused; the one in this repository has  *)
(* a field more than SOURCE_BRIDGE_FIELDS and is.                          *)
ReadManifest(l) ==
  /\ On(l, "manifest")
  /\ GoOn(l, "mkstage") \/ Says(l, "failed")
  /\ UNCHANGED vars

(* A directory that was made and is then found not to be private stays.    *)
MakeStage(l) ==
  /\ On(l, "mkstage")
  /\ \/ Set(l, [probe[l] EXCEPT !.pc = "write", !.stage = "made"])
     \/ Says(l, "failed")
  /\ UNCHANGED vars

(* Every file is created, written, synced and compared with its digest. *)
WriteStage(l) ==
  /\ On(l, "write")
  /\ \/ Set(l, [probe[l] EXCEPT !.pc = "load", !.stage = "full"])
     \/ Says(l, "failed")
  /\ UNCHANGED vars

(* The provider's bytes are executed from memory. *)
LoadProvider(l) ==
  /\ On(l, "load")
  /\ GoOn(l, "snapshot") \/ Says(l, "failed")
  /\ UNCHANGED vars

(* The provider copies the runners that lie beside it, and it lies in the  *)
(* stage.                                                                  *)
Beside(l) == IF probe[l].stage = "full" THEN {probe[l].read} ELSE {}

BugSnapshotTree(l) ==
  /\ On(l, "snapshot")
  /\ \/ \E v \in Versions : Set(l, [probe[l] EXCEPT !.pc = "close", !.dir = TRUE, !.ran = v])
     \/ Set(l, [probe[l] EXCEPT !.pc = "undo", !.dir = TRUE])
  /\ UNCHANGED vars

(* The run directory, the envelope and the inputs in it; the runners must  *)
(* be the pinned ones.                                                     *)
SnapshotInputs(l) ==
  /\ On(l, "snapshot")
  /\ \/ \E v \in Beside(l) :
          /\ v = probe[l].read
          /\ Set(l, [probe[l] EXCEPT !.pc = "close", !.dir = TRUE, !.ran = v])
     \/ Set(l, [probe[l] EXCEPT !.pc = "undo", !.dir = TRUE])
  /\ UNCHANGED vars

(* session.close: the stage is not needed any more. *)
CloseSession(l) ==
  /\ On(l, "close")
  /\ Set(l, [probe[l] EXCEPT !.pc = "archive", !.stage = "none"])
  /\ UNCHANGED vars

(* The target and its command as the bundle has them, and the archive of   *)
(* the fixed files, made before the lock is asked for.                     *)
PackArchive(l) ==
  /\ On(l, "archive")
  /\ \/ /\ GoOn(l, "vm")
        /\ run' = [run EXCEPT ![l].pc = "wait", ![l].ver = FixedVersion]
     \/ GoOn(l, "undo") /\ UNCHANGED run
  /\ UNCHANGED <<brokerVars, Shared, guestVars>>

(* Out of the with and the try: run directory, then stage. *)
Undo(l) ==
  /\ On(l, "undo")
  /\ Says(l, "failed")
  /\ UNCHANGED vars

-----------------------------------------------------------------------------
(* In the VM.                                                              *)

(* The binding is made here; the archive is there already, so that every   *)
(* failure from the copy on finds the guest's job touched.                 *)
ProbeReady(l) ==
  /\ InVM(l) /\ At(l, "ready")
  /\ Step(l, "copyin") \/ Fail(l, "unlock")
  /\ UNCHANGED <<brokerVars, Shared, guestVars, probeVars>>

(* _verify_vendor_drop_preflight: a unit without network and credential    *)
(* shows that privileges are dropped, before there is a lease.             *)
StartDrop(l) ==
  /\ InVM(l) /\ At(l, "lease") /\ probe[l].drop = "none"
  /\ Set(l, [probe[l] EXCEPT !.drop = "run"])
  /\ UNCHANGED vars

DropEnds(l) ==
  /\ probe[l].drop = "run"
  /\ \E s \in {"ended", "said"} : Set(l, [probe[l] EXCEPT !.drop = s])
  /\ UNCHANGED vars

(* Another answer than the sentinel, or none.                              *)
DropFails(l) ==
  /\ InVM(l) /\ At(l, "lease")
  /\ \/ probe[l].drop = "ended" /\ Raise(l, "kill")
     \/ probe[l].drop = "run" /\ Fail(l, "kill")
  /\ UNCHANGED <<brokerVars, Shared, guestVars, probeVars>>

(* No attestation of the provider: the binding takes its place. *)
ProbeLease(l) ==
  /\ InVM(l) /\ probe[l].drop = "said"
  /\ Lease(l) /\ UNCHANGED probeVars

(* _verify_fixed_return and the receipt: no file but the artifact, and its *)
(* one JSON object, which a bridge may well not have written.              *)
ProbeCheck(l) ==
  /\ InVM(l) /\ At(l, "check")
  /\ \/ ReceiptHolds(l) /\ run[l].out.src = "same" /\ Step(l, "kill")
     \/ Raise(l, "kill")
  /\ UNCHANGED <<brokerVars, Shared, guestVars, probeVars>>

(* _cleanup_probe_guest: the drop unit is killed with the other two. *)
ProbeKillUnits(l) ==
  /\ InVM(l) /\ KillUnits(l)
  /\ Set(l, [probe[l] EXCEPT !.drop = IF run'[l].pc = "rm" THEN "none" ELSE @])

(* The run directory is removed; what main prints is decided by whether    *)
(* anything at all, cleanup included, raised.                              *)
Emit(l) ==
  /\ InVM(l) /\ run[l].pc \in {"returned", "failed"}
  /\ \/ /\ run[l].pc = "returned"
        /\ Set(l, [probe[l] EXCEPT !.pc = "over", !.dir = FALSE, !.said = "passed"])
     \/ /\ run[l].pc = "failed" \/ l \in Faulty
        /\ Says(l, "failed")
  /\ UNCHANGED vars

(* As in VMBridge; the stage and the run directory stay too. *)
KillProbe(l) ==
  \/ /\ l \in Faulty /\ l \in probes
     /\ probe[l].pc \notin {"vm", "over", "dead"}
     /\ Quit(l, "dead", "none") /\ UNCHANGED vars
  \/ InVM(l) /\ Kill(l) /\ Quit(l, "dead", "none")

(* The part of launch that the probe shares with it. *)
SharedStep(l) ==
  /\ InVM(l)
  /\ \/ Acquire(l) \/ GiveUp(l) \/ CopyIn(l) \/ CloseEgress(l) \/ OpenEgress(l)
     \/ StartWorker(l) \/ AwaitWorker(l) \/ StartCopyout(l) \/ AwaitCopyout(l)
     \/ ExitBroker(l) \/ RemoveRoot(l) \/ RestoreBaseline(l) \/ Unlock(l)
  /\ UNCHANGED probeVars

ProbeStep(l) ==
  \/ SharedStep(l) \/ ProbeReady(l) \/ StartDrop(l) \/ DropFails(l) \/ ProbeLease(l)
  \/ ProbeCheck(l) \/ ProbeKillUnits(l) \/ Emit(l)

BeforeLock(l) ==
  \/ Refuse(l) \/ ReadSource(l) \/ ReadManifest(l) \/ MakeStage(l) \/ WriteStage(l)
  \/ LoadProvider(l) \/ SnapshotInputs(l) \/ CloseSession(l) \/ PackArchive(l) \/ Undo(l)

-----------------------------------------------------------------------------
ProbeNext ==
  \/ \E l \in probes :
       \/ BeforeLock(l) \/ ProbeStep(l) \/ DropEnds(l) \/ KillProbe(l)
       \/ InVM(l) /\ LoseUnit(l) /\ UNCHANGED probeVars
  \/ \E l \in Launches \ probes : LaunchOf(l) /\ UNCHANGED probeVars
  \/ \E l \in Launches : GuestOf(l) /\ UNCHANGED probeVars
  \/ \E c \in Conns : OverBroker(c) /\ UNCHANGED probeVars
  \/ (WriteEnvelope \/ Accept) /\ UNCHANGED probeVars

(* That of VMBridge, for a probe as for a launch; systemd ends the drop    *)
(* unit after VENDOR_DROP_PREFLIGHT_TIMEOUT_SECONDS. A subscript names     *)
(* what every step of its process changes.                                 *)
Works(l) ==
  \/ l \in probes /\ ProbeStep(l)
  \/ l \notin probes /\ LaunchStep(l) /\ UNCHANGED probeVars

UnitsEnd(l) == DropEnds(l) \/ ((UnitEnds(l) \/ CopyoutEnds(l)) /\ UNCHANGED probeVars)

ProbeFairness ==
  /\ \A l \in Launches :
       WF_<<run[l], probe[l]>>(Works(l)) /\ WF_<<unit[l], cu[l], probe[l]>>(UnitsEnd(l))
  /\ \A c \in Conns :
       WF_<<conn[c]>>((BrokerWorks(c) \/ (PeerGone(c) /\ GuestHangsUp(c))) /\ UNCHANGED probeVars)

ProbeSpec == ProbeInit /\ [][ProbeNext]_allVars /\ ProbeFairness

-----------------------------------------------------------------------------
(* Evidence that says "passed" is of the runners whose digests it binds,   *)
(* although the checkout is edited between the reads, and it is said only  *)
(* when nothing of the probe is left, on the host or in the guest: unlike  *)
(* the record of a launch, it comes after the cleanup.                     *)
PassedIsPinned ==
  \A l \in probes : probe[l].said = "passed" =>
    /\ probe[l].ran = probe[l].read /\ probe[l].ran # NoVersion
    /\ probe[l].stage = "none" /\ ~probe[l].dir /\ probe[l].drop # "run"
    /\ ~Running(l) /\ cu[l] # "run" /\ root[l] = NoVersion /\ fw # l
    /\ ConnsOf(l) = {}

=============================================================================
