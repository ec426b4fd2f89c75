------------------------------ MODULE VMBridge ------------------------------
(***************************************************************************)
(* launch of vm-bridge-provider.py: one process per launch, and one VM for *)
(* all of them. A launch stages its inputs in the guest, opens a broker    *)
(* and a hole for it in the VM's firewall, runs the worker as a unit of    *)
(* the guest's systemd, copies the result out, checks it, and cleans up.   *)
(* The launches here commission the same task, as a retry does, so that    *)
(* they share its envelope and its run metadata; launches of other tasks   *)
(* share only the VM. A provider may be killed at any point: it installs   *)
(* no signal handler, so a SIGTERM too ends it with nothing cleaned up.    *)
(*                                                                         *)
(* The guest is the vendor's: what runs in a unit writes what it likes to  *)
(* its own source tree until the unit is over.                             *)
(***************************************************************************)
EXTENDS Broker

CONSTANTS
  Faulty,     (* launches that commands fail, or that are killed            *)
  LastVersion,(* contents of the envelope the Coordinator writes            *)
  Generators  (* those that name the generator's role                       *)

Versions  == 1..LastVersion
NoVersion == 0

ASSUME VersionsAssumption == LastVersion \in Nat \ {0} /\ Generators \subseteq Versions
ASSUME FaultyAssumption   == Faulty \subseteq Launches

VARIABLES
  env,      (* the envelope in the project                                   *)
  lock,     (* who holds .launch.lock                                        *)
  run,      (* [Launches -> the provider process]                            *)
  root,     (* [Launches -> the version staged under its guest root]         *)
  unit,     (* [Launches -> the worker's unit in the guest]                  *)
  cu,       (* [Launches -> its copy-out unit]                               *)
  fw,       (* whose broker the VM's firewall lets out to                    *)
  meta,     (* run-meta-<task>.json                                          *)
  accepted  (* whose result the receipt's validator accepted last            *)

guestVars == <<root, unit, cu, fw>>
vars == <<brokerVars, env, lock, run, guestVars, meta, accepted>>

(* Where launch is; "revoke" to "join" is __exit__ of the broker, "kill"   *)
(* to "base" the finally.                                                  *)
WithBroker == {"close", "open", "start", "work", "copy", "copying", "revoke", "cut", "join"}
Cleaning   == {"kill", "rm", "base"}
Locked     == {"ready", "stage", "copyin", "lease", "check", "apply", "meta", "metaw", "unlock"}
              \cup WithBroker \cup Cleaning
Ended      == {"returned", "failed", "dead"}
PCs        == {"idle", "wait"} \cup Locked \cup Ended

Sources == {"same", "changed", "control"}
(* What comes out of the guest: the envelope it was given, the artifact    *)
(* against the digest the bridge reported, the other files against the     *)
(* commissioned tree.                                                      *)
Outs    == [ver : Versions, art : {"reported", "other"}, src : Sources]
NoOut   == [ver |-> NoVersion, art |-> "other", src |-> "same"]
NoMeta  == [by |-> NoLaunch, full |-> FALSE, ver |-> NoVersion, out |-> NoOut]
NoRun   == [pc |-> "idle", ver |-> NoVersion, ok |-> TRUE, reset |-> FALSE, out |-> NoOut]

(* "done" is a unit whose worker wrote its receipt and exited 0.           *)
UnitRunning == {"run", "told", "proved"}
UnitOver    == {"done", "ended"}
Running(l)  == unit[l] \in UnitRunning

(* The shape of the state.                                                 *)
TypeOK ==
  /\ BrokerTypeOK
  /\ env \in Versions
  /\ lock \in Launches \cup {NoLaunch} /\ fw \in Launches \cup {NoLaunch}
  /\ accepted \in Launches \cup {NoLaunch}
  /\ run \in [Launches -> [pc : PCs, ver : Versions \cup {NoVersion}, ok : BOOLEAN,
                           reset : BOOLEAN, out : Outs \cup {NoOut}]]
  /\ root \in [Launches -> Versions \cup {NoVersion}]
  /\ unit \in [Launches -> {"none"} \cup UnitRunning \cup UnitOver]
  /\ cu \in [Launches -> {"none", "run", "ended"}]
  /\ meta \in [by : Launches \cup {NoLaunch}, full : BOOLEAN,
               ver : Versions \cup {NoVersion}, out : Outs \cup {NoOut}]

Init ==
  /\ BrokerInit
  /\ env = 1
  /\ lock = NoLaunch /\ fw = NoLaunch /\ accepted = NoLaunch
  /\ run = [l \in Launches |-> NoRun]
  /\ root = [l \in Launches |-> NoVersion]
  /\ unit = [l \in Launches |-> "none"]
  /\ cu = [l \in Launches |-> "none"]
  /\ meta = NoMeta

-----------------------------------------------------------------------------
(* The provider process.                                                   *)

At(l, pc)    == run[l].pc = pc
Step(l, pc)  == run' = [run EXCEPT ![l].pc = pc]
(* An exception at this point; pc is the first finally on its way out.     *)
(* What was commissioned and what came out matters no more.                *)
Raise(l, pc) ==
  run' = [run EXCEPT ![l] = [NoRun EXCEPT !.pc = pc, !.ok = FALSE, !.reset = run[l].reset]]
(* A command, the host or the ssh to the guest fails it here.              *)
Fail(l, pc)  == l \in Faulty /\ Raise(l, pc)
(* The process is over: what it left is on the disk.                       *)
End(l, pc)   == run' = [run EXCEPT ![l] = [NoRun EXCEPT !.pc = pc]]
Shared       == <<env, lock, meta, accepted>>

(* _snapshot_launch_envelope. The read before it gives only the name of    *)
(* the run directory; everything later works on this copy.                 *)
Snapshot(l) ==
  /\ At(l, "idle")
  /\ run' = [run EXCEPT ![l].pc = "wait", ![l].ver = env]
  /\ UNCHANGED <<brokerVars, Shared, guestVars>>

(* A path, a file's mode or size, JSON: an input cannot be loaded or       *)
(* copied to the run directory, or changes while it is.                    *)
RefuseInput(l) ==
  /\ At(l, "idle")
  /\ End(l, "failed")
  /\ UNCHANGED <<brokerVars, Shared, guestVars>>

BugLockIgnored(l) ==
  /\ At(l, "wait")
  /\ lock' = l /\ Step(l, "ready")
  /\ UNCHANGED <<brokerVars, env, meta, accepted, guestVars>>

Acquire(l) ==
  /\ At(l, "wait")
  /\ lock = NoLaunch /\ lock' = l
  /\ Step(l, "ready")
  /\ UNCHANGED <<brokerVars, env, meta, accepted, guestVars>>

(* LAUNCH_LOCK_WAIT_SECONDS are over; or an input was refused before.      *)
GiveUp(l) ==
  /\ At(l, "wait")
  /\ End(l, "failed")
  /\ UNCHANGED <<brokerVars, Shared, guestVars>>

(* _assert_vm_ready is the last thing outside the try.                     *)
Ready(l) ==
  /\ At(l, "ready")
  /\ Step(l, "stage") \/ Fail(l, "unlock")
  /\ UNCHANGED <<brokerVars, Shared, guestVars>>

(* The archive of the commit is complete, bounded and free of links, and   *)
(* the baseline is made of the same commit; nothing is in the guest yet.   *)
Archive(l) ==
  /\ At(l, "stage")
  /\ Step(l, "copyin") \/ Fail(l, "unlock")
  /\ UNCHANGED <<brokerVars, Shared, guestVars>>

BugStageLive(l) ==
  /\ At(l, "copyin")
  /\ \/ Step(l, "lease") /\ root' = [root EXCEPT ![l] = env]
     \/ Fail(l, "kill") /\ root' \in {root, [root EXCEPT ![l] = env]}
  /\ UNCHANGED <<brokerVars, Shared, unit, cu, fw>>

(* From here on the guest's job counts as touched, whether the copy        *)
(* succeeds or not.                                                        *)
CopyIn(l) ==
  /\ At(l, "copyin")
  /\ \/ Step(l, "lease") /\ root' = [root EXCEPT ![l] = run[l].ver]
     \/ Fail(l, "kill") /\ root' \in {root, [root EXCEPT ![l] = run[l].ver]}
  /\ UNCHANGED <<brokerVars, Shared, unit, cu, fw>>

(* launch_attestation and __enter__ of BrokerLease. *)
Lease(l) ==
  /\ At(l, "lease")
  /\ \/ OpenBroker(l) /\ Step(l, "close")
     \/ Fail(l, "kill") /\ UNCHANGED brokerVars
  /\ UNCHANGED <<Shared, guestVars>>

(* firewall_reset_required, and the first _reset_guest_egress_baseline.    *)
CloseEgress(l) ==
  /\ At(l, "close")
  /\ \/ run' = [run EXCEPT ![l].pc = "open", ![l].reset = TRUE] /\ fw' = NoLaunch
     \/ /\ l \in Faulty /\ UNCHANGED fw
        /\ run' = [run EXCEPT ![l] = [NoRun EXCEPT !.pc = "revoke", !.ok = FALSE, !.reset = TRUE]]
  /\ UNCHANGED <<brokerVars, Shared, root, unit, cu>>

(* _set_guest_egress_policy; a failure may come after its last iptables.   *)
OpenEgress(l) ==
  /\ At(l, "open")
  /\ \/ Step(l, "start") /\ fw' = l
     \/ Fail(l, "revoke") /\ fw' \in {NoLaunch, l}
  /\ UNCHANGED <<brokerVars, Shared, root, unit, cu>>

StartWorker(l) ==
  /\ At(l, "start")
  /\ Step(l, "work")
  /\ unit' = [unit EXCEPT ![l] = "run"]
  /\ UNCHANGED <<brokerVars, Shared, root, cu, fw>>

(* systemd-run --wait says how the unit ended; only a worker that wrote    *)
(* its receipt exits 0.                                                    *)
AwaitWorker(l) ==
  /\ At(l, "work") /\ unit[l] \in UnitOver
  /\ IF unit[l] = "done" THEN Step(l, "copy") ELSE Raise(l, "revoke")
  /\ UNCHANGED <<brokerVars, Shared, guestVars>>

(* The ssh of _run_vm breaks or times out: the unit is not told. *)
LoseUnit(l) ==
  /\ run[l].pc \in {"work", "copying"}
  /\ Fail(l, "revoke")
  /\ UNCHANGED <<brokerVars, Shared, guestVars>>

StartCopyout(l) ==
  /\ At(l, "copy")
  /\ Step(l, "copying")
  /\ cu' = [cu EXCEPT ![l] = "run"]
  /\ UNCHANGED <<brokerVars, Shared, root, unit, fw>>

(* What the copy-out unit prints: the tree as the vendor's last process    *)
(* left it before the worker's unit was over, and the receipt.             *)
CopiesOut(l) == {out \in Outs : out.ver = root[l]}

(* Its archive has regular files only, each once, and the receipt.         *)
AwaitCopyout(l) ==
  /\ At(l, "copying") /\ cu[l] = "ended"
  /\ \E out \in CopiesOut(l) : run' = [run EXCEPT ![l].pc = "revoke", ![l].out = out]
  /\ UNCHANGED <<brokerVars, Shared, guestVars>>

(* __exit__: revoke, the sockets it saw, shutdown and server_close. *)
ExitBroker(l) ==
  /\ \/ At(l, "revoke") /\ Revoke(l) /\ Step(l, "cut")
     \/ At(l, "cut") /\ CutSockets(l) /\ Step(l, "join")
     \/ At(l, "join") /\ CloseBroker(l) /\ Step(l, IF run[l].ok THEN "check" ELSE "kill")
  /\ UNCHANGED <<Shared, guestVars>>

(* _validate_bridge_receipt: what came out is what the root receipt says.  *)
ReceiptHolds(l) == run[l].out.art = "reported"

(* _reconcile_returned_source: only a generator changes other files, and   *)
(* none may change a file of the control plane.                            *)
SourceAllowed(l) ==
  \/ run[l].out.src = "same"
  \/ run[l].out.src = "changed" /\ run[l].ver \in Generators

(* All of it on the run directory, which nobody else reads or writes.      *)
Check(l) ==
  /\ At(l, "check")
  /\ \/ ReceiptHolds(l) /\ SourceAllowed(l) /\ Step(l, "apply")
     \/ ~(ReceiptHolds(l) /\ SourceAllowed(l)) /\ Raise(l, "kill")
     \/ Fail(l, "kill")
  /\ UNCHANGED <<brokerVars, Shared, guestVars>>

(* What is allowed is applied to a clone of the commit, which the record   *)
(* will name as its worktree.                                              *)
Apply(l) ==
  /\ At(l, "apply")
  /\ Step(l, "meta") \/ Fail(l, "kill")
  /\ UNCHANGED <<brokerVars, Shared, guestVars>>

MetaOf(l) == [by |-> l, full |-> FALSE, ver |-> run[l].ver, out |-> run[l].out]

(* _write_json_exclusive creates the record, and then writes it. *)
CreateMeta(l) ==
  /\ At(l, "meta")
  /\ IF meta = NoMeta
     THEN meta' = MetaOf(l) /\ Step(l, "metaw")
     ELSE Raise(l, "kill") /\ UNCHANGED meta
  /\ UNCHANGED <<brokerVars, env, lock, accepted, guestVars>>

FillMeta(l) ==
  /\ At(l, "metaw")
  /\ \/ meta' = [meta EXCEPT !.full = TRUE] /\ Step(l, "kill")
     \/ UNCHANGED meta /\ Fail(l, "kill")
  /\ UNCHANGED <<brokerVars, env, lock, accepted, guestVars>>

AfterJob(l) == IF run[l].reset THEN "base" ELSE "unlock"

BugCleanupIgnored(l) ==
  /\ At(l, "kill")
  /\ \/ /\ Step(l, "rm")
        /\ unit' = [unit EXCEPT ![l] = "none"] /\ cu' = [cu EXCEPT ![l] = "none"]
     \/ Step(l, AfterJob(l)) /\ UNCHANGED <<unit, cu>>
  /\ UNCHANGED <<brokerVars, Shared, root, fw>>

(* _cleanup_guest_job: both units are killed and seen inactive ...         *)
KillUnits(l) ==
  /\ At(l, "kill")
  /\ \/ /\ Step(l, "rm")
        /\ unit' = [unit EXCEPT ![l] = "none"] /\ cu' = [cu EXCEPT ![l] = "none"]
     \/ Fail(l, AfterJob(l)) /\ UNCHANGED <<unit, cu>>
  /\ UNCHANGED <<brokerVars, Shared, root, fw>>

(* ... and then the job's directory is removed. *)
RemoveRoot(l) ==
  /\ At(l, "rm")
  /\ \/ /\ Step(l, AfterJob(l))
        /\ root' = [root EXCEPT ![l] = NoVersion]
     \/ Fail(l, AfterJob(l)) /\ UNCHANGED root
  /\ UNCHANGED <<brokerVars, Shared, unit, cu, fw>>

(* The inner finally, whatever the cleanup did. *)
RestoreBaseline(l) ==
  /\ At(l, "base")
  /\ \/ Step(l, "unlock") /\ fw' = NoLaunch
     \/ Fail(l, "unlock") /\ UNCHANGED fw
  /\ UNCHANGED <<brokerVars, Shared, root, unit, cu>>

Unlock(l) ==
  /\ At(l, "unlock")
  /\ lock' = NoLaunch
  /\ End(l, IF run[l].ok THEN "returned" ELSE "failed")
  /\ UNCHANGED <<brokerVars, env, meta, accepted, guestVars>>

(* The provider is killed: the system frees its lock and its sockets, the  *)
(* guest hears nothing of it.                                              *)
Kill(l) ==
  /\ l \in Faulty /\ run[l].pc \in {"wait"} \cup Locked
  /\ End(l, "dead")
  /\ lock' = IF lock = l THEN NoLaunch ELSE lock
  /\ DropBroker(l)
  /\ UNCHANGED <<env, meta, accepted, guestVars>>

(* What ends by itself once it has begun. *)
LaunchStep(l) ==
  \/ Acquire(l) \/ GiveUp(l) \/ Ready(l) \/ Archive(l) \/ CopyIn(l) \/ Lease(l)
  \/ CloseEgress(l) \/ OpenEgress(l) \/ StartWorker(l) \/ AwaitWorker(l)
  \/ StartCopyout(l) \/ AwaitCopyout(l) \/ ExitBroker(l)
  \/ Check(l) \/ Apply(l) \/ CreateMeta(l) \/ FillMeta(l)
  \/ KillUnits(l) \/ RemoveRoot(l) \/ RestoreBaseline(l) \/ Unlock(l)

-----------------------------------------------------------------------------
(* The guest.                                                              *)

Provider == <<env, lock, run, meta, accepted>>

(* The vendor's processes write the source tree all the time, and one that *)
(* left the bridge's group does so until the unit is over.                 *)

UnitStep(l, from, to) ==
  /\ unit[l] = from /\ unit' = [unit EXCEPT ![l] = to]
  /\ UNCHANGED <<brokerVars, Provider, root, cu, fw>>

(* session-bridge.py reports the digest of the artifact into the pipe, and *)
(* the worker reaps its group before it reads it.                          *)
BridgeReports(l) == UnitStep(l, "run", "told")

(* _validate_result hashes the artifact again, which may have changed; if  *)
(* it has not, _write_root_receipt.                                        *)
WorkerProves(l) == UnitStep(l, "told", "proved")

(* By itself, by RuntimeMaxSec, or out of memory. *)
UnitEnds(l) ==
  \/ UnitStep(l, "proved", "done")
  \/ \E from \in UnitRunning : UnitStep(l, from, "ended")

CopyoutEnds(l) ==
  /\ cu[l] = "run"
  /\ cu' = [cu EXCEPT ![l] = "ended"]
  /\ UNCHANGED <<brokerVars, Provider, root, unit, fw>>

(* The hole is open to all of the guest, and a later broker may be given   *)
(* the port of an earlier one.                                             *)
GuestConnects(c, l, u) ==
  /\ Running(u) /\ fw # NoLaunch
  /\ Connect(c, l, u)
  /\ UNCHANGED <<Provider, guestVars>>

GuestAsks(c) == Authorize(c) /\ Running(conn[c].from) /\ UNCHANGED <<Provider, guestVars>>

BrokerWorks(c) == HandlerStep(c) /\ UNCHANGED <<Provider, guestVars>>

PeerGone(c) == conn[c].cut \/ (conn[c].pc # "none" /\ ~Running(conn[c].from))
(* A peer that says nothing is dropped after BROKER_CLIENT_TIMEOUT_SECONDS, *)
(* but nothing makes a guest be silent.                                    *)
GuestHangsUp(c) == HangUp(c) /\ UNCHANGED <<Provider, guestVars>>

-----------------------------------------------------------------------------
(* The Coordinator.                                                        *)

WriteEnvelope ==
  /\ env' \in Versions \ {env}
  /\ UNCHANGED <<brokerVars, lock, run, guestVars, meta, accepted>>

(* A record cut short by a kill is no JSON. *)
RecordIsWhole == meta.full
(* The digest of the file in the provider's run directory, once more. *)
ArtifactHolds == meta.out.art = "reported"

(* validate_external_subagent_receipt. *)
Accept ==
  /\ RecordIsWhole
  /\ meta.ver = env
  /\ ArtifactHolds
  /\ accepted' = meta.by
  /\ UNCHANGED <<brokerVars, env, lock, run, guestVars, meta>>

(* What happens to one launch, and in the guest to what it started.        *)
LaunchOf(l) ==
  \/ Snapshot(l) \/ RefuseInput(l) \/ LaunchStep(l) \/ LoseUnit(l) \/ Kill(l)

GuestOf(l) == BridgeReports(l) \/ WorkerProves(l) \/ UnitEnds(l) \/ CopyoutEnds(l)

OverBroker(c) ==
  \/ \E l, u \in Launches : GuestConnects(c, l, u)
  \/ GuestAsks(c) \/ BrokerWorks(c) \/ GuestHangsUp(c)

Next ==
  \/ \E l \in Launches : LaunchOf(l) \/ GuestOf(l)
  \/ \E c \in Conns : OverBroker(c)
  \/ WriteEnvelope \/ Accept

(* The provider and its threads run; systemd ends a unit at RuntimeMaxSec. *)
(* Nothing makes a guest hang up that is neither cut off nor over.         *)
Fairness ==
  /\ \A l \in Launches :
       WF_vars(LaunchStep(l)) /\ WF_vars(UnitEnds(l)) /\ WF_vars(CopyoutEnds(l))
  /\ \A c \in Conns :
       WF_vars(BrokerWorks(c)) /\ WF_vars(PeerGone(c) /\ GuestHangsUp(c))

Spec == Init /\ [][Next]_vars /\ Fairness

-----------------------------------------------------------------------------
(* A launch that returned left nothing behind: no unit of it runs, its     *)
(* guest root is gone, its hole is shut and no thread of its broker is     *)
(* left, whatever the guest did ("a best-effort cleanup would leave a      *)
(* credential-capable VM job behind", _cleanup_guest_job).                 *)
ReturnedLeavesNothing ==
  \A l \in Launches : run[l].pc = "returned" =>
    /\ ~Running(l) /\ cu[l] # "run"
    /\ root[l] = NoVersion /\ fw # l
    /\ srv[l].st = "closed" /\ ConnsOf(l) = {}

(* The lock serializes the one VM: the hole in its firewall is that of the *)
(* holder, of a launch that was killed, or of one that failed to shut it;  *)
(* and it is the holder's own while the holder's worker runs.              *)
EgressIsTheHolders ==
  /\ fw # NoLaunch => lock = fw \/ run[fw].pc \in {"dead", "failed"}
  /\ \A l \in Launches : run[l].pc \in {"start", "work"} => lock = l /\ fw = l

(* The raw credential is in use only between __enter__ and __exit__ of the *)
(* broker, only for the guest unit of its own launch, and as often as the  *)
(* budget and the slots allow.                                             *)
CredentialStaysInLease ==
  /\ \A c \in Conns : conn[c].pc \in Holding =>
       run[conn[c].at].pc \in WithBroker /\ conn[c].from = conn[c].at
  /\ \A l \in Launches :
       /\ srv[l].used <= Budget
       /\ srv[l].free + Cardinality(ConnsOf(l)) = Slots

(* What the validator accepts was made by a guest that ran the envelope as *)
(* it is now, is the artifact that guest's root receipt names, leaves the  *)
(* other files alone unless the role may change them, and cannot change    *)
(* any more; and a task has one accepted result, over retries, crashes     *)
(* and edits of the envelope.                                              *)
AcceptedAsCommissioned ==
  [][accepted' # accepted =>
       LET out == meta.out IN
       /\ accepted = NoLaunch
       /\ out.ver = env /\ out.art = "reported" /\ ~Running(accepted')
       /\ out.src # "same" => out.src = "changed" /\ env \in Generators]_vars

(* A launch that began ends: join of the broker's threads, the lock and a  *)
(* unit nobody can reach do not hold it for ever.                          *)
LaunchEnds ==
  \A l \in Launches : run[l].pc = "wait" ~> run[l].pc \in Ended

=============================================================================
