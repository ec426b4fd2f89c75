------------------------------- MODULE ToolRoute -------------------------------
(***************************************************************************)
(* From a signed binding to a launch and back: consuming an intent stores  *)
(* what the catalog made of it (the checkpoint); every program on the way  *)
(* to a launch asks the catalog again and compares: dispatch-run.sh, then  *)
(* sandbox-profile.sh for a local CLI, a2a-client.py for a remote runner   *)
(* or the VM provider for a bridge; what returns is put under the route of *)
(* the target, asked for once more, with run metadata that may say         *)
(* anything.                                                               *)
(*                                                                         *)
(* The Coordinator runs one program at a time (`job').  Between any two    *)
(* reads somebody may change any file, and a remote runner may start again *)
(* from a changed checkout.                                                *)
(***************************************************************************)
EXTENDS ToolCatalog

CONSTANTS
  Bindings,       \* the bindings that may be signed
  Requests,       \* the programs as they are called: [program, role, agent]
  Endpoints,      \* where remote runners listen
  MaxConsumes,    \* bound: intents consumed
  MaxLaunches     \* bound: launches, and returns accepted

ASSUME RequestsAssumption ==
  \A q \in Requests : /\ q.program \in {"dispatch-run", "sandbox-profile", "a2a-client"}
                      /\ q.role \in Roles
ASSUME BoundsAssumption == MaxConsumes \in Nat /\ MaxLaunches \in Nat

VARIABLES
  checkpoint,     \* mode_intent.resolution of progress.json, or None
  consumed,       \* how many intents were consumed
  job,            \* the program that is running
  cards,          \* [endpoint -> the card its runner shows]
  launched,       \* what was started
  accepted        \* which of it was taken back, and as what

routeVars == <<checkpoint, consumed, job, cards, launched, accepted>>
vars == <<catalogVars, routeVars>>

NoJob == [step |-> "idle"]

\* expected: the signed provenance once it was read, the empty set before and
\* where nothing is signed.
Job(program, role, agent) ==
  [step |-> "start", program |-> program, role |-> role, agent |-> agent,
   expected |-> {}, target |-> None, early |-> None, launch |-> None]

Idle == job.step = "idle"
EndJob == job' = NoJob /\ run' = NoRun
Ask(j, side) == job' = j /\ run' = Started(side)

-----------------------------------------------------------------------------
(* Consuming an intent *)

StartConsume ==
  /\ Idle
  /\ consumed < MaxConsumes
  /\ consumed' = consumed + 1
  /\ \E b \in Bindings :
       Ask([Job("consume", None, None) EXCEPT !.step = "resolve", !.early = b], "project")
  /\ UNCHANGED <<files, edits, checkpoint, cards, launched, accepted>>

FinishConsume ==
  /\ job.step = "resolve" /\ job.program = "consume"
  /\ Answered
  /\ LET r == Resolution(job.early) IN
     checkpoint' = IF r = None THEN checkpoint
                   ELSE [number |-> consumed, binds |-> job.early, roles |-> r]
  /\ EndJob
  /\ UNCHANGED <<files, edits, consumed, cards, launched, accepted>>

-----------------------------------------------------------------------------
(* On the way to a launch *)

\* _legacy_descriptor, validate_dispatchable_role: the first agent of that id,
\* if the role may be sent to it.  It has no runner id.
AgentOf(j, r) ==
  LET same == {i \in 1..Len(r.entries) : j.agent = <<"agent", r.entries[i].id, "any">>}
      e == r.entries[CHOOSE i \in same : \A k \in same : i <= k]
  IN IF same # {} /\ e.transport = "a2a" /\ j.role \in e.roles \ {"generator"}
     THEN [Candidate(e, "a2a", e.roles) EXCEPT !.id = j.agent, !.endpoint = e.endpoint]
     ELSE None

\* load_descriptor: an unsigned client reads the registry itself and, of a
\* dispatch/1 registry, never asks the catalog.
OwnRegistry(j, r) ==
  IF r.version = "tool-integrations/1"
  THEN Ask([j EXCEPT !.step = "target", !.early = r], "project")
  ELSE IF AgentOf(j, r) = None THEN EndJob
  ELSE job' = [j EXCEPT !.step = "card", !.target = AgentOf(j, r)] /\ run' = NoRun

\* resolve-active-mode-role.sh and validate-resolved-mode-bindings.sh: with a
\* checkpoint the signed bindings are resolved again first.
Opening(j) ==
  IF checkpoint # None THEN Ask([j EXCEPT !.step = "replay"], "project")
  ELSE IF j.program = "a2a-client" /\ j.expected = {} THEN OwnRegistry(j, files[Registry])
  ELSE Ask([j EXCEPT !.step = "target"], "project")

StartDispatch ==
  /\ Idle
  /\ Cardinality(launched) < MaxLaunches
  /\ \E q \in Requests : Opening(Job(q.program, q.role, q.agent))
  /\ UNCHANGED <<files, edits, checkpoint, consumed, cards, launched, accepted>>

\* All three roles must resolve to what was consumed, and --agent and
\* --expected-provenance may only say the same again.
Replayed(role) == Resolution(checkpoint.binds) = checkpoint.roles /\ checkpoint.roles[role] # None

Confirms(record) ==
  /\ record.agent = job.agent
  /\ job.expected \subseteq {record.provenance}
  /\ job.program = "a2a-client" => record.provenance.invocation = "a2a"

FinishReplay ==
  /\ job.step = "replay" /\ job.program # "accept"
  /\ Answered
  /\ IF Replayed(job.role) /\ Confirms(checkpoint.roles[job.role])
     THEN Ask([job EXCEPT !.step = "target",
                          !.expected = {checkpoint.roles[job.role].provenance}], "project")
     ELSE EndJob
  /\ UNCHANGED <<files, edits, checkpoint, consumed, cards, launched, accepted>>

\* The target must still be the expected one and serve the role.
Serves(t) ==
  /\ t # None
  /\ job.expected \subseteq {t}
  /\ job.role \in t.roles

RouteTarget ==
  /\ job.step = "target" /\ job.program = "dispatch-run"
  /\ Answered
  /\ LET t == Target(job.agent) IN
     IF ~Serves(t) THEN EndJob
     ELSE CASE t.invocation = "local-cli" ->
                 Opening([job EXCEPT !.program = "sandbox-profile"])
            [] t.invocation = "a2a" /\ job.role # "generator" ->
                 Opening([job EXCEPT !.program = "a2a-client"])
            [] /\ t.invocation = "subagent" /\ t.bridge # HostNative
               /\ job.expected # {} /\ files[Mirror] ->
                 job' = [job EXCEPT !.program = "provider", !.step = "config"] /\ run' = NoRun
            [] OTHER -> EndJob
  /\ UNCHANGED <<files, edits, checkpoint, consumed, cards, launched, accepted>>

\* What is started: `program' is the argv or the command, `address' the home or
\* the endpoint, `family' the model the transport says it runs.
Launch(program, address, family) ==
  launched' = launched \cup
    {[role |-> job.role, agent |-> job.agent, target |-> job.target,
      signed |-> job.expected, number |-> IF checkpoint = None THEN 0 ELSE checkpoint.number,
      program |-> program, address |-> address, family |-> family, ran |-> None]}

-----------------------------------------------------------------------------
(* A local CLI *)

SandboxTarget ==
  /\ job.step = "target" /\ job.program = "sandbox-profile"
  /\ Answered
  /\ LET t == Target(job.agent) IN
     IF Serves(t) /\ t.invocation = "local-cli"
     THEN job' = [job EXCEPT !.step = "profile", !.target = t] /\ run' = NoRun
     ELSE EndJob
  /\ UNCHANGED <<files, edits, checkpoint, consumed, cards, launched, accepted>>

\* Mutant: the contract of the adapter is not compared with the target's.
BugOtherContract ==
  /\ job.step = "profile"
  /\ LET t == job.target
         a == files[Adapter(t.adapter.name)]
     IN IF Loads(t, a) THEN Launch(a.argv, t.home, a.family) ELSE UNCHANGED launched
  /\ EndJob
  /\ UNCHANGED <<files, edits, checkpoint, consumed, cards, accepted>>

\* The profile opens the adapter itself, and its contract must be the one the
\* target carries.
ReadProfile ==
  /\ job.step = "profile"
  /\ LET t == job.target
         a == files[Adapter(t.adapter.name)]
     IN IF Loads(t, a) /\ a = t.adapter
        THEN Launch(a.argv, t.home, a.family)
        ELSE UNCHANGED launched
  /\ EndJob
  /\ UNCHANGED <<files, edits, checkpoint, consumed, cards, accepted>>

-----------------------------------------------------------------------------
(* A remote runner *)

\* With an expected provenance the address comes from the target itself,
\* without one from the registry as it was read first.
EarlyTarget(t) ==
  LET same == {r \in job.early.targets : r.id = t.id[2]} IN
  IF same = {} THEN None
  ELSE LET r == CHOOSE r \in same : TRUE
           e == CHOOSE e \in {job.early.entries[i] : i \in 1..Len(job.early.entries)} :
                  e.id = r.integration
       IN [t EXCEPT !.endpoint = r.endpoint, !.runner = r.runner,
                    !.tool = e.tool, !.family = e.family, !.integration = e.id]

Descriptor(t) ==
  IF t = None \/ job.expected # {} THEN t ELSE EarlyTarget(t)

\* Both ways ask the catalog first; without an expected provenance for the role
\* alone (_preflight_canonical_target).
CatalogAllows(t) == Serves(t) /\ t.invocation = "a2a"

ClientTarget ==
  /\ job.step = "target" /\ job.program = "a2a-client"
  /\ Answered
  /\ LET t == Target(job.agent)
         d == Descriptor(t)
     IN IF CatalogAllows(t) /\ d # None
        THEN job' = [job EXCEPT !.step = "card", !.target = d] /\ run' = NoRun
        ELSE EndJob
  /\ UNCHANGED <<files, edits, checkpoint, consumed, cards, launched, accepted>>

\* validate_remote_card; a dispatch/1 target has no runner id, asks no card and
\* is taken at its word.
CardFits(d, c) ==
  d.runner # None =>
    /\ c # None
    /\ c.runner = d.runner
    /\ c.tool = d.tool /\ c.family = d.family /\ c.integration = d.integration
    /\ job.role \in RemoteRoles

Commission ==
  /\ job.step = "card"
  /\ LET d == job.target
         c == cards[d.endpoint]
     IN IF CardFits(d, c)
        THEN Launch(None, d.endpoint, IF d.runner = None THEN d.family ELSE c.family)
        ELSE UNCHANGED launched
  /\ EndJob
  /\ UNCHANGED <<files, edits, checkpoint, consumed, cards, accepted>>

\* A runner shows what its own checkout said when it started.
CardOf(f) ==
  [runner |-> f.runner, tool |-> f.tool, family |-> f.family, integration |-> f.integration]
RunnerLoads(f) == Loads(f, f.adapter)

StartRunner ==
  /\ \E e \in Endpoints :
       /\ LET f == files[Remote(e)] IN
          /\ RunnerLoads(f)
          /\ cards[e] # CardOf(f)
          /\ cards' = [cards EXCEPT ![e] = CardOf(f)]
  /\ UNCHANGED <<catalogVars, checkpoint, consumed, job, launched, accepted>>

\* For a task its sandbox profile reads the checkout again.
RunRemotely ==
  /\ \E l \in launched :
       /\ l.target.invocation = "a2a" /\ l.ran = None
       /\ LET f == files[Remote(l.address)] IN
          /\ RunnerLoads(f)
          /\ launched' = (launched \ {l}) \cup {[l EXCEPT !.ran = f]}
  /\ UNCHANGED <<catalogVars, checkpoint, consumed, job, cards, accepted>>

-----------------------------------------------------------------------------
(* A bridge in the VM *)

\* launch() reads its configuration first, and asks the catalog of the app.
ReadConfig ==
  /\ job.step = "config"
  /\ IF files[Provider] = None THEN EndJob
     ELSE Ask([job EXCEPT !.step = "launch-target", !.early = files[Provider]], "app")
  /\ UNCHANGED <<files, edits, checkpoint, consumed, cards, launched, accepted>>

\* The expected provenance, and the provider of the configuration read before.
PinnedTarget(t) == t # None /\ job.expected = {t} /\ t.provider = job.early.contract

LaunchTarget ==
  /\ job.step = "launch-target"
  /\ Answered
  /\ LET t == Target(job.agent) IN
     IF PinnedTarget(t)
     THEN job' = [job EXCEPT !.step = "bundle", !.target = t] /\ run' = NoRun
     ELSE EndJob
  /\ UNCHANGED <<files, edits, checkpoint, consumed, cards, launched, accepted>>

\* The CLI bundle is copied against the digest the configuration pins, and its
\* command must be the target's.
BundleServes(p) ==
  /\ p # None
  /\ p.command = job.early.command
  /\ p.command = job.target.bridge.command

SnapshotBundle ==
  /\ job.step = "bundle"
  /\ LET p == files[Provider] IN
     IF BundleServes(p) /\ job.role \in job.target.roles
     THEN Launch(p.command, job.early.contract, job.target.family)
     ELSE UNCHANGED launched
  /\ EndJob
  /\ UNCHANGED <<files, edits, checkpoint, consumed, cards, accepted>>

-----------------------------------------------------------------------------
(* The way back *)

RouteOf(t) ==
  CASE t.invocation = "local-cli" -> "local-cli"
    [] t.invocation = "a2a" -> "a2a"
    [] OTHER -> IF t.bridge = HostNative THEN "host-native" ELSE "external-bridge"
External(t) == RouteOf(t) = "external-bridge"

\* Run metadata is a file beside the work, and may name any agent and any
\* transport.  Only an attestation cannot be made up: the provider leaves it in
\* a tree of the account, for the envelope and the artifact of one launch.
RunMeta ==
  [agent : {q.agent : q \in Requests}, transport : {"local-cli", "a2a", "subagent"},
   attests : {None} \cup {l \in launched : External(l.target)}]

\* Without a checkpoint the return of a Generator is taken when its metadata says
\* that it ran here, as it always may.
StartAccept ==
  /\ Idle
  /\ \E l \in launched :
       /\ l.role = "generator" /\ \A a \in accepted : a.launch # l
       /\ IF checkpoint = None
          THEN /\ accepted' = accepted \cup {[launch |-> l, route |-> "legacy", signed |-> {}]}
               /\ UNCHANGED <<job, run>>
          ELSE /\ Ask([Job("accept", "generator", None) EXCEPT !.step = "replay", !.launch = l],
                      "project")
               /\ UNCHANGED accepted
  /\ UNCHANGED <<files, edits, checkpoint, consumed, cards, launched>>

ReplayReturn ==
  /\ job.step = "replay" /\ job.program = "accept"
  /\ Answered
  /\ IF Replayed(job.role)
     THEN Ask([job EXCEPT !.step = "target", !.expected = {checkpoint.roles[job.role].provenance}],
              "project")
     ELSE EndJob
  /\ UNCHANGED <<files, edits, checkpoint, consumed, cards, launched, accepted>>

\* classify_return_route: the target decides, the metadata may not differ.
Classified(meta, record, t) ==
  /\ record.id = t.id /\ meta.agent = t.id
  /\ record.invocation = t.invocation /\ meta.transport = t.invocation

\* Mutant: the attestation is not held against the envelope and the artifact.
BugOtherEnvelope(meta, l, record, t) ==
  t = record /\ meta.attests # None /\ meta.attests.signed = {record}

\* validate-external-bridge-receipt.py: the target must be the signed one, and
\* the attestation of that very execution, of this envelope and this artifact.
ReceiptFits(meta, l, record, t) ==
  /\ t = record
  /\ meta.attests # None /\ meta.attests.signed = {record}
  /\ meta.attests = l

\* What a remote runner or the Coordinator's own child did is not taken back.
Taken(meta, l, record, t) ==
  /\ Classified(meta, record, t)
  /\ \/ RouteOf(t) = "local-cli"
     \/ External(t) /\ ReceiptFits(meta, l, record, t)

\* Whatever the metadata says, the many checks of the work itself may refuse it.
AcceptReturn ==
  /\ job.step = "target" /\ job.program = "accept"
  /\ Answered
  /\ \/ UNCHANGED accepted
     \/ \E record \in job.expected : LET t == Target(record.id) IN
          /\ t # None /\ \E meta \in RunMeta : Taken(meta, job.launch, record, t)
          /\ accepted' = accepted \cup {[launch |-> job.launch, route |-> RouteOf(t),
                                         signed |-> job.expected]}
  /\ EndJob
  /\ UNCHANGED <<files, edits, checkpoint, consumed, cards, launched>>

-----------------------------------------------------------------------------

Init ==
  /\ CatalogInit
  /\ checkpoint = None
  /\ consumed = 0
  /\ job = NoJob
  /\ cards = [e \in Endpoints |-> CardOf(files[Remote(e)])]
  /\ launched = {}
  /\ accepted = {}

Next ==
  \/ Edit /\ UNCHANGED routeVars
  \/ CatalogStep /\ UNCHANGED routeVars
  \/ StartConsume \/ FinishConsume
  \/ StartDispatch \/ FinishReplay \/ RouteTarget
  \/ SandboxTarget \/ ReadProfile
  \/ ClientTarget \/ Commission \/ StartRunner \/ RunRemotely
  \/ ReadConfig \/ LaunchTarget \/ SnapshotBundle
  \/ StartAccept \/ ReplayReturn \/ AcceptReturn

Spec == Init /\ [][Next]_vars

-----------------------------------------------------------------------------
(* Properties *)

Steps == {"idle", "resolve", "replay", "target", "profile", "card", "config",
          "launch-target", "bundle"}

\* The programs, the catalog process and what they leave have their shapes, and
\* a catalog process belongs to a program that waits for it.
TypeOK ==
  /\ edits \in 0..MaxEdits /\ consumed \in 0..MaxConsumes
  /\ job.step \in Steps
  /\ run.at # "idle" <=> job.step \in {"resolve", "replay", "target", "launch-target"}
  /\ checkpoint # None => checkpoint.number \in 1..consumed
  /\ \A l \in launched : l.role \in l.target.roles
  /\ \A a \in accepted : a.launch \in launched

\* However the files change between the reads, what is started for a signed role
\* is what the intent was resolved to: the argv and the home of the adapter and
\* integration, the address of the runner, the command and the contract of the
\* provider, and the model family (sandbox-profile.sh re-reads the adapter,
\* a2a-client.py asks the target for its address, the provider resolves again).
LaunchedAsSigned ==
  \A l \in launched : \A s \in l.signed :
    /\ l.agent = s.id /\ l.role \in s.roles /\ l.family = s.family
    /\ CASE s.invocation = "local-cli" -> l.program = s.adapter.argv /\ l.address = s.home
         [] s.invocation = "a2a"       -> l.address = s.endpoint
         [] OTHER -> l.program = s.bridge.command /\ l.address = s.provider

\* Under one checkpoint the Generator and the Evaluator that are started are of
\* different model families, by what the transports show at the launch (for a
\* remote runner its card).
FamiliesDiffer ==
  \A l, m \in launched :
    (l.number = m.number /\ l.number # 0 /\ l.role = "generator" /\ m.role = "evaluator")
      => l.family # m.family

\* Where the intent that stands gives the Generator to a bridge, only the work
\* of that bridge is accepted, done in the execution that intent was resolved
\* to: no local run and no run of an older or another execution takes its place,
\* whatever its run metadata says and whichever attestation lies beside it
\* (validate-active-return-route.py, validate-external-bridge-receipt.py).
AcceptedAsAttested ==
  \A a \in accepted : \A s \in a.signed : External(s) =>
    /\ a.route = "external-bridge"
    /\ a.launch.target = s /\ a.launch.signed = {s}
    /\ a.launch.program = s.bridge.command /\ a.launch.address = s.provider

\* What is accepted as the work of a local CLI was done in the execution that
\* was signed.  The code does not promise it: no attestation is asked for, and
\* run metadata that names the agent is taken at its word.
LocalAsSigned ==
  \A a \in accepted : \A s \in a.signed :
    a.route = "local-cli" => a.launch.signed = {s}

\* A remote runner runs the tool and the family its card named.
RemoteRunsItsCard ==
  \A l \in launched : l.ran # None =>
    l.ran.family = l.family /\ l.ran.tool = l.target.tool
=============================================================================
