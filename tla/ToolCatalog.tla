------------------------------ MODULE ToolCatalog ------------------------------
(***************************************************************************)
(* The tool catalog (dispatch/tool-catalog.py): the only interpreter of    *)
(* the registry, the adapter files, the bridge manifests and the           *)
(* attestation of the VM provider.                                         *)
(*                                                                         *)
(* Every question asked of it is one process of its own, which opens the   *)
(* files one after the other: the registry, then for every entry its       *)
(* manifest, its adapter and, for a bridge, the adapter a second time, and *)
(* last the provider.  People, git and the updater of the app change those *)
(* files meanwhile, so one answer may mix versions.  `run' is the reader   *)
(* at work; the candidates are what its reads add up to.                   *)
(*                                                                         *)
(* A digest stands for the value it is taken of: a provenance is the       *)
(* record of everything it covers.  A value of None stands for an absent   *)
(* field.                                                                  *)
(***************************************************************************)
EXTENDS Integers, Sequences, FiniteSets

CONSTANTS
  None,           \* an absent field, file or answer
  HostNative,     \* the bridge that is the Coordinator itself
  Installed,      \* the files as they are at first
  Edits,          \* the changes somebody may make: a set of pairs <<path, value>>
  MaxEdits,       \* bound: how often somebody changes a file
  Rank,           \* the order of the ids as strings
  ProviderCap     \* VM_V1_MAX_TASK_SECONDS

ASSUME CapAssumption == ProviderCap \in Nat

\* The order of the ids is the order of strings: no two have the same place.
ASSUME RankAssumption ==
  \A i, j \in DOMAIN Rank : Rank[i] \in Nat /\ (Rank[i] = Rank[j] => i = j)

VARIABLES
  files,          \* [path -> content]: what the disk holds now
  edits,          \* how often it was changed
  run             \* the catalog process that is running, or its answer

catalogVars == <<files, edits, run>>

Roles == {"planner", "generator", "evaluator"}
RemoteRoles == Roles \ {"generator"}
Sides == {"project", "app"}

-----------------------------------------------------------------------------
(* The files *)

Registry == <<"registry">>
Adapter(name) == <<"adapter", name>>
\* The provider asks the catalog of the app, which has manifests of its own.
Manifest(side, id) == <<"manifest", side, id>>
Provider == <<"provider">>
Mirror == <<"mirror">>           \* whether the project's copy of the runtime is the app's
Remote(e) == <<"remote", e>> \* the checkout a runner at endpoint e works from

Edit ==
  /\ edits < MaxEdits
  /\ edits' = edits + 1
  /\ \E e \in Edits :
       /\ files[e[1]] # e[2]
       /\ files' = [files EXCEPT ![e[1]] = e[2]]
  /\ UNCHANGED run

-----------------------------------------------------------------------------
(* One process of the catalog *)

NoRun == [at |-> "idle"]

Started(side) ==
  [at |-> "registry", side |-> side, next |-> 1, reg |-> None,
   manifest |-> <<>>, contract |-> <<>>, provider |-> None]

Entry == run.reg.entries[run.next]

\* What has to be opened for the entry the reader has come to.
EntryAt(r, i) ==
  IF i > Len(r.entries)
  THEN IF r.version = "dispatch/1" THEN "done" ELSE "provider"
  ELSE IF r.entries[i].bridge # None THEN "manifest" ELSE "adapter"

NextEntry(r) == [r EXCEPT !.next = @ + 1, !.at = EntryAt(r.reg, r.next + 1)]

Refused == [run EXCEPT !.at = "refused"]

\* Ids are stable ids and name one entry or target each; a priority is a
\* non-negative integer.
Listed(S) ==
  /\ \A x \in S : x.id \in DOMAIN Rank /\ x.priority \in Nat
  /\ \A x, y \in S : x.id = y.id => x = y

Valid(r) ==
  /\ r.version \in {"dispatch/1", "tool-integrations/1"}
  /\ Len(r.entries) \in Nat
  /\ Listed({r.entries[i] : i \in 1..Len(r.entries)})
  /\ \A i, j \in 1..Len(r.entries) : r.entries[i].id = r.entries[j].id => i = j
  /\ Listed(r.targets)

ReadRegistry ==
  /\ run.at = "registry"
  /\ LET r == files[Registry] IN
     run' = IF ~Valid(r)
            THEN Refused
            ELSE [run EXCEPT !.reg = r, !.at = EntryAt(r, 1)]
  /\ UNCHANGED <<files, edits>>

Present(path) == path \in DOMAIN files

\* A manifest must be verified and speak a protocol this framework publishes,
\* and a bridge needs the sandbox and timeout of a local CLI.
ReadManifest ==
  /\ run.at = "manifest"
  /\ LET m == files[Manifest(run.side, Entry.bridge)] IN
     run' = IF ~Present(Manifest(run.side, Entry.bridge)) \/ ~m.verified \/ ~m.published
            THEN Refused
            ELSE [run EXCEPT !.manifest = Append(@, m), !.at = "adapter"]
  /\ UNCHANGED <<files, edits>>

\* The adapter must be verified and agree with the entry about tool and family.
Loads(e, a) == a.verified /\ a.tool = e.tool /\ a.family = e.family

ReadAdapter ==
  /\ run.at = "adapter"
  /\ LET e == Entry
         a == IF e.adapter = None THEN None ELSE files[Adapter(e.adapter)]
         lost == e.adapter # None /\ ~Present(Adapter(e.adapter))
         m == IF e.bridge = None THEN Append(run.manifest, None) ELSE run.manifest
         seen == [run EXCEPT !.manifest = m, !.contract = Append(@, a)]
     IN run' = IF \/ lost
                  \/ a = None /\ e.bridge # None
                  \/ a # None /\ ~Loads(e, a)
               THEN Refused
               ELSE IF e.bridge # None THEN [seen EXCEPT !.at = "command"]
                                       ELSE NextEntry(seen)
  /\ UNCHANGED <<files, edits>>

\* validate_bridge_adapter_command opens the adapter again.
ReadCommand ==
  /\ run.at = "command"
  /\ LET a == files[Adapter(Entry.adapter)] IN
     run' = IF ~a.verified \/ a.command # run.manifest[run.next].command
            THEN Refused
            ELSE NextEntry(run)
  /\ UNCHANGED <<files, edits>>

\* No provider, or one that cannot prove itself, only withholds the bridges.
\* The project's runtime must be byte for byte the app's.
Attested(side) ==
  IF side = "project" /\ ~files[Mirror] THEN None ELSE files[Provider]

AskProvider ==
  /\ run.at = "provider"
  /\ run' = [run EXCEPT !.provider = Attested(run.side), !.at = "done"]
  /\ UNCHANGED <<files, edits>>

CatalogStep == ReadRegistry \/ ReadManifest \/ ReadAdapter \/ ReadCommand \/ AskProvider

-----------------------------------------------------------------------------
(* The candidates *)

Candidate(e, invocation, roles) ==
  [id |-> <<invocation, e.id, CHOOSE r \in roles : TRUE>>, integration |-> e.id,
   roles |-> roles, tool |-> e.tool, invocation |-> invocation, family |-> e.family,
   priority |-> e.priority, home |-> None, timeout |-> None, endpoint |-> None,
   runner |-> None, bridge |-> None, adapter |-> None, provider |-> None,
   selectable |-> TRUE]

\* external_bridge_timeout.
Least(m, n) == IF m <= n THEN m ELSE n

Entries == {i \in 1..Len(run.reg.entries) : run.contract[i] # None}
E(i) == run.reg.entries[i]

LocalCandidates ==
  UNION {{[Candidate(E(i), "local-cli", {r}) EXCEPT
             !.home = E(i).home, !.timeout = E(i).timeout, !.adapter = run.contract[i]] :
             r \in Roles} : i \in Entries}

Bridged == {i \in Entries : /\ run.manifest[i] # None
                            /\ run.provider # None
                            /\ run.provider.tool = E(i).tool
                            /\ run.provider.command = run.manifest[i].command}

BridgeCandidates ==
  UNION {{[Candidate(E(i), "subagent", {r}) EXCEPT
             !.home = E(i).home, !.timeout = Least(E(i).timeout, ProviderCap),
             !.adapter = run.contract[i], !.bridge = run.manifest[i],
             !.provider = run.provider.contract] : r \in run.manifest[i].personas} :
         i \in Bridged}

RemoteCandidates ==
  {[Candidate(E(x[1]), "a2a", {x[3]}) EXCEPT
      !.id = <<"a2a", x[2].id, x[3]>>, !.priority = x[2].priority,
      !.endpoint = x[2].endpoint, !.runner = x[2].runner,
      !.timeout = E(x[1]).timeout, !.adapter = run.contract[x[1]]] :
      x \in {y \in Entries \X run.reg.targets \X RemoteRoles : E(y[1]).id = y[2].integration}}

\* A target that names no integration with a local CLI spoils the registry.
TargetsAreBacked ==
  \A t \in run.reg.targets : \E i \in Entries : E(i).id = t.integration

\* dispatch/1: a remote Generator spoils the registry, a local one must be
\* allowed to write and nothing else, a child of the Coordinator has no signed
\* binding.
LegacyRoles(e) ==
  IF e.transport = "local-cli" /\ ~e.qualified THEN e.roles \ {"generator"} ELSE e.roles

LegacyCandidates ==
  {[Candidate(E(i), E(i).transport, LegacyRoles(E(i))) EXCEPT
      !.id = <<"agent", E(i).id, "any">>, !.home = E(i).home, !.timeout = E(i).timeout,
      !.endpoint = E(i).endpoint, !.adapter = run.contract[i],
      !.bridge = IF E(i).transport = "subagent" THEN HostNative ELSE None,
      !.selectable = E(i).transport # "subagent"] :
      i \in {j \in 1..Len(run.reg.entries) : LegacyRoles(E(j)) # {}}}

NoRemoteGenerator ==
  \A i \in 1..Len(run.reg.entries) :
    ~(E(i).transport = "a2a" /\ "generator" \in E(i).roles)

Legacy == run.reg.version = "dispatch/1"
Answered == run.at \in {"done", "refused"}
Sound == run.at = "done" /\ IF Legacy THEN NoRemoteGenerator ELSE TargetsAreBacked

Candidates ==
  IF Legacy THEN LegacyCandidates
  ELSE LocalCandidates \cup BridgeCandidates \cup RemoteCandidates

-----------------------------------------------------------------------------
(* The answers *)

\* What a checkpoint keeps of a candidate: its id and all that its provenance
\* covers.
Public(c) == [agent |-> c.id, provenance |-> c]

Pool(role, b) ==
  {c \in Candidates : /\ c.selectable /\ role \in c.roles
                      /\ c.tool = b.tool /\ c.invocation = b.invocation}

Precedes(c, d) ==
  c.priority < d.priority \/ (c.priority = d.priority /\ Rank[c.id[2]] < Rank[d.id[2]])

First(S) == CHOOSE c \in S : \A d \in S \ {c} : Precedes(c, d)

\* Mutant: the family of the Generator is not looked at.
BugAnyRival(g, b) == Pool("evaluator", b)

\* resolve: the first Generator that has an Evaluator of another family, and
\* the first such Evaluator; None when the bindings cannot be served.
Rivals(g, b) == {e \in Pool("evaluator", b) : e.family # g.family}

Resolution(b) ==
  LET generators == {g \in Pool("generator", b.generator) : Rivals(g, b.evaluator) # {}}
      planners == IF b.planner = None THEN {} ELSE Pool("planner", b.planner)
  IN IF ~Sound THEN None
     ELSE IF generators = {} \/ (b.planner # None /\ planners = {}) THEN None
     ELSE [planner   |-> IF b.planner = None THEN None ELSE Public(First(planners)),
           generator |-> Public(First(generators)),
           evaluator |-> Public(First(Rivals(First(generators), b.evaluator)))]

\* resolve_target: the one candidate of that id.
Target(id) ==
  IF ~Sound THEN None
  ELSE LET same == {c \in Candidates : c.id = id} IN
       IF Cardinality(same) = 1 THEN CHOOSE c \in same : TRUE ELSE None

CatalogInit ==
  /\ files = Installed
  /\ edits = 0
  /\ run = NoRun
=============================================================================
