-------------------------- MODULE ToolRoute_proofs --------------------------
(***************************************************************************)
(* What is started is what was signed, whoever changes which file when.    *)
(*                                                                         *)
(* The argument has two halves.  A program on the way carries the target   *)
(* it is held to, and every step from one read to the next keeps it: the   *)
(* checkpoint's provenance while there is a checkpoint, for no intent is   *)
(* consumed while another program runs (JobIs).  What was started under    *)
(* the checkpoint that stands is what it names (UnderCheckpoint), and an   *)
(* older checkpoint's number is never given again, so that a Generator and *)
(* an Evaluator of one number are the two that one answer of the catalog   *)
(* chose of different families (CheckpointIs, ResolutionChecked).          *)
(*                                                                         *)
(* That the catalog chooses a candidate at all needs the order of the ids  *)
(* (FirstIsIn, PoolKeys).  That what is accepted for a bridge is the work  *)
(* of that bridge needs every launch to carry the target it was signed for *)
(* (AsSigned) and the attestation to be of a launch that took place.       *)
(***************************************************************************)
EXTENDS ToolRoute, FiniteSetTheorems, WellFoundedInduction, TLAPS

-----------------------------------------------------------------------------
(* The answers of the catalog *)

\* A set of natural numbers has a least one.
LEMMA LeastOne ==
  ASSUME NEW T \in SUBSET Nat, T # {}
  PROVE  \E x \in T : \A y \in T : x <= y
<1>1. PICK x \in T : \A y \in T : ~(<<y, x>> \in OpToRel(<, Nat))
  BY NatLessThanWellFounded, WFMin
<1>2. \A y \in T : ~(y < x)
  BY <1>1 DEF OpToRel
<1> QED
  BY <1>2

\* First is in the set: the order of the catalog has a least candidate.
LEMMA FirstIsIn ==
  ASSUME NEW S, S # {},
         \A c \in S : c.priority \in Nat /\ c.id[2] \in DOMAIN Rank,
         \A c, d \in S : c.id[2] = d.id[2] => c = d
  PROVE  First(S) \in S
<1> DEFINE P == {c.priority : c \in S}
<1>1. PICK p \in P : \A y \in P : p <= y
  <2>1. P # {} /\ P \in SUBSET Nat
    OBVIOUS
  <2> QED
    BY <2>1, LeastOne
<1> DEFINE Q == {Rank[c.id[2]] : c \in {x \in S : x.priority = p}}
<1>2. PICK q \in Q : \A y \in Q : q <= y
  <2>1. Q # {} /\ Q \in SUBSET Nat
    BY <1>1, RankAssumption
  <2> QED
    BY <2>1, LeastOne
<1>3. PICK c \in S : c.priority = p /\ Rank[c.id[2]] = q
  BY <1>2
<1>4. ASSUME NEW d \in S \ {c}
      PROVE  Precedes(c, d)
  <2>1. c.priority \in Nat /\ d.priority \in Nat /\ c.priority <= d.priority
    BY <1>1, <1>3
  <2>2. Rank[c.id[2]] \in Nat /\ Rank[d.id[2]] \in Nat /\ Rank[c.id[2]] # Rank[d.id[2]]
    BY RankAssumption
  <2>3. c.priority = d.priority => Rank[c.id[2]] <= Rank[d.id[2]]
    BY <1>2, <1>3
  <2> QED
    BY <2>1, <2>2, <2>3 DEF Precedes
<1> QED
  BY <1>4 DEF First

\* Where candidates come from, and what tells them apart.
LocalOf(i, r) ==
  [Candidate(E(i), "local-cli", {r}) EXCEPT
     !.home = E(i).home, !.timeout = E(i).timeout, !.adapter = run.contract[i]]
BridgeOf(i, r) ==
  [Candidate(E(i), "subagent", {r}) EXCEPT
     !.home = E(i).home, !.timeout = Least(E(i).timeout, ProviderCap),
     !.adapter = run.contract[i], !.bridge = run.manifest[i],
     !.provider = run.provider.contract]
RemoteOf(i, t, r) ==
  [Candidate(E(i), "a2a", {r}) EXCEPT
     !.id = <<"a2a", t.id, r>>, !.priority = t.priority,
     !.endpoint = t.endpoint, !.runner = t.runner,
     !.timeout = E(i).timeout, !.adapter = run.contract[i]]
LegacyOf(i) ==
  [Candidate(E(i), E(i).transport, LegacyRoles(E(i))) EXCEPT
     !.id = <<"agent", E(i).id, "any">>, !.home = E(i).home, !.timeout = E(i).timeout,
     !.endpoint = E(i).endpoint, !.adapter = run.contract[i],
     !.bridge = IF E(i).transport = "subagent" THEN HostNative ELSE None,
     !.selectable = E(i).transport # "subagent"]

Like(c, how, id, invocation, priority, roles, bridge) ==
  /\ c.id[1] = how /\ c.id[2] = id /\ c.invocation = invocation
  /\ c.priority = priority /\ c.roles = roles /\ c.bridge = bridge
  /\ "invocation" \in DOMAIN c

\* Every candidate is one of the four kinds.
LEMMA CandidateKinds ==
  ASSUME NEW c \in Candidates
  PROVE  \/ Legacy /\ \E i \in 1..Len(run.reg.entries) :
              /\ c = LegacyOf(i)
              /\ Like(c, "agent", E(i).id, E(i).transport, E(i).priority, LegacyRoles(E(i)),
                      IF E(i).transport = "subagent" THEN HostNative ELSE None)
         \/ ~Legacy /\ \E i \in Entries, r \in Roles :
              /\ c = LocalOf(i, r)
              /\ Like(c, "local-cli", E(i).id, "local-cli", E(i).priority, {r}, None)
         \/ ~Legacy /\ \E i \in Bridged : \E r \in run.manifest[i].personas :
              /\ c = BridgeOf(i, r)
              /\ Like(c, "subagent", E(i).id, "subagent", E(i).priority, {r}, run.manifest[i])
         \/ ~Legacy /\ \E i \in Entries, t \in run.reg.targets, r \in RemoteRoles :
              /\ c = RemoteOf(i, t, r) /\ E(i).id = t.integration
              /\ Like(c, "a2a", t.id, "a2a", t.priority, {r}, None)
<1>1. CASE Legacy
  <2>1. PICK i \in 1..Len(run.reg.entries) : c = LegacyOf(i)
    BY <1>1 DEF Candidates, LegacyCandidates, LegacyOf
  <2>2. Like(LegacyOf(i), "agent", E(i).id, E(i).transport, E(i).priority, LegacyRoles(E(i)),
             IF E(i).transport = "subagent" THEN HostNative ELSE None)
    BY DEF Like, LegacyOf, Candidate
  <2> QED
    BY <1>1, <2>1, <2>2
<1>2. CASE ~Legacy /\ c \in LocalCandidates
  <2>1. PICK i \in Entries, r \in Roles : c = LocalOf(i, r)
    <3>1. LocalCandidates = UNION {{LocalOf(i, r) : r \in Roles} : i \in Entries}
      BY Zenon DEF LocalCandidates, LocalOf
    <3>2. c \in UNION {{LocalOf(i, r) : r \in Roles} : i \in Entries}
      BY <1>2, <3>1
    <3> QED
      BY <3>2
  <2>2. Like(LocalOf(i, r), "local-cli", E(i).id, "local-cli", E(i).priority, {r}, None)
    BY DEF Like, LocalOf, Candidate
  <2> QED
    BY <1>2, <2>1, <2>2
<1>3. CASE ~Legacy /\ c \in BridgeCandidates
  <2>1. PICK i \in Bridged : \E r \in run.manifest[i].personas : c = BridgeOf(i, r)
    <3>1. BridgeCandidates =
            UNION {{BridgeOf(i, r) : r \in run.manifest[i].personas} : i \in Bridged}
      BY Zenon DEF BridgeCandidates, BridgeOf
    <3>2. c \in UNION {{BridgeOf(i, r) : r \in run.manifest[i].personas} : i \in Bridged}
      BY <1>3, <3>1
    <3> QED
      BY <3>2
  <2>2. PICK r \in run.manifest[i].personas : c = BridgeOf(i, r)
    BY <2>1
  <2>3. Like(BridgeOf(i, r), "subagent", E(i).id, "subagent", E(i).priority, {r},
             run.manifest[i])
    BY DEF Like, BridgeOf, Candidate
  <2> QED
    BY <1>3, <2>2, <2>3
<1>4. CASE ~Legacy /\ c \in RemoteCandidates
  <2>1. PICK x \in {y \in Entries \X run.reg.targets \X RemoteRoles :
                      E(y[1]).id = y[2].integration} : c = RemoteOf(x[1], x[2], x[3])
    BY <1>4 DEF RemoteCandidates, RemoteOf
  <2>2. PICK i \in Entries, t \in run.reg.targets, r \in RemoteRoles :
          c = RemoteOf(i, t, r) /\ E(i).id = t.integration
    BY <2>1
  <2>3. Like(RemoteOf(i, t, r), "a2a", t.id, "a2a", t.priority, {r}, None)
    BY DEF Like, RemoteOf, Candidate
  <2> QED
    BY <1>4, <2>2, <2>3
<1> QED
  BY <1>1, <1>2, <1>3, <1>4 DEF Candidates

\* Within what one binding selects, the ids tell candidates apart.
LEMMA PoolKeys ==
  ASSUME Valid(run.reg), NEW role, NEW b
  PROVE  /\ \A c \in Pool(role, b) : c.priority \in Nat /\ c.id[2] \in DOMAIN Rank
         /\ \A c, d \in Pool(role, b) : c.id[2] = d.id[2] => c = d
<1>1. \A i \in 1..Len(run.reg.entries) : E(i).id \in DOMAIN Rank /\ E(i).priority \in Nat
  BY DEF Valid, Listed, E
<1>2. \A i, j \in 1..Len(run.reg.entries) : E(i).id = E(j).id => i = j
  BY DEF Valid, E
<1>3. /\ \A t \in run.reg.targets : t.id \in DOMAIN Rank /\ t.priority \in Nat
      /\ \A t, u \in run.reg.targets : t.id = u.id => t = u
  BY DEF Valid, Listed
<1>4. Entries \subseteq 1..Len(run.reg.entries) /\ Bridged \subseteq Entries
  BY DEF Entries, Bridged
<1>5. ASSUME NEW c \in Pool(role, b)
      PROVE  c.priority \in Nat /\ c.id[2] \in DOMAIN Rank
  <2>1. c \in Candidates
    BY DEF Pool
  <2> QED
    BY <1>1, <1>3, <1>4, <2>1, CandidateKinds DEF Like
<1>6. ASSUME NEW c \in Pool(role, b), NEW d \in Pool(role, b), c.id[2] = d.id[2]
      PROVE  c = d
  <2>1. /\ c \in Candidates /\ d \in Candidates /\ c.invocation = d.invocation
        /\ role \in c.roles /\ role \in d.roles
    BY DEF Pool
  <2>2. CASE Legacy
    <3>1. PICK i \in 1..Len(run.reg.entries) : c = LegacyOf(i) /\ c.id[2] = E(i).id
      BY <2>1, <2>2, CandidateKinds DEF Like
    <3>2. PICK j \in 1..Len(run.reg.entries) : d = LegacyOf(j) /\ d.id[2] = E(j).id
      BY <2>1, <2>2, CandidateKinds DEF Like
    <3> QED
      BY <1>2, <1>6, <3>1, <3>2
  <2>3. CASE ~Legacy /\ c.invocation = "local-cli"
    <3>1. PICK i \in Entries, r \in Roles : c = LocalOf(i, r) /\ c.id[2] = E(i).id /\ c.roles = {r}
      BY <2>1, <2>3, CandidateKinds DEF Like
    <3>2. PICK j \in Entries, q \in Roles : d = LocalOf(j, q) /\ d.id[2] = E(j).id /\ d.roles = {q}
      BY <2>1, <2>3, CandidateKinds DEF Like
    <3>3. i = j /\ r = q
      BY <1>2, <1>4, <1>6, <2>1, <3>1, <3>2
    <3> QED
      BY <3>1, <3>2, <3>3
  <2>4. CASE ~Legacy /\ c.invocation = "subagent"
    <3>1. PICK i \in Bridged : \E r : c = BridgeOf(i, r) /\ c.id[2] = E(i).id /\ c.roles = {r}
      BY <2>1, <2>4, CandidateKinds DEF Like
    <3>2. PICK j \in Bridged : \E r : d = BridgeOf(j, r) /\ d.id[2] = E(j).id /\ d.roles = {r}
      BY <2>1, <2>4, CandidateKinds DEF Like
    <3>3. PICK r, q : c = BridgeOf(i, r) /\ c.roles = {r} /\ d = BridgeOf(j, q) /\ d.roles = {q}
      BY <3>1, <3>2
    <3>4. i = j /\ r = q
      BY <1>2, <1>4, <1>6, <2>1, <3>1, <3>2, <3>3
    <3> QED
      BY <3>3, <3>4
  <2>5. CASE ~Legacy /\ c.invocation \notin {"local-cli", "subagent"}
    <3>1. PICK i \in Entries, t \in run.reg.targets, r \in RemoteRoles :
            c = RemoteOf(i, t, r) /\ E(i).id = t.integration /\ c.id[2] = t.id /\ c.roles = {r}
      BY <2>1, <2>5, CandidateKinds DEF Like
    <3>2. PICK j \in Entries, u \in run.reg.targets, q \in RemoteRoles :
            d = RemoteOf(j, u, q) /\ E(j).id = u.integration /\ d.id[2] = u.id /\ d.roles = {q}
      BY <2>1, <2>5, CandidateKinds DEF Like
    <3>3. t = u /\ r = q
      BY <1>3, <1>6, <2>1, <3>1, <3>2
    <3>4. i = j
      BY <1>2, <1>4, <3>1, <3>2, <3>3
    <3> QED
      BY <3>1, <3>2, <3>3, <3>4
  <2> QED
    BY <2>2, <2>3, <2>4, <2>5
<1> QED
  BY <1>5, <1>6

\* What the checkpoint gets: three records of candidates, and a Generator and an
\* Evaluator of different families.
Checked(r) ==
  /\ \A role \in Roles : r[role] # None => r[role].agent = r[role].provenance.id
  /\ r["generator"].provenance.family # r["evaluator"].provenance.family

LEMMA ResolutionChecked ==
  ASSUME Sound => Valid(run.reg), NEW b, Resolution(b) # None
  PROVE  Checked(Resolution(b))
<1> DEFINE G == {g \in Pool("generator", b.generator) : Rivals(g, b.evaluator) # {}}
           R == Resolution(b)
<1>1. Sound /\ G # {} /\ Valid(run.reg)
  BY DEF Resolution
<1>2. First(G) \in G
  <2>1. G \subseteq Pool("generator", b.generator)
    OBVIOUS
  <2> HIDE DEF G
  <2> QED
    BY <1>1, <2>1, PoolKeys, FirstIsIn
<1>3. First(Rivals(First(G), b.evaluator)) \in Rivals(First(G), b.evaluator)
  <2>1. Rivals(First(G), b.evaluator) # {}
    BY <1>2
  <2>2. Rivals(First(G), b.evaluator) \subseteq Pool("evaluator", b.evaluator)
    BY DEF Rivals
  <2> HIDE DEF G
  <2> QED
    BY <1>1, <2>1, <2>2, PoolKeys, FirstIsIn
<1>4. First(Rivals(First(G), b.evaluator)).family # First(G).family
  BY <1>3 DEF Rivals
<1>5. \E p : R = [planner   |-> p,
                  generator |-> Public(First(G)),
                  evaluator |-> Public(First(Rivals(First(G), b.evaluator)))]
             /\ (p = None \/ \E c : p = Public(c))
  BY <1>1 DEF Resolution
<1> HIDE DEF G, R
<1>6. PICK p : R = [planner   |-> p,
                    generator |-> Public(First(G)),
                    evaluator |-> Public(First(Rivals(First(G), b.evaluator)))]
             /\ (p = None \/ \E c : p = Public(c))
  BY <1>5
<1>7. Checked(R)
  BY <1>4, <1>6 DEF Checked, Public, Roles
<1> QED
  BY <1>7 DEF R

\* What the catalog answers for an id.
LEMMA TargetFacts ==
  ASSUME NEW id, Target(id) # None
  PROVE  Target(id) \in Candidates /\ Target(id).id = id /\ run.at = "done"
<1> DEFINE same == {c \in Candidates : c.id = id}
<1>1. Sound /\ Cardinality(same) = 1 /\ Target(id) = CHOOSE c \in same : TRUE
  BY DEF Target
<1>2. same # {}
  BY <1>1, FS_EmptySet
<1> QED
  BY <1>1, <1>2 DEF Sound
-----------------------------------------------------------------------------
(* The inductive invariant *)

IsRun(r) ==
  DOMAIN r = {"at", "side", "next", "reg", "manifest", "contract", "provider"}

\* Past the registry the reader holds one that is valid.
RunIs(r) ==
  \/ r = NoRun
  \/ /\ IsRun(r)
     /\ r.at \in {"registry", "manifest", "adapter", "command", "provider", "done", "refused"}
     /\ r.at \notin {"registry", "refused"} => Valid(r.reg)

IsJob(j) ==
  DOMAIN j = {"step", "program", "role", "agent", "expected", "target", "early", "launch"}

\* What the program at each step of the way knows of the target it is held to.
HoldsLocal(j) ==
  /\ j.target.invocation = "local-cli"
  /\ \A e \in j.expected : e = j.target /\ e.id = j.agent /\ j.role \in e.roles
HoldsRemote(j) ==
  /\ j.target.invocation = "a2a"
  /\ \A e \in j.expected : e = j.target /\ e.id = j.agent /\ j.role \in e.roles
BridgeExpected(j) ==
  \A e \in j.expected : e.invocation = "subagent"
HoldsBridge(j) ==
  j.expected = {j.target} /\ j.agent = j.target.id /\ j.target.provider = j.early.contract

JobIs(j, cp) ==
  \/ j = NoJob
  \/ /\ IsJob(j)
     /\ j.step \in {"resolve", "replay", "target", "profile", "card", "config",
                    "launch-target", "bundle"}
     /\ j.program = "accept" => cp # None /\ j.step \in {"replay", "target"}
     /\ (cp # None /\ j.step \notin {"resolve", "replay"})
          => j.expected = {cp.roles[j.role].provenance}
     /\ j.step = "profile" => HoldsLocal(j)
     /\ j.step = "card" => HoldsRemote(j)
     /\ j.step \in {"config", "launch-target", "bundle"} => BridgeExpected(j)
     /\ j.step = "bundle" => HoldsBridge(j)

\* The checkpoint is of an intent that was consumed before the one at work.
CheckpointIs(cp, n, step) ==
  cp # None =>
    /\ cp.number \in 1..n
    /\ step = "resolve" => cp.number < n
    /\ cp.roles["generator"].provenance.family # cp.roles["evaluator"].provenance.family

AsSigned(l) ==
  \A s \in l.signed :
    /\ l.target = s /\ l.agent = s.id /\ l.role \in s.roles /\ l.family = s.family
    /\ CASE s.invocation = "local-cli" -> l.program = s.adapter.argv /\ l.address = s.home
         [] s.invocation = "a2a"       -> l.address = s.endpoint
         [] OTHER -> l.program = s.bridge.command /\ l.address = s.provider

\* What was started under the checkpoint that still stands is what it names.
UnderCheckpoint(l, cp) ==
  (cp # None /\ l.number = cp.number) => l.signed = {cp.roles[l.role].provenance}

IsLaunch(l) ==
  DOMAIN l = {"role", "agent", "target", "signed", "number", "program", "address", "family",
              "ran"}

LaunchIs(l, cp, n, step) ==
  /\ IsLaunch(l) /\ AsSigned(l) /\ UnderCheckpoint(l, cp)
  /\ l.number \in 0..n
  /\ step = "resolve" => l.number < n

\* The process that reads the files and the program that waits for it.
Reads ==
  /\ RunIs(run)
  /\ JobIs(job, checkpoint)

\* What was consumed, started and taken back.
Ledger ==
  /\ consumed \in Nat /\ (job.step = "resolve" => consumed # 0)
  /\ CheckpointIs(checkpoint, consumed, job.step)
  /\ \A l \in launched : LaunchIs(l, checkpoint, consumed, job.step)
  /\ FamiliesDiffer
  /\ AcceptedAsAttested

IInv == Reads /\ Ledger

-----------------------------------------------------------------------------
(* The catalog process *)

\* A process that was just started has read nothing.
LEMMA StartedRun ==
  ASSUME NEW side
  PROVE  RunIs(Started(side))
<1> DEFINE r == Started(side)
<1>1. IsRun(r) /\ r.at = "registry"
  BY DEF Started, IsRun
<1> HIDE DEF r
<1>2. RunIs(r)
  BY <1>1 DEF RunIs
<1> QED
  BY <1>2 DEF r

LEMMA NoRunIs == RunIs(NoRun)
BY DEF RunIs

\* The reader comes to the next entry, or to the end.
LEMMA EntryIs ==
  ASSUME NEW r, NEW i
  PROVE  EntryAt(r, i) \in {"manifest", "adapter", "provider", "done"}
BY DEF EntryAt

LEMMA NextIs ==
  ASSUME NEW r, IsRun(r), Valid(r.reg)
  PROVE  RunIs(NextEntry(r))
<1> DEFINE u == NextEntry(r)
<1>1. IsRun(u) /\ u.reg = r.reg /\ u.at = EntryAt(r.reg, r.next + 1)
  BY DEF NextEntry, IsRun
<1> HIDE DEF u
<1>2. RunIs(u)
  BY <1>1, EntryIs DEF RunIs
<1> QED
  BY <1>2 DEF u

LEMMA RefusedIs ==
  ASSUME RunIs(run), run # NoRun
  PROVE  RunIs(Refused)
<1> DEFINE u == Refused
<1>1. IsRun(u) /\ u.at = "refused"
  BY DEF Refused, RunIs, IsRun
<1> HIDE DEF u
<1>2. RunIs(u)
  BY <1>1 DEF RunIs
<1> QED
  BY <1>2 DEF u

\* Each read of the process keeps the registry it holds.
LEMMA ReadsKeep ==
  ASSUME RunIs(run), CatalogStep
  PROVE  RunIs(run')
<1>1. run # NoRun
  BY DEF CatalogStep, ReadRegistry, ReadManifest, ReadAdapter, ReadCommand, AskProvider, NoRun
<1>2. IsRun(run) /\ (run.at \notin {"registry", "refused"} => Valid(run.reg))
  BY <1>1 DEF RunIs
<1>3. CASE run' = Refused
  BY <1>1, <1>3, RefusedIs
<1>4. CASE ReadRegistry /\ run' # Refused
  <2> DEFINE r == files[Registry]
             u == [run EXCEPT !.reg = r, !.at = EntryAt(r, 1)]
  <2>1. run' = u /\ Valid(r)
    BY <1>4 DEF ReadRegistry
  <2>2. IsRun(u) /\ u.reg = r /\ u.at = EntryAt(r, 1)
    BY <1>2 DEF IsRun
  <2> HIDE DEF u, r
  <2> QED
    BY <2>1, <2>2, EntryIs DEF RunIs
<1>5. CASE ReadManifest /\ run' # Refused
  <2> DEFINE u == [run EXCEPT !.manifest = Append(@, files[Manifest(run.side, Entry.bridge)]),
                              !.at = "adapter"]
  <2>1. run' = u /\ run.at = "manifest"
    BY <1>5 DEF ReadManifest
  <2>2. IsRun(u) /\ u.at = "adapter" /\ u.reg = run.reg
    BY <1>2 DEF IsRun
  <2> HIDE DEF u
  <2> QED
    BY <1>2, <2>1, <2>2 DEF RunIs
<1>6. CASE ReadAdapter /\ run' # Refused
  <2> DEFINE a == IF Entry.adapter = None THEN None ELSE files[Adapter(Entry.adapter)]
             m == IF Entry.bridge = None THEN Append(run.manifest, None) ELSE run.manifest
             seen == [run EXCEPT !.manifest = m, !.contract = Append(@, a)]
             u == [seen EXCEPT !.at = "command"]
  <2>1. run' = (IF Entry.bridge # None THEN u ELSE NextEntry(seen)) /\ run.at = "adapter"
    BY <1>6 DEF ReadAdapter
  <2>2. IsRun(seen) /\ seen.reg = run.reg
    BY <1>2 DEF IsRun
  <2>3. IsRun(u) /\ u.reg = run.reg /\ u.at = "command"
    BY <1>2 DEF IsRun
  <2> HIDE DEF u, seen
  <2>4. RunIs(u)
    BY <1>2, <2>1, <2>3 DEF RunIs
  <2>5. RunIs(NextEntry(seen))
    BY <1>2, <2>1, <2>2, NextIs
  <2> QED
    BY <2>1, <2>4, <2>5
<1>7. CASE ReadCommand /\ run' # Refused
  BY <1>2, <1>7, NextIs DEF ReadCommand
<1>8. CASE AskProvider
  <2> DEFINE u == [run EXCEPT !.provider = Attested(run.side), !.at = "done"]
  <2>1. run' = u /\ run.at = "provider"
    BY <1>8 DEF AskProvider
  <2>2. IsRun(u) /\ u.at = "done" /\ u.reg = run.reg
    BY <1>2 DEF IsRun
  <2> HIDE DEF u
  <2> QED
    BY <1>2, <2>1, <2>2 DEF RunIs
<1> QED
  BY <1>3, <1>4, <1>5, <1>6, <1>7, <1>8 DEF CatalogStep

\* What the answer says of the files it was made of.
LEMMA AnswerIsValid ==
  ASSUME RunIs(run), Sound
  PROVE  Valid(run.reg)
BY DEF Sound, RunIs, NoRun

LEMMA TargetIs ==
  ASSUME NEW id, Target(id) # None
  PROVE  Target(id).id = id /\ "invocation" \in DOMAIN Target(id)
<1> DEFINE t == Target(id)
<1>1. t \in Candidates /\ t.id = id
  BY TargetFacts
<1> HIDE DEF t
<1>2. "invocation" \in DOMAIN t
  BY <1>1, CandidateKinds DEF Like
<1> QED
  BY <1>1, <1>2 DEF t

-----------------------------------------------------------------------------
(* The programs: what each knows when it goes on *)

LEMMA EndIs ==
  ASSUME EndJob
  PROVE  RunIs(run') /\ JobIs(job', checkpoint') /\ job'.step = "idle"
BY DEF EndJob, RunIs, JobIs, NoJob

\* A program that opens with the replay, or unsigned with its target or, a
\* client, with an agent of the registry it read itself, is held to nothing yet.
LEMMA OpeningKeeps ==
  ASSUME NEW j, IsJob(j), j.program # "accept", Opening(j)
  PROVE  RunIs(run') /\ JobIs(job', checkpoint) /\ job'.step # "resolve"
<1>1. CASE EndJob
  BY <1>1 DEF EndJob, RunIs, JobIs, NoJob
<1>2. CASE run' = NoRun /\ ~EndJob
  <2> DEFINE d == AgentOf(j, files[Registry])
             u == [j EXCEPT !.step = "card", !.target = d]
  <2>1. /\ checkpoint = None /\ j.expected = {} /\ d # None /\ job' = u
        /\ j.program = "a2a-client"
    <3>1. run' # Started("project")
      BY <1>2 DEF Started, NoRun
    <3>2. checkpoint = None /\ OwnRegistry(j, files[Registry]) /\ j.expected = {}
          /\ j.program = "a2a-client"
      BY <3>1 DEF Opening, Ask
    <3> QED
      BY <1>2, <3>1, <3>2, Zenon DEF OwnRegistry, Ask
  <2>2. d.invocation = "a2a"
    <3>1. \E e : d = [Candidate(e, "a2a", e.roles) EXCEPT !.id = j.agent, !.endpoint = e.endpoint]
      BY <2>1 DEF AgentOf
    <3> QED
      BY <3>1 DEF Candidate
  <2>3. /\ IsJob(u) /\ u.step = "card" /\ u.target = d /\ u.program = j.program
        /\ u.expected = {}
    BY <2>1 DEF IsJob
  <2> HIDE DEF u, d
  <2>4. JobIs(u, checkpoint)
    BY <2>1, <2>2, <2>3 DEF JobIs, HoldsRemote
  <2> QED
    BY <1>2, <2>1, <2>3, <2>4, NoRunIs
<1>3. CASE run' = Started("project")
  <2>1. PICK u : /\ job' = u /\ IsJob(u) /\ u.program # "accept"
                 /\ u.step = IF checkpoint # None THEN "replay" ELSE "target"
    <3>1. ~EndJob /\ run' # NoRun
      BY <1>3 DEF EndJob, Started, NoRun
    <3>2. CASE checkpoint # None
      BY <3>2 DEF Opening, Ask, IsJob
    <3>3. CASE checkpoint = None
      <4>1. \/ job' = [j EXCEPT !.step = "target"]
            \/ job' = [j EXCEPT !.step = "target", !.early = files[Registry]]
        BY <3>1, <3>3, Zenon DEF Opening, OwnRegistry, Ask
      <4> QED
        BY <3>3, <4>1 DEF IsJob
    <3> QED
      BY <3>2, <3>3
  <2>2. JobIs(u, checkpoint)
    BY <2>1 DEF JobIs
  <2> QED
    BY <1>3, <2>1, <2>2, StartedRun
<1> QED
  BY <1>1, <1>2, <1>3, Zenon DEF Opening, OwnRegistry, Ask, EndJob

LEMMA StartConsumeReads ==
  ASSUME Reads, StartConsume
  PROVE  Reads' /\ job'.step = "resolve"
<1>1. PICK b \in Bindings :
        job' = [Job("consume", None, None) EXCEPT !.step = "resolve", !.early = b]
        /\ run' = Started("project")
  BY DEF StartConsume, Ask
<1> DEFINE u == [Job("consume", None, None) EXCEPT !.step = "resolve", !.early = b]
<1>2. IsJob(u) /\ u.step = "resolve" /\ u.program = "consume"
  BY DEF Job, IsJob
<1> HIDE DEF u
<1>3. JobIs(u, checkpoint) /\ job' = u
  BY <1>1, <1>2 DEF JobIs, u
<1>4. UNCHANGED <<files, checkpoint>>
  BY DEF StartConsume
<1> QED
  BY <1>1, <1>2, <1>3, <1>4, StartedRun DEF Reads

LEMMA StartDispatchReads ==
  ASSUME Reads, StartDispatch
  PROVE  Reads' /\ job'.step # "resolve"
<1>1. PICK q \in Requests : Opening(Job(q.program, q.role, q.agent))
  BY DEF StartDispatch
<1>2. PICK j : j = Job(q.program, q.role, q.agent)
  OBVIOUS
<1>3. IsJob(j) /\ j.program # "accept"
  BY <1>2, RequestsAssumption DEF Job, IsJob
<1>4. RunIs(run') /\ JobIs(job', checkpoint) /\ job'.step # "resolve"
  BY <1>1, <1>2, <1>3, OpeningKeeps
<1>5. UNCHANGED <<files, checkpoint>>
  BY DEF StartDispatch
<1> QED
  BY <1>4, <1>5 DEF Reads

\* After the replay the program is held to what the checkpoint names.
LEMMA FinishReplayReads ==
  ASSUME Reads, FinishReplay \/ ReplayReturn
  PROVE  Reads' /\ job'.step # "resolve"
<1>1. UNCHANGED <<files, checkpoint>>
  BY DEF FinishReplay, ReplayReturn
<1>2. CASE EndJob
  BY <1>1, <1>2, EndIs DEF Reads
<1>3. CASE ~EndJob
  <2> DEFINE u == [job EXCEPT !.step = "target",
                              !.expected = {checkpoint.roles[job.role].provenance}]
  <2>1. Ask(u, "project") /\ job.step = "replay"
    BY <1>3 DEF FinishReplay, ReplayReturn
  <2>2. IsJob(job) /\ (job.program = "accept" => checkpoint # None)
    BY <2>1 DEF Reads, JobIs, NoJob
  <2>3. /\ IsJob(u) /\ u.step = "target" /\ u.program = job.program
        /\ u.role = job.role /\ u.expected = {checkpoint.roles[u.role].provenance}
    BY <2>2 DEF IsJob
  <2>4. job' = u /\ run' = Started("project")
    BY <2>1 DEF Ask
  <2> HIDE DEF u
  <2>5. JobIs(u, checkpoint)
    BY <2>2, <2>3 DEF JobIs
  <2> QED
    BY <1>1, <2>3, <2>4, <2>5, StartedRun DEF Reads
<1> QED
  BY <1>2, <1>3

LEMMA RouteTargetReads ==
  ASSUME Reads, RouteTarget
  PROVE  Reads' /\ job'.step # "resolve"
<1>1. UNCHANGED <<files, checkpoint>>
  BY DEF RouteTarget
<1>2. CASE EndJob
  BY <1>1, <1>2, EndIs DEF Reads
<1>3. CASE ~EndJob
  <2> DEFINE t == Target(job.agent)
  <2>1. job.step = "target" /\ job.program = "dispatch-run" /\ Serves(t)
    BY <1>3 DEF RouteTarget
  <2>2. \/ Opening([job EXCEPT !.program = "sandbox-profile"])
        \/ Opening([job EXCEPT !.program = "a2a-client"])
        \/ /\ t.invocation = "subagent"
           /\ job' = [job EXCEPT !.program = "provider", !.step = "config"] /\ run' = NoRun
    BY <1>3, <2>1 DEF RouteTarget
  <2>3. /\ IsJob(job)
        /\ checkpoint # None => job.expected = {checkpoint.roles[job.role].provenance}
    BY <2>1 DEF Reads, JobIs, NoJob
  <2>5. job.expected \subseteq {t}
    BY <2>1 DEF Serves
  <2> HIDE DEF t
  <2>6. ASSUME NEW p \in {"sandbox-profile", "a2a-client"},
               Opening([job EXCEPT !.program = p])
        PROVE  RunIs(run') /\ JobIs(job', checkpoint) /\ job'.step # "resolve"
    <3> DEFINE j == [job EXCEPT !.program = p]
    <3>1. IsJob(j) /\ j.program # "accept"
      BY <2>3 DEF IsJob
    <3> QED
      BY <2>6, <3>1, OpeningKeeps
  <2>7. ASSUME t.invocation = "subagent",
               job' = [job EXCEPT !.program = "provider", !.step = "config"], run' = NoRun
        PROVE  RunIs(run') /\ JobIs(job', checkpoint) /\ job'.step # "resolve"
    <3> DEFINE u == [job EXCEPT !.program = "provider", !.step = "config"]
    <3>1. /\ IsJob(u) /\ u.step = "config" /\ u.program = "provider"
          /\ u.role = job.role /\ u.expected = job.expected
      BY <2>3 DEF IsJob
    <3> HIDE DEF u
    <3>2. BridgeExpected(u)
      BY <2>5, <2>7, <3>1 DEF BridgeExpected
    <3>3. JobIs(u, checkpoint)
      BY <2>3, <3>1, <3>2 DEF JobIs
    <3>4. job' = u
      BY <2>7 DEF u
    <3> QED
      BY <2>7, <3>1, <3>3, <3>4, NoRunIs
  <2>8. RunIs(run') /\ JobIs(job', checkpoint) /\ job'.step # "resolve"
    BY <2>2, <2>6, <2>7
  <2> QED
    BY <1>1, <2>8 DEF Reads
<1> QED
  BY <1>2, <1>3

LEMMA SandboxTargetReads ==
  ASSUME Reads, SandboxTarget
  PROVE  Reads' /\ job'.step # "resolve"
<1>1. UNCHANGED <<files, checkpoint>>
  BY DEF SandboxTarget
<1>2. CASE EndJob
  BY <1>1, <1>2, EndIs DEF Reads
<1>3. CASE ~EndJob
  <2> DEFINE t == Target(job.agent)
             u == [job EXCEPT !.step = "profile", !.target = t]
  <2>1. /\ job.step = "target" /\ job.program = "sandbox-profile"
        /\ Serves(t) /\ t.invocation = "local-cli" /\ job' = u /\ run' = NoRun
    BY <1>3 DEF SandboxTarget
  <2>2. /\ IsJob(job)
        /\ checkpoint # None => job.expected = {checkpoint.roles[job.role].provenance}
    BY <2>1 DEF Reads, JobIs, NoJob
  <2>3. t.id = job.agent /\ job.expected \subseteq {t} /\ job.role \in t.roles
    BY <2>1, TargetIs DEF Reads, Serves
  <2>4. /\ IsJob(u) /\ u.step = "profile" /\ u.target = t /\ u.program = job.program
        /\ u.role = job.role /\ u.expected = job.expected /\ u.agent = job.agent
    BY <2>2 DEF IsJob
  <2> HIDE DEF u, t
  <2>5. HoldsLocal(u)
    BY <2>1, <2>3, <2>4 DEF HoldsLocal
  <2>6. JobIs(u, checkpoint)
    BY <2>1, <2>2, <2>4, <2>5 DEF JobIs
  <2> QED
    BY <1>1, <2>1, <2>4, <2>6, NoRunIs DEF Reads
<1> QED
  BY <1>2, <1>3

LEMMA ClientTargetReads ==
  ASSUME Reads, ClientTarget
  PROVE  Reads' /\ job'.step # "resolve"
<1>1. UNCHANGED <<files, checkpoint>>
  BY DEF ClientTarget
<1>2. CASE EndJob
  BY <1>1, <1>2, EndIs DEF Reads
<1>3. CASE ~EndJob
  <2> DEFINE t == Target(job.agent)
             d == Descriptor(t)
             u == [job EXCEPT !.step = "card", !.target = d]
  <2>1. /\ job.step = "target" /\ job.program = "a2a-client"
        /\ Serves(t) /\ t.invocation = "a2a" /\ d # None /\ job' = u /\ run' = NoRun
    BY <1>3 DEF ClientTarget, CatalogAllows
  <2>2. /\ IsJob(job)
        /\ checkpoint # None => job.expected = {checkpoint.roles[job.role].provenance}
    BY <2>1 DEF Reads, JobIs, NoJob
  <2>3. /\ t.id = job.agent /\ job.expected \subseteq {t} /\ job.role \in t.roles
        /\ "invocation" \in DOMAIN t
    BY <2>1, TargetIs DEF Reads, Serves
  <2> HIDE DEF t
  <2>4. d.invocation = "a2a" /\ (job.expected # {} => d = t)
    <3>1. CASE d = t
      BY <2>1, <3>1
    <3>2. CASE d # t
      <4>1. d = EarlyTarget(t) /\ job.expected = {} /\ d # None
        BY <2>1, <3>2 DEF Descriptor
      <4> DEFINE r == CHOOSE r \in {x \in job.early.targets : x.id = t.id[2]} : TRUE
                 e == CHOOSE e \in {job.early.entries[i] : i \in 1..Len(job.early.entries)} :
                        e.id = r.integration
      <4>2. d = [t EXCEPT !.endpoint = r.endpoint, !.runner = r.runner, !.tool = e.tool,
                          !.family = e.family, !.integration = e.id]
        BY <4>1 DEF EarlyTarget
      <4> HIDE DEF d, r, e
      <4> QED
        BY <2>1, <2>3, <4>1, <4>2
    <3> QED
      BY <3>1, <3>2
  <2>5. /\ IsJob(u) /\ u.step = "card" /\ u.target = d /\ u.program = job.program
        /\ u.role = job.role /\ u.expected = job.expected /\ u.agent = job.agent
    BY <2>2 DEF IsJob
  <2> HIDE DEF u, d
  <2>6. HoldsRemote(u)
    BY <2>3, <2>4, <2>5 DEF HoldsRemote
  <2>7. JobIs(u, checkpoint)
    BY <2>1, <2>2, <2>5, <2>6 DEF JobIs
  <2> QED
    BY <1>1, <2>1, <2>5, <2>7, NoRunIs DEF Reads
<1> QED
  BY <1>2, <1>3

LEMMA ReadConfigReads ==
  ASSUME Reads, ReadConfig
  PROVE  Reads' /\ job'.step # "resolve"
<1>1. UNCHANGED <<files, checkpoint>>
  BY DEF ReadConfig
<1>2. CASE EndJob
  BY <1>1, <1>2, EndIs DEF Reads
<1>3. CASE ~EndJob
  <2> DEFINE u == [job EXCEPT !.step = "launch-target", !.early = files[Provider]]
  <2>1. job.step = "config" /\ job' = u /\ run' = Started("app")
    BY <1>3 DEF ReadConfig, Ask
  <2>2. /\ IsJob(job) /\ BridgeExpected(job) /\ job.program # "accept"
        /\ checkpoint # None => job.expected = {checkpoint.roles[job.role].provenance}
    BY <2>1 DEF Reads, JobIs, NoJob
  <2>3. /\ IsJob(u) /\ u.step = "launch-target" /\ u.program = job.program
        /\ u.role = job.role /\ u.expected = job.expected
    BY <2>2 DEF IsJob
  <2> HIDE DEF u
  <2>4. BridgeExpected(u)
    BY <2>2, <2>3 DEF BridgeExpected
  <2>5. JobIs(u, checkpoint)
    BY <2>2, <2>3, <2>4 DEF JobIs
  <2> QED
    BY <1>1, <2>1, <2>3, <2>5, StartedRun DEF Reads
<1> QED
  BY <1>2, <1>3

LEMMA LaunchTargetReads ==
  ASSUME Reads, LaunchTarget
  PROVE  Reads' /\ job'.step # "resolve"
<1>1. UNCHANGED <<files, checkpoint>>
  BY DEF LaunchTarget
<1>2. CASE EndJob
  BY <1>1, <1>2, EndIs DEF Reads
<1>3. CASE ~EndJob
  <2>1. job.step = "launch-target" /\ job # NoJob
    BY DEF LaunchTarget, NoJob
  <2>2. /\ IsJob(job) /\ BridgeExpected(job) /\ job.program # "accept"
        /\ checkpoint # None => job.expected = {checkpoint.roles[job.role].provenance}
    BY <2>1 DEF Reads, JobIs
  <2> DEFINE t == Target(job.agent)
             u == [job EXCEPT !.step = "bundle", !.target = t]
  <2>3. job.step = "launch-target" /\ PinnedTarget(t) /\ job' = u /\ run' = NoRun
    BY <1>3 DEF LaunchTarget
  <2>4. t.id = job.agent /\ job.expected = {t} /\ t.provider = job.early.contract
    BY <2>3, TargetIs DEF Reads, PinnedTarget
  <2>5. /\ IsJob(u) /\ u.step = "bundle" /\ u.target = t /\ u.program = job.program
        /\ u.role = job.role /\ u.expected = job.expected /\ u.agent = job.agent
        /\ u.early = job.early
    BY <2>2 DEF IsJob
  <2> HIDE DEF u, t
  <2>6. BridgeExpected(u) /\ HoldsBridge(u)
    BY <2>2, <2>4, <2>5 DEF BridgeExpected, HoldsBridge
  <2>7. JobIs(u, checkpoint)
    BY <2>2, <2>5, <2>6 DEF JobIs
  <2> QED
    BY <1>1, <2>3, <2>5, <2>7, NoRunIs DEF Reads
<1> QED
  BY <1>2, <1>3

LEMMA StartAcceptReads ==
  ASSUME Reads, Ledger, StartAccept
  PROVE  Reads' /\ (job'.step # "resolve" \/ job' = job)
<1>1. UNCHANGED <<files, checkpoint>>
  BY DEF StartAccept
<1>2. CASE UNCHANGED <<job, run>>
  BY <1>1, <1>2 DEF Reads
<1>3. CASE ~UNCHANGED <<job, run>>
  <2>1. PICK l \in launched :
          /\ checkpoint # None /\ run' = Started("project")
          /\ job' = [Job("accept", "generator", None) EXCEPT !.step = "replay", !.launch = l]
    BY <1>3 DEF StartAccept, Ask
  <2> DEFINE u == [Job("accept", "generator", None) EXCEPT !.step = "replay", !.launch = l]
  <2>2. IsJob(u) /\ u.step = "replay"
    BY DEF Job, IsJob
  <2>3. job' = u
    BY <2>1
  <2> HIDE DEF u
  <2>4. JobIs(u, checkpoint)
    BY <2>1, <2>2 DEF JobIs
  <2> QED
    BY <1>1, <2>1, <2>2, <2>3, <2>4, StartedRun DEF Reads
<1> QED
  BY <1>2, <1>3

LEMMA EndsReads ==
  ASSUME Reads, EndJob, UNCHANGED <<files, checkpoint>>
  PROVE  Reads' /\ job'.step # "resolve"
BY EndIs DEF Reads

-----------------------------------------------------------------------------
(* What was consumed, started and taken back *)

\* A step that consumes, starts and takes back nothing.
LEMMA Quiet ==
  ASSUME Ledger, job'.step # "resolve" \/ job' = job,
         UNCHANGED <<checkpoint, consumed, launched, accepted>>
  PROVE  Ledger'
<1>1. CheckpointIs(checkpoint, consumed, job'.step)
  BY DEF Ledger, CheckpointIs
<1>2. \A l \in launched : LaunchIs(l, checkpoint, consumed, job'.step)
  BY DEF Ledger, LaunchIs
<1>3. FamiliesDiffer' /\ AcceptedAsAttested'
  BY DEF Ledger, FamiliesDiffer, AcceptedAsAttested
<1> QED
  BY <1>1, <1>2, <1>3 DEF Ledger

LEMMA StartConsumeLedger ==
  ASSUME Ledger, StartConsume, job'.step = "resolve"
  PROVE  Ledger'
<1>1. consumed' = consumed + 1 /\ UNCHANGED <<checkpoint, launched, accepted>>
  BY DEF StartConsume
<1>2. consumed' \in Nat /\ consumed' # 0
  BY <1>1 DEF Ledger
<1>3. CheckpointIs(checkpoint, consumed', job'.step)
  BY <1>1 DEF Ledger, CheckpointIs
<1>4. \A l \in launched : LaunchIs(l, checkpoint, consumed', job'.step)
  BY <1>1 DEF Ledger, LaunchIs
<1>5. FamiliesDiffer' /\ AcceptedAsAttested'
  BY <1>1 DEF Ledger, FamiliesDiffer, AcceptedAsAttested
<1> QED
  BY <1>1, <1>2, <1>3, <1>4, <1>5 DEF Ledger

\* A new checkpoint is of an intent under which nothing was started yet.
LEMMA FinishConsumeLedger ==
  ASSUME Reads, Ledger, FinishConsume
  PROVE  Reads' /\ Ledger'
<1> DEFINE r == Resolution(job.early)
<1>1. /\ job.step = "resolve" /\ EndJob /\ UNCHANGED <<files, consumed, launched, accepted>>
      /\ checkpoint' = IF r = None THEN checkpoint
                       ELSE [number |-> consumed, binds |-> job.early, roles |-> r]
  BY DEF FinishConsume
<1>2. RunIs(run') /\ JobIs(job', checkpoint') /\ job'.step = "idle"
  BY <1>1, EndIs
<1>3. Reads'
  BY <1>1, <1>2 DEF Reads
<1>4. CASE r = None
  <2>1. UNCHANGED checkpoint
    BY <1>1, <1>4
  <2> QED
    BY <1>1, <1>2, <1>3, <2>1, Quiet
<1>5. CASE r # None
  <2>1. Checked(r)
    BY <1>5, ResolutionChecked, AnswerIsValid DEF Reads
  <2> HIDE DEF r
  <2>2. checkpoint'.number = consumed /\ checkpoint'.roles = r
    BY <1>1, <1>5
  <2>3. CheckpointIs(checkpoint', consumed, "idle")
    BY <1>1, <2>1, <2>2 DEF CheckpointIs, Checked, Ledger
  <2>4. ASSUME NEW l \in launched
        PROVE  LaunchIs(l, checkpoint', consumed, "idle")
    BY <1>1, <2>2 DEF LaunchIs, UnderCheckpoint, Ledger
  <2>5. FamiliesDiffer' /\ AcceptedAsAttested'
    BY <1>1 DEF Ledger, FamiliesDiffer, AcceptedAsAttested
  <2> QED
    BY <1>1, <1>2, <1>3, <2>3, <2>4, <2>5 DEF Ledger
<1> QED
  BY <1>4, <1>5

\* What is started, and what its signature says of it.
New(program, address, family) ==
  [role |-> job.role, agent |-> job.agent, target |-> job.target,
   signed |-> job.expected, number |-> IF checkpoint = None THEN 0 ELSE checkpoint.number,
   program |-> program, address |-> address, family |-> family, ran |-> None]

LEMMA NewFields ==
  ASSUME NEW program, NEW address, NEW family, NEW l, l = New(program, address, family)
  PROVE  /\ IsLaunch(l) /\ l.role = job.role /\ l.agent = job.agent /\ l.target = job.target
         /\ l.signed = job.expected /\ l.program = program /\ l.address = address
         /\ l.family = family /\ l.number = IF checkpoint = None THEN 0 ELSE checkpoint.number
BY DEF New, IsLaunch

LEMMA LaunchLedger ==
  ASSUME Reads, Ledger, job.step \in {"profile", "card", "bundle"},
         NEW l, IsLaunch(l), AsSigned(l), l.role = job.role,
         l.signed = job.expected,
         l.number = (IF checkpoint = None THEN 0 ELSE checkpoint.number),
         launched' = launched \cup {l}, EndJob, UNCHANGED <<files, checkpoint, consumed, accepted>>
  PROVE  Reads' /\ Ledger'
<1>1. Reads' /\ job'.step = "idle"
  BY EndsReads, EndIs
<1>2. checkpoint # None => l.signed = {checkpoint.roles[l.role].provenance}
  BY DEF Reads, JobIs, NoJob
<1>3. LaunchIs(l, checkpoint, consumed, "idle")
  <2>1. l.number \in 0..consumed
    BY DEF Ledger, CheckpointIs
  <2> QED
    BY <1>2, <2>1 DEF LaunchIs, UnderCheckpoint
<1>4. \A m \in launched : LaunchIs(m, checkpoint, consumed, "idle")
  BY DEF Ledger, LaunchIs
<1>5. \A m \in launched \cup {l} : LaunchIs(m, checkpoint, consumed, "idle")
  BY <1>3, <1>4
<1>6. ASSUME NEW g \in launched \cup {l}, NEW e \in launched \cup {l},
             g.number = e.number, g.number # 0, g.role = "generator", e.role = "evaluator"
      PROVE  g.family # e.family
  <2>1. CASE g \in launched /\ e \in launched
    BY <1>6, <2>1 DEF Ledger, FamiliesDiffer
  <2>2. CASE g = l \/ e = l
    <3>1. checkpoint # None /\ g.number = checkpoint.number
      BY <1>6, <2>2
    <3>2. /\ g.signed = {checkpoint.roles["generator"].provenance}
          /\ e.signed = {checkpoint.roles["evaluator"].provenance}
      BY <1>5, <1>6, <3>1 DEF LaunchIs, UnderCheckpoint
    <3>3. /\ g.family = checkpoint.roles["generator"].provenance.family
          /\ e.family = checkpoint.roles["evaluator"].provenance.family
      <4>1. AsSigned(g) /\ AsSigned(e)
        BY <1>5 DEF LaunchIs
      <4> QED
        BY <3>2, <4>1 DEF AsSigned
    <3> QED
      BY <3>1, <3>3 DEF Ledger, CheckpointIs
  <2> QED
    BY <2>1, <2>2
<1>7. FamiliesDiffer'
  BY <1>6 DEF FamiliesDiffer
<1>8. AcceptedAsAttested'
  BY DEF Ledger, AcceptedAsAttested
<1>9. CheckpointIs(checkpoint, consumed, "idle")
  BY DEF Ledger, CheckpointIs
<1> QED
  BY <1>1, <1>5, <1>7, <1>8, <1>9 DEF Ledger

LEMMA ReadProfileKeeps ==
  ASSUME Reads, Ledger, ReadProfile
  PROVE  Reads' /\ Ledger'
<1> DEFINE t == job.target
           a == files[Adapter(t.adapter.name)]
           l == New(a.argv, t.home, a.family)
<1>1. /\ job.step = "profile" /\ EndJob
      /\ UNCHANGED <<files, checkpoint, consumed, accepted>>
      /\ launched' = launched \/ (launched' = launched \cup {l} /\ Loads(t, a) /\ a = t.adapter)
  BY DEF ReadProfile, Launch, New
<1>2. HoldsLocal(job)
  BY <1>1 DEF Reads, JobIs, NoJob
<1>3. CASE launched' = launched
  BY <1>1, <1>3, EndsReads, Quiet
<1>4. CASE launched' = launched \cup {l} /\ Loads(t, a) /\ a = t.adapter
  <2>0. l = New(a.argv, t.home, a.family) /\ t = job.target
    OBVIOUS
  <2>1. a.family = t.family /\ a.argv = t.adapter.argv
    BY <1>4 DEF Loads
  <2> HIDE DEF l, a, t
  <2>2. /\ IsLaunch(l) /\ l.role = job.role /\ l.agent = job.agent /\ l.target = t
        /\ l.signed = job.expected /\ l.program = a.argv /\ l.address = t.home
        /\ l.family = a.family /\ l.number = IF checkpoint = None THEN 0 ELSE checkpoint.number
    BY <2>0, NewFields
  <2>3. AsSigned(l)
    BY <1>2, <2>0, <2>1, <2>2 DEF AsSigned, HoldsLocal
  <2> QED
    BY <1>1, <1>4, <2>2, <2>3, LaunchLedger
<1> QED
  BY <1>1, <1>3, <1>4

LEMMA CommissionKeeps ==
  ASSUME Reads, Ledger, Commission
  PROVE  Reads' /\ Ledger'
<1> DEFINE d == job.target
           c == cards[d.endpoint]
           l == New(None, d.endpoint, IF d.runner = None THEN d.family ELSE c.family)
<1>1. /\ job.step = "card" /\ EndJob
      /\ UNCHANGED <<files, checkpoint, consumed, accepted>>
      /\ launched' = launched \/ (launched' = launched \cup {l} /\ CardFits(d, c))
  BY DEF Commission, Launch, New
<1>2. HoldsRemote(job)
  BY <1>1 DEF Reads, JobIs, NoJob
<1>3. CASE launched' = launched
  BY <1>1, <1>3, EndsReads, Quiet
<1>4. CASE launched' = launched \cup {l} /\ CardFits(d, c)
  <2>0. l = New(None, d.endpoint, IF d.runner = None THEN d.family ELSE c.family) /\ d = job.target
    OBVIOUS
  <2> HIDE DEF l, c, d
  <2>1. /\ IsLaunch(l) /\ l.role = job.role /\ l.agent = job.agent /\ l.target = d
        /\ l.signed = job.expected /\ l.address = d.endpoint
        /\ l.family = (IF d.runner = None THEN d.family ELSE c.family)
        /\ l.number = IF checkpoint = None THEN 0 ELSE checkpoint.number
    BY <2>0, NewFields
  <2>2. l.family = d.family
    BY <1>4, <2>1 DEF CardFits
  <2>3. AsSigned(l)
    BY <1>2, <2>0, <2>1, <2>2 DEF AsSigned, HoldsRemote
  <2> QED
    BY <1>1, <1>4, <2>1, <2>3, LaunchLedger
<1> QED
  BY <1>1, <1>3, <1>4

LEMMA SnapshotBundleKeeps ==
  ASSUME Reads, Ledger, SnapshotBundle
  PROVE  Reads' /\ Ledger'
<1> DEFINE t == job.target
           p == files[Provider]
           l == New(p.command, job.early.contract, t.family)
<1>1. /\ job.step = "bundle" /\ EndJob
      /\ UNCHANGED <<files, checkpoint, consumed, accepted>>
      /\ launched' = launched
           \/ (launched' = launched \cup {l} /\ BundleServes(p) /\ job.role \in t.roles)
  BY DEF SnapshotBundle, Launch, New
<1>2. BridgeExpected(job) /\ HoldsBridge(job)
  BY <1>1 DEF Reads, JobIs, NoJob
<1>3. CASE launched' = launched
  BY <1>1, <1>3, EndsReads, Quiet
<1>4. CASE launched' = launched \cup {l} /\ BundleServes(p) /\ job.role \in t.roles
  <2>0. l = New(p.command, job.early.contract, t.family) /\ t = job.target
    OBVIOUS
  <2>1. p.command = t.bridge.command
    BY <1>4 DEF BundleServes
  <2> HIDE DEF l, p, t
  <2>2. /\ IsLaunch(l) /\ l.role = job.role /\ l.agent = job.agent /\ l.target = t
        /\ l.signed = job.expected /\ l.program = p.command /\ l.address = job.early.contract
        /\ l.family = t.family
        /\ l.number = IF checkpoint = None THEN 0 ELSE checkpoint.number
    BY <2>0, NewFields
  <2>3. AsSigned(l)
    BY <1>2, <1>4, <2>0, <2>1, <2>2 DEF AsSigned, HoldsBridge, BridgeExpected
  <2> QED
    BY <1>1, <1>4, <2>2, <2>3, LaunchLedger
<1> QED
  BY <1>1, <1>3, <1>4

\* Running changes of a launch only what ran.
LEMMA RunRemotelyKeeps ==
  ASSUME Reads, Ledger, RunRemotely
  PROVE  Reads' /\ Ledger'
<1>1. PICK l \in launched : \E f :
        launched' = (launched \ {l}) \cup {[l EXCEPT !.ran = f]}
  BY DEF RunRemotely
<1>2. PICK f : launched' = (launched \ {l}) \cup {[l EXCEPT !.ran = f]}
  BY <1>1
<1>3. UNCHANGED <<files, run, checkpoint, consumed, job, accepted>>
  BY DEF RunRemotely, catalogVars
<1> DEFINE n == [l EXCEPT !.ran = f]
<1>4. LaunchIs(l, checkpoint, consumed, job.step)
  BY DEF Ledger
<1>5. /\ IsLaunch(n) /\ n.role = l.role /\ n.agent = l.agent /\ n.target = l.target
      /\ n.signed = l.signed /\ n.number = l.number /\ n.program = l.program
      /\ n.address = l.address /\ n.family = l.family
  BY <1>4 DEF LaunchIs, IsLaunch
<1> HIDE DEF n
<1>6. LaunchIs(n, checkpoint, consumed, job.step)
  BY <1>4, <1>5 DEF LaunchIs, AsSigned, UnderCheckpoint
<1>7. launched' \subseteq launched \cup {n}
  BY <1>2 DEF n
<1>8. \A m \in launched' : LaunchIs(m, checkpoint, consumed, job.step)
  BY <1>6, <1>7 DEF Ledger
<1>9. \A m \in launched' : \E k \in launched :
        m.number = k.number /\ m.role = k.role /\ m.family = k.family
  BY <1>5, <1>7
<1>10. FamiliesDiffer'
  BY <1>9 DEF Ledger, FamiliesDiffer
<1>11. Reads' /\ AcceptedAsAttested'
  BY <1>3 DEF Reads, Ledger, AcceptedAsAttested
<1> QED
  BY <1>3, <1>8, <1>10, <1>11 DEF Ledger

\* An unsigned return carries no signature to differ from.
LEMMA StartAcceptLedger ==
  ASSUME Reads, Ledger, StartAccept
  PROVE  Reads' /\ Ledger'
<1>1. Reads' /\ (job'.step # "resolve" \/ job' = job)
  BY StartAcceptReads
<1>2. UNCHANGED <<checkpoint, consumed, launched>>
  BY DEF StartAccept
<1>3. \A a \in accepted' : a \in accepted \/ a.signed = {}
  BY DEF StartAccept
<1>4. AcceptedAsAttested'
  BY <1>3 DEF Ledger, AcceptedAsAttested
<1>5. CheckpointIs(checkpoint, consumed, job'.step)
  BY <1>1 DEF Ledger, CheckpointIs
<1>6. \A l \in launched : LaunchIs(l, checkpoint, consumed, job'.step)
  BY <1>1 DEF Ledger, LaunchIs
<1>7. FamiliesDiffer'
  BY <1>2 DEF Ledger, FamiliesDiffer
<1> QED
  BY <1>1, <1>2, <1>4, <1>5, <1>6, <1>7 DEF Ledger

\* For a bridge only its own attested work is taken.
LEMMA AcceptReturnKeeps ==
  ASSUME Reads, Ledger, AcceptReturn
  PROVE  Reads' /\ Ledger'
<1>1. /\ job.step = "target" /\ job.program = "accept" /\ EndJob
      /\ UNCHANGED <<files, checkpoint, consumed, launched>>
  BY DEF AcceptReturn
<1>2. Reads' /\ job'.step = "idle"
  BY <1>1, EndsReads, EndIs
<1>3. CASE accepted' = accepted
  BY <1>1, <1>2, <1>3, Quiet
<1>4. CASE accepted' # accepted
  <2> DEFINE l == job.launch
  <2>1. PICK record \in job.expected, meta \in RunMeta : LET t == Target(record.id) IN
          /\ Taken(meta, l, record, t)
          /\ accepted' = accepted \cup {[launch |-> l, route |-> RouteOf(t),
                                         signed |-> job.expected]}
    BY <1>4 DEF AcceptReturn
  <2> DEFINE t == Target(record.id)
             a == [launch |-> l, route |-> RouteOf(t), signed |-> job.expected]
  <2>2. job.expected = {record}
    BY <1>1, <2>1 DEF Reads, JobIs, NoJob
  <2>3. Taken(meta, l, record, t) /\ accepted' = accepted \cup {a}
    BY <2>1
  <2>4. a.launch = l /\ a.route = RouteOf(t) /\ a.signed = {record}
    BY <2>2
  <2> HIDE DEF t, l, a
  <2>5. ASSUME External(record)
        PROVE  /\ RouteOf(t) = "external-bridge"
               /\ l.target = record /\ l.signed = {record}
               /\ l.program = record.bridge.command /\ l.address = record.provider
    <3>1. /\ record.invocation \notin {"local-cli", "a2a"}
          /\ RouteOf(t) = "local-cli" => t.invocation = "local-cli"
      BY <2>5 DEF External, RouteOf
    <3>2. External(t) /\ ReceiptFits(meta, l, record, t)
      BY <2>3, <3>1 DEF Taken, Classified
    <3>3. l \in launched /\ l.signed = {record}
      BY <2>1, <3>2 DEF ReceiptFits, RunMeta
    <3>4. AsSigned(l)
      BY <3>3 DEF Ledger, LaunchIs
    <3> QED
      BY <3>1, <3>2, <3>3, <3>4 DEF External, AsSigned
  <2>6. \A s \in a.signed : External(s) =>
          /\ a.route = "external-bridge"
          /\ a.launch.target = s /\ a.launch.signed = {s}
          /\ a.launch.program = s.bridge.command /\ a.launch.address = s.provider
    BY <2>4, <2>5
  <2>7. AcceptedAsAttested'
    BY <2>3, <2>6 DEF Ledger, AcceptedAsAttested
  <2>8. CheckpointIs(checkpoint, consumed, "idle")
    BY DEF Ledger, CheckpointIs
  <2>9. \A m \in launched : LaunchIs(m, checkpoint, consumed, "idle")
    BY DEF Ledger, LaunchIs
  <2>10. FamiliesDiffer'
    BY <1>1 DEF Ledger, FamiliesDiffer
  <2> QED
    BY <1>1, <1>2, <2>7, <2>8, <2>9, <2>10 DEF Ledger
<1> QED
  BY <1>3, <1>4

-----------------------------------------------------------------------------
(* The theorems *)

\* The invariant holds at first and is kept by every step.
LEMMA Initially == Init => IInv
<1> SUFFICES ASSUME Init PROVE IInv
  OBVIOUS
<1>2. Reads
  BY NoRunIs DEF Init, CatalogInit, Reads, JobIs
<1>3. Ledger
  BY DEF Init, Ledger, CheckpointIs, FamiliesDiffer, AcceptedAsAttested, NoJob
<1> QED
  BY <1>2, <1>3 DEF IInv

LEMMA Inductive == IInv /\ [Next]_vars => IInv'
<1> SUFFICES ASSUME IInv, [Next]_vars PROVE IInv'
  OBVIOUS
<1> USE DEF IInv
<1>1. CASE UNCHANGED vars
  <2>1. UNCHANGED <<files, run, checkpoint, consumed, job, launched, accepted>>
    BY <1>1 DEF vars, catalogVars, routeVars
  <2>2. Reads'
    BY <2>1 DEF Reads
  <2> QED
    BY <2>1, <2>2, Quiet
<1>2. CASE Edit /\ UNCHANGED routeVars
  <2>1. UNCHANGED <<run, checkpoint, consumed, job, launched, accepted>>
    BY <1>2 DEF Edit, routeVars
  <2>2. Reads'
    BY <2>1 DEF Reads
  <2> QED
    BY <2>1, <2>2, Quiet
<1>3. CASE CatalogStep /\ UNCHANGED routeVars
  <2>1. UNCHANGED <<files, checkpoint, consumed, job, launched, accepted>>
    BY <1>3 DEF CatalogStep, ReadRegistry, ReadManifest, ReadAdapter, ReadCommand, AskProvider,
                routeVars
  <2>2. Reads'
    BY <1>3, <2>1, ReadsKeep DEF Reads
  <2> QED
    BY <2>1, <2>2, Quiet
<1>4. CASE StartConsume
  BY <1>4, StartConsumeReads, StartConsumeLedger
<1>5. CASE FinishConsume
  BY <1>5, FinishConsumeLedger
<1>6. CASE StartDispatch
  <2>1. UNCHANGED <<checkpoint, consumed, launched, accepted>>
    BY <1>6 DEF StartDispatch
  <2> QED
    BY <1>6, <2>1, StartDispatchReads, Quiet
<1>7. CASE FinishReplay \/ ReplayReturn
  <2>1. UNCHANGED <<checkpoint, consumed, launched, accepted>>
    BY <1>7 DEF FinishReplay, ReplayReturn
  <2> QED
    BY <1>7, <2>1, FinishReplayReads, Quiet
<1>8. CASE RouteTarget
  <2>1. UNCHANGED <<checkpoint, consumed, launched, accepted>>
    BY <1>8 DEF RouteTarget
  <2> QED
    BY <1>8, <2>1, RouteTargetReads, Quiet
<1>9. CASE SandboxTarget
  <2>1. UNCHANGED <<checkpoint, consumed, launched, accepted>>
    BY <1>9 DEF SandboxTarget
  <2> QED
    BY <1>9, <2>1, SandboxTargetReads, Quiet
<1>10. CASE ReadProfile
  BY <1>10, ReadProfileKeeps
<1>11. CASE ClientTarget
  <2>1. UNCHANGED <<checkpoint, consumed, launched, accepted>>
    BY <1>11 DEF ClientTarget
  <2> QED
    BY <1>11, <2>1, ClientTargetReads, Quiet
<1>12. CASE Commission
  BY <1>12, CommissionKeeps
<1>13. CASE StartRunner
  <2>1. UNCHANGED <<files, run, checkpoint, consumed, job, launched, accepted>>
    BY <1>13 DEF StartRunner, catalogVars
  <2>2. Reads'
    BY <2>1 DEF Reads
  <2> QED
    BY <2>1, <2>2, Quiet
<1>14. CASE RunRemotely
  BY <1>14, RunRemotelyKeeps
<1>15. CASE ReadConfig
  <2>1. UNCHANGED <<checkpoint, consumed, launched, accepted>>
    BY <1>15 DEF ReadConfig
  <2> QED
    BY <1>15, <2>1, ReadConfigReads, Quiet
<1>16. CASE LaunchTarget
  <2>1. UNCHANGED <<checkpoint, consumed, launched, accepted>>
    BY <1>16 DEF LaunchTarget
  <2> QED
    BY <1>16, <2>1, LaunchTargetReads, Quiet
<1>17. CASE SnapshotBundle
  BY <1>17, SnapshotBundleKeeps
<1>18. CASE StartAccept
  BY <1>18, StartAcceptLedger
<1>19. CASE AcceptReturn
  BY <1>19, AcceptReturnKeeps
<1> QED
  BY <1>1, <1>2, <1>3, <1>4, <1>5, <1>6, <1>7, <1>8, <1>9, <1>10, <1>11, <1>12, <1>13, <1>14,
     <1>15, <1>16, <1>17, <1>18, <1>19 DEF Next

\* The files, the reader, the programs and the ledger fit together at all times.
THEOREM Invariance == Spec => []IInv
BY Initially, Inductive, PTL DEF Spec

\* However the files change between the reads of the many programs on the way,
\* what is started for a signed role is what the intent was resolved to.
THEOREM LaunchIsSigned == Spec => []LaunchedAsSigned
<1>1. IInv => LaunchedAsSigned
  BY DEF IInv, Ledger, LaunchIs, AsSigned, LaunchedAsSigned
<1> QED
  BY <1>1, Invariance, PTL

\* The Generator and the Evaluator of one checkpoint never show one family.
THEOREM EvaluatorIsARival == Spec => []FamiliesDiffer
<1>1. IInv => FamiliesDiffer
  BY DEF IInv, Ledger
<1> QED
  BY <1>1, Invariance, PTL

\* For a Generator that the standing intent gives to a bridge nothing is accepted
\* but that bridge's work in the execution that was signed, whatever run metadata
\* and whichever attestation come with it.
THEOREM AcceptedIsAttested == Spec => []AcceptedAsAttested
<1>1. IInv => AcceptedAsAttested
  BY DEF IInv, Ledger
<1> QED
  BY <1>1, Invariance, PTL

=============================================================================
