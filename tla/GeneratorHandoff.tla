-------------------------- MODULE GeneratorHandoff --------------------------
(***************************************************************************)
(* The way of one feature from the main checkout to an external generator  *)
(* and back: dispatch-generator-handoff.sh and sandbox-profile.sh, which   *)
(* commission it, run the agent in a clone and report;                     *)
(* accept-generator-handoff.sh, which checks what came back and commits    *)
(* it; and the others who write to the main checkout, approve-gate.sh      *)
(* among them.                                                             *)
(*                                                                         *)
(* A commit is its place in the log, a file one of a few contents. The     *)
(* Coordinator waits for the commands it runs; dispatches may overlap,     *)
(* and a human may decide a gate at any time.                              *)
(***************************************************************************)
EXTENDS Naturals, Sequences

CONSTANTS
  Tasks,        (* task ids                                                 *)
  Features,
  Paths,        (* source files; the handoff itself is not one of them      *)
  Contents,
  Original,     (* what every file holds at first                           *)
  Dispatchers,  (* runs of dispatch-generator-handoff.sh                    *)
  NoTask, NoHandoff, NoEnvelope, TornEnvelope, NoMeta,
  Other, Gate,  (* authors of commits that are no task                      *)
  MaxCommits    (* bound: commits beyond which only tasks and gates commit  *)

Trees == [Paths -> Contents]

(* generator-handoff.json. Its bytes change when a tool rewrites it.       *)
Handoffs == [feature : Features, files : SUBSET Paths, waiting : BOOLEAN, rewritten : BOOLEAN]
(* What the commissioning envelope fixes: repo.ref and the feature.        *)
Envelopes == [ref : Nat \ {0}, feature : Features]

ASSUME ContentsAssumption   == Original \in Contents /\ Contents # {Original}
ASSUME AuthorsAssumption    == Other \notin Tasks /\ Gate \notin Tasks /\ Other # Gate
ASSUME MaxCommitsAssumption == MaxCommits \in Nat
ASSUME AbsentAssumption     ==
  /\ NoHandoff \notin Handoffs /\ NoTask \notin Tasks
  /\ NoEnvelope \notin Envelopes /\ TornEnvelope \notin Envelopes /\ NoEnvelope # TornEnvelope

VARIABLES
  log,   (* the commits of the main checkout; HEAD is the last              *)
  main,  (* its index: source files and copied handoffs                     *)
  gate,  (* progress.json: a pending gate, its decision edited in, staged   *)
  env,   (* [Tasks -> envelope-<task>.json]                                 *)
  meta,  (* [Tasks -> run-meta-<task>.json]                                 *)
  box,   (* [Tasks -> the clone the agent works in]                         *)
  disp,  (* [Dispatchers -> the run]                                        *)
  acc    (* the run of accept-generator-handoff.sh                          *)

vars == <<log, main, gate, env, meta, box, disp, acc>>

Tip == Len(log)
Checkout(n) == [tree |-> log[n].tree, audits |-> log[n].audits]

(* git status --porcelain says nothing. *)
Clean == main = Checkout(Tip) /\ gate \notin {"edited", "staged"}

NoBox   == [there |-> FALSE, base |-> 1, moved |-> FALSE, tree |-> [p \in Paths |-> Original],
            hand |-> NoHandoff, told |-> NoEnvelope]
NotRun  == [pc |-> "idle", task |-> NoTask, env |-> NoEnvelope, outcome |-> "FAILED", code |-> 2]
Resting == [pc |-> "idle", task |-> NoTask, apply |-> FALSE, env |-> NoEnvelope,
            hand |-> NoHandoff, patch |-> [p \in Paths |-> Original], refused |-> FALSE]

(* TIMEOUT is CANCELED as well; TORN is a file that does not parse. *)
Outcomes    == {"RETURNED", "ARTIFACT_MISSING", "FAILED", "TIMEOUT", "TORN"}
DispatchPCs == {"idle", "write", "profile", "clone", "launch", "agent", "meta", "receipt", "done"}
AcceptPCs   == {"idle", "base", "diff", "l1", "rediff", "recheck", "apply", "audit", "staged", "commit"}
Audits      == [Tasks -> Handoffs \cup {NoHandoff}]

TypeOK ==
  /\ log \in Seq([by : Tasks \cup {Other, Gate}, tree : Trees, audits : Audits])
  /\ Tip > 0
  /\ main \in [tree : Trees, audits : Audits]
  /\ gate \in {"none", "pending", "edited", "staged"}
  /\ env \in [Tasks -> Envelopes \cup {NoEnvelope, TornEnvelope}]
  /\ \A t \in Tasks : env[t] \in Envelopes => env[t].ref <= Tip
  /\ meta \in [Tasks -> [outcome : Outcomes, ref : Nat] \cup {NoMeta}]
  /\ box \in [Tasks -> [there : BOOLEAN, base : 1..Tip, moved : BOOLEAN, tree : Trees,
                        hand : Handoffs \cup {NoHandoff},
                        told : Envelopes \cup {NoEnvelope, TornEnvelope}]]
  /\ disp \in [Dispatchers -> [pc : DispatchPCs, task : Tasks \cup {NoTask},
                               env : Envelopes \cup {NoEnvelope},
                               outcome : Outcomes, code : {0, 2, 3, 4}]]
  /\ acc \in [pc : AcceptPCs, task : Tasks \cup {NoTask}, apply : BOOLEAN,
              env : Envelopes \cup {NoEnvelope}, hand : Handoffs \cup {NoHandoff}, patch : Trees,
              refused : BOOLEAN]

Init ==
  /\ log = <<[by |-> Other, tree |-> [p \in Paths |-> Original],
              audits |-> [t \in Tasks |-> NoHandoff]]>>
  /\ main = Checkout(1)
  /\ gate = "none"
  /\ env = [t \in Tasks |-> NoEnvelope]
  /\ meta = [t \in Tasks |-> NoMeta]
  /\ box = [t \in Tasks |-> NoBox]
  /\ disp = [d \in Dispatchers |-> NotRun]
  /\ acc = Resting

-----------------------------------------------------------------------------
(* dispatch-generator-handoff.sh, and sandbox-profile.sh within it. The    *)
(* envelope is read again by each of them: for the clone, for the agent,   *)
(* for the receipt.                                                        *)

MainUnchanged == UNCHANGED <<log, main, gate, acc>>

Done(d, code) == [disp EXCEPT ![d] = [NotRun EXCEPT !.pc = "done", !.task = disp[d].task,
                                                    !.code = code]]

(* HEAD is the ref; a task id that has an envelope or a receipt is used.   *)
Commission(d, t, f) ==
  /\ disp[d].pc = "idle"
  /\ env[t] = NoEnvelope /\ meta[t] = NoMeta
  /\ disp' = [disp EXCEPT ![d].pc = "write", ![d].task = t,
                          ![d].env = [ref |-> Tip, feature |-> f]]
  /\ UNCHANGED <<env, meta, box>> /\ MainUnchanged

(* A second run that passed the test together with this one overwrites.    *)
WriteEnvelope(d) ==
  /\ disp[d].pc = "write"
  /\ env' = [env EXCEPT ![disp[d].task] = disp[d].env]
  /\ disp' = [disp EXCEPT ![d].pc = "profile"]
  /\ UNCHANGED <<meta, box>> /\ MainUnchanged

(* validate-dispatch.sh refuses an envelope that does not parse. *)
ReadProfile(d) ==
  /\ disp[d].pc = "profile"
  /\ disp' = IF env[disp[d].task] \in Envelopes
             THEN [disp EXCEPT ![d].pc = "clone", ![d].env = env[disp[d].task]]
             ELSE Done(d, 2)
  /\ UNCHANGED <<env, meta, box>> /\ MainUnchanged

(* A clone that is there already ends the run of the sandbox, not that of  *)
(* its caller, who goes on to whatever receipt there is.                   *)
BugCloneOver(d) ==
  /\ disp[d].pc = "clone"
  /\ LET t == disp[d].task e == disp[d].env IN
       /\ box' = [box EXCEPT ![t] =
            [NoBox EXCEPT !.there = TRUE, !.base = e.ref, !.tree = log[e.ref].tree]]
       /\ disp' = [disp EXCEPT ![d].pc = "launch"]
  /\ UNCHANGED <<env, meta>> /\ MainUnchanged

Clone(d) ==
  /\ disp[d].pc = "clone"
  /\ LET t == disp[d].task e == disp[d].env IN
       IF box[t].there
       THEN /\ disp' = [disp EXCEPT ![d].pc = "receipt"]
            /\ UNCHANGED box
       ELSE /\ disp' = [disp EXCEPT ![d].pc = "launch"]
            /\ box' = [box EXCEPT ![t] =
                 [NoBox EXCEPT !.there = TRUE, !.base = e.ref, !.tree = log[e.ref].tree]]
  /\ UNCHANGED <<env, meta>> /\ MainUnchanged

Launch(d) ==
  /\ disp[d].pc = "launch"
  /\ box' = [box EXCEPT ![disp[d].task].told = env[disp[d].task]]
  /\ disp' = [disp EXCEPT ![d].pc = "agent"]
  /\ UNCHANGED <<env, meta>> /\ MainUnchanged

(* The agent names the feature it was told. Everything else may be wrong:  *)
(* it may commit in its clone, list other files than it changed, stop with *)
(* a question, be killed halfway.                                          *)
AgentEnds(d, outcome, moved, changed, files, waiting) ==
  LET t == disp[d].task
      told == box[t].told
      c == CHOOSE c \in Contents : c # Original
  IN
  /\ disp[d].pc = "agent"
  /\ told \in Envelopes \/ outcome # "RETURNED"
  /\ box' = [box EXCEPT
       ![t].moved = moved,
       ![t].tree = [p \in Paths |-> IF p \in changed THEN c ELSE box[t].tree[p]],
       ![t].hand = IF outcome \in {"RETURNED", "TIMEOUT"} /\ told \in Envelopes
                   THEN [feature |-> told.feature, files |-> files, waiting |-> waiting,
                         rewritten |-> FALSE]
                   ELSE NoHandoff]
  /\ disp' = [disp EXCEPT ![d].pc = "meta", ![d].outcome = outcome]
  /\ UNCHANGED <<env, meta>> /\ MainUnchanged

WriteMeta(d) ==
  /\ disp[d].pc = "meta"
  /\ meta' = [meta EXCEPT ![disp[d].task] =
       [outcome |-> disp[d].outcome, ref |-> disp[d].env.ref]]
  /\ disp' = [disp EXCEPT ![d].pc = "receipt"]
  /\ UNCHANGED <<env, box>> /\ MainUnchanged

(* validate-generator-handoff.sh: what is complete lists the commissioned  *)
(* feature and its files; what waits may.                                  *)
Valid(h, e) ==
  /\ h \in Handoffs /\ e \in Envelopes
  /\ h.files # {} => h.feature = e.feature
  /\ ~h.waiting => h.files # {}

(* validate-dispatch.sh receipt, as the exit code of the dispatch.         *)
ExitCode(m, h, e) ==
  IF m = NoMeta THEN 2
  ELSE IF m.outcome # "RETURNED" \/ ~Valid(h, e) THEN 4
  ELSE IF h.waiting THEN 3
  ELSE 0

Report(d) ==
  /\ disp[d].pc = "receipt"
  /\ LET t == disp[d].task IN
       disp' = Done(d, ExitCode(meta[t], box[t].hand, env[t]))
  /\ UNCHANGED <<env, meta, box>> /\ MainUnchanged

(* Killed: a file it was writing is cut short. *)
KillDispatch(d) ==
  /\ disp[d].pc \notin {"idle", "done"}
  /\ disp' = Done(d, 2)
  /\ \/ UNCHANGED <<env, meta>>
     \/ /\ disp[d].pc = "write"
        /\ env' = [env EXCEPT ![disp[d].task] = TornEnvelope]
        /\ UNCHANGED meta
     \/ /\ disp[d].pc = "meta"
        /\ meta' = [meta EXCEPT ![disp[d].task] = [outcome |-> "TORN", ref |-> disp[d].env.ref]]
        /\ UNCHANGED env
  /\ UNCHANGED box /\ MainUnchanged

-----------------------------------------------------------------------------
(* accept-generator-handoff.sh.                                            *)

DispatchUnchanged == UNCHANGED <<env, meta, disp>>

Goto(pc) == acc' = [acc EXCEPT !.pc = pc]
Refuse == acc' = [Resting EXCEPT !.refused = TRUE]
End == acc' = Resting
Check(ok, pc) ==
  /\ IF ok THEN Goto(pc) ELSE Refuse
  /\ UNCHANGED <<log, main, gate, box>> /\ DispatchUnchanged

(* A handoff a dispatch exited 0 for. Envelope, handoff and metadata are   *)
(* read here; the commands after that never look at the envelope again.    *)
StartAccept(t, apply) ==
  /\ acc.pc = "idle"
  /\ \E d \in Dispatchers : disp[d].pc = "done" /\ disp[d].task = t /\ disp[d].code = 0
  /\ box[t].there
  /\ Valid(box[t].hand, env[t]) /\ box[t].hand.files # {}
  /\ meta[t] # NoMeta /\ meta[t].outcome = "RETURNED" /\ meta[t].ref = env[t].ref
  /\ acc' = [Resting EXCEPT !.pc = "base", !.task = t, !.apply = apply,
                            !.env = env[t], !.hand = box[t].hand]
  /\ UNCHANGED <<log, main, gate, box>> /\ DispatchUnchanged

AtBase(e) == Clean /\ Tip = e.ref

CheckBase ==
  /\ acc.pc = "base"
  /\ Check(AtBase(acc.env) /\ ~box[acc.task].moved /\ box[acc.task].base = acc.env.ref, "diff")

(* git diff of the clone against the ref. *)
Changed(t) == {p \in Paths : box[t].tree[p] # log[acc.env.ref].tree[p]}

FirstDiff ==
  /\ acc.pc = "diff"
  /\ Check(Changed(acc.task) = acc.hand.files, "l1")

(* lint, typecheck and test run in the clone: they fail, or pass, and may  *)
(* rewrite files of the clone, the handoff among them.                     *)
RunL1(changed, c, rewritten) ==
  /\ acc.pc = "l1"
  /\ box' = [box EXCEPT
       ![acc.task].tree = [p \in Paths |-> IF p \in changed THEN c ELSE box[acc.task].tree[p]],
       ![acc.task].hand.rewritten = rewritten \/ box[acc.task].hand.rewritten]
  /\ Goto("rediff") \/ Refuse
  /\ UNCHANGED <<log, main, gate>> /\ DispatchUnchanged

SecondDiff ==
  /\ acc.pc = "rediff"
  /\ acc' = IF Changed(acc.task) # acc.hand.files THEN [Resting EXCEPT !.refused = TRUE]
            ELSE IF acc.apply THEN [acc EXCEPT !.pc = "recheck", !.patch = box[acc.task].tree]
            ELSE Resting
  /\ UNCHANGED <<log, main, gate, box>> /\ DispatchUnchanged

Recheck ==
  /\ acc.pc = "recheck"
  /\ Check(AtBase(acc.env), "apply")

(* git apply --check --index, then git apply --index: the index must hold  *)
(* what the patch starts from. It also refuses for whitespace.             *)
Apply ==
  /\ acc.pc = "apply"
  /\ LET from == log[acc.env.ref].tree
         patched == {p \in Paths : acc.patch[p] # from[p]}
     IN \/ /\ \A p \in patched : main.tree[p] = from[p]
           /\ main' = [main EXCEPT !.tree =
                [p \in Paths |-> IF p \in patched THEN acc.patch[p] ELSE main.tree[p]]]
           /\ Goto("audit")
        \/ Refuse /\ UNCHANGED main
  /\ UNCHANGED <<log, gate, box>> /\ DispatchUnchanged

(* The handoff as it now is, copied and staged, if there is none yet.      *)
KeepAudit ==
  /\ acc.pc = "audit"
  /\ IF main.audits[acc.task] = NoHandoff
     THEN main' = [main EXCEPT !.audits[acc.task] = box[acc.task].hand] /\ Goto("staged")
     ELSE Refuse /\ UNCHANGED main
  /\ UNCHANGED <<log, gate, box>> /\ DispatchUnchanged

(* git diff --cached --name-only: the declared files and the handoff.      *)
BugNoStagedCheck == TRUE

StagedAsDeclared ==
  /\ {p \in Paths : main.tree[p] # log[Tip].tree[p]} = acc.hand.files
  /\ {t \in Tasks : main.audits[t] # log[Tip].audits[t]} = {acc.task}
  /\ gate # "staged"

(* It refuses for whitespace in what is staged, too.                       *)
CheckStaged ==
  /\ acc.pc = "staged"
  /\ \E tidy \in BOOLEAN : Check(StagedAsDeclared /\ tidy, "commit")

(* git commit takes the whole index. *)
Committed(who) == log' = Append(log, [by |-> who, tree |-> main.tree, audits |-> main.audits])

(* It fails with nothing to commit, and when a hook says so.               *)
Commit ==
  /\ acc.pc = "commit"
  /\ \/ /\ main # Checkout(Tip) \/ gate = "staged"
        /\ Committed(acc.task)
        /\ gate' = IF gate = "staged" THEN "none" ELSE gate
        /\ End
     \/ Refuse /\ UNCHANGED <<log, gate>>
  /\ UNCHANGED <<main, box>> /\ DispatchUnchanged

KillAccept ==
  /\ acc.pc # "idle"
  /\ End
  /\ UNCHANGED <<log, main, gate, box>> /\ DispatchUnchanged

-----------------------------------------------------------------------------
(* The others. The Coordinator works between two runs of the acceptor;     *)
(* approve-gate.sh is run by a human, and its commit takes what is staged. *)

OthersUnchanged == UNCHANGED <<env, meta, disp, acc>>

CommitOther(p, c) ==
  /\ acc.pc = "idle" /\ Clean /\ Tip < MaxCommits
  /\ c # main.tree[p]
  /\ main' = [main EXCEPT !.tree[p] = c]
  /\ log' = Append(log, [by |-> Other, tree |-> main'.tree, audits |-> main.audits])
  /\ UNCHANGED <<gate, box>> /\ OthersUnchanged

RaiseGate ==
  /\ acc.pc = "idle" /\ Clean /\ gate = "none" /\ Tip < MaxCommits
  /\ gate' = "pending"
  /\ Committed(Other)
  /\ UNCHANGED <<main, box>> /\ OthersUnchanged

EditGate ==
  /\ gate = "pending"
  /\ gate' = "edited"
  /\ UNCHANGED <<log, main, box>> /\ OthersUnchanged

(* Its guard refuses: the file is put back. *)
AbandonGate ==
  /\ gate = "edited"
  /\ gate' = "pending"
  /\ UNCHANGED <<log, main, box>> /\ OthersUnchanged

StageGate ==
  /\ gate = "edited"
  /\ gate' = "staged"
  /\ UNCHANGED <<log, main, box>> /\ OthersUnchanged

CommitGate ==
  /\ gate = "staged"
  /\ gate' = "none"
  /\ Committed(Gate)
  /\ UNCHANGED <<main, box>> /\ OthersUnchanged

(* What a refused or killed acceptance left is thrown away. *)
Restore ==
  /\ acc.pc = "idle" /\ main # Checkout(Tip)
  /\ main' = Checkout(Tip)
  /\ UNCHANGED <<log, gate, box>> /\ OthersUnchanged

(* The clone of a task that landed is removed. *)
RemoveClone(t) ==
  /\ acc.pc = "idle" /\ box[t].there
  /\ \E n \in 1..Tip : log[n].by = t
  /\ box' = [box EXCEPT ![t] = NoBox]
  /\ UNCHANGED <<log, main, gate>> /\ OthersUnchanged

DispatchStep(d) ==
  \/ \E t \in Tasks, f \in Features : Commission(d, t, f)
  \/ WriteEnvelope(d) \/ ReadProfile(d) \/ Clone(d) \/ Launch(d)
  \/ \E outcome \in Outcomes \ {"TORN"}, moved, waiting \in BOOLEAN, changed, files \in SUBSET Paths :
       AgentEnds(d, outcome, moved, changed, files, waiting)
  \/ WriteMeta(d) \/ Report(d) \/ KillDispatch(d)

AcceptStep ==
  \/ \E t \in Tasks, apply \in BOOLEAN : StartAccept(t, apply)
  \/ CheckBase \/ FirstDiff
  \/ \E changed \in SUBSET Paths, c \in Contents, rewritten \in BOOLEAN : RunL1(changed, c, rewritten)
  \/ SecondDiff \/ Recheck \/ Apply \/ KeepAudit \/ CheckStaged \/ Commit
  \/ KillAccept

OthersStep ==
  \/ \E p \in Paths, c \in Contents : CommitOther(p, c)
  \/ RaiseGate \/ EditGate \/ AbandonGate \/ StageGate \/ CommitGate \/ Restore
  \/ \E t \in Tasks : RemoveClone(t)

Next == (\E d \in Dispatchers : DispatchStep(d)) \/ AcceptStep \/ OthersStep

Spec == Init /\ [][Next]_vars

-----------------------------------------------------------------------------
Lands(t) == Len(log') > Tip /\ log'[Len(log')].by = t

(* What the acceptor commits of source files and audit copies is what was  *)
(* reviewed. It sits on its source: the tree of HEAD is that of the        *)
(* envelope's ref and of the clone's base, whatever was committed since    *)
(* the dispatch (the two HEAD checks). Of the source it changes exactly    *)
(* the files of the handoff it validated, and it brings the first audit    *)
(* copy of that handoff: L1 tools and commits of a gate in between         *)
(* notwithstanding (the second diff, the check of what is staged; the copy *)
(* is read again after L1, so that it may be one a tool rewrote). It was   *)
(* made for the feature it is accepted for, although dispatches of one     *)
(* task id overwrite each other's envelope between its readers. And it     *)
(* asks for no human: only the exit code of the dispatch keeps such a      *)
(* handoff from the acceptor, which does not look. Of progress.json this   *)
(* says nothing: see LandsNothingElse.                                     *)
LandsAsReviewed == [][
  \A t \in Tasks : Lands(t) =>
    LET landed == log'[Len(log')] IN
    /\ box[t].base = acc.env.ref
    /\ log[Tip].tree = log[acc.env.ref].tree
    /\ {p \in Paths : landed.tree[p] # log[Tip].tree[p]} = acc.hand.files
    /\ log[Tip].audits[t] = NoHandoff
    /\ landed.audits[t] \in {acc.hand, [acc.hand EXCEPT !.rewritten = TRUE]}
    /\ box[t].told \in Envelopes /\ box[t].told.feature = acc.env.feature
    /\ ~acc.hand.waiting ]_vars

(* The header of the acceptor: it commits the one commissioned feature     *)
(* plus the exact handoff JSON. Not so of progress.json: its commit takes  *)
(* the whole index, and a decision that approve-gate.sh stages after the   *)
(* list of what is staged was compared lands with the feature.             *)
LandsNothingElse == [][\A t \in Tasks : Lands(t) => gate # "staged"]_vars

(* Nor was it told another ref. This holds for two dispatches and not for  *)
(* three: one that slept since an older HEAD writes its envelope after the *)
(* clone was made and before the agent is told, and the third, of the same *)
(* feature as that, writes the clone's again.                              *)
LandsAsTold == [][\A t \in Tasks : Lands(t) => box[t].told = acc.env]_vars

(* From the moment its clone is compared to the commit, no agent works on  *)
(* the task: a second dispatch that slept through the first finds the      *)
(* clone, or a HEAD that moved.                                            *)
NoAgentUnderReview ==
  acc.pc \notin {"idle", "base"} =>
    \A d \in Dispatchers : ~(disp[d].pc = "agent" /\ disp[d].task = acc.task)

(* dispatch-mode.md says of the acceptor that a failure does not touch the *)
(* main checkout. Not so: the last checks and the commit come after the    *)
(* patch is applied and staged, and what fails there leaves it so.         *)
RefusalKeepsMain == acc.refused => main = Checkout(Tip)

=============================================================================
