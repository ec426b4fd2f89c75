---------------------- MODULE GeneratorHandoff_proofs ----------------------
(***************************************************************************)
(* What lands is what was reviewed, for any number of task ids, dispatches *)
(* and files. The argument is about time: an envelope is commissioned at   *)
(* HEAD and only while its task has no file, so every envelope of a task   *)
(* that landed names a commit before that, and the comparison with HEAD    *)
(* turns a second review away. Until then the clone was made once, for one *)
(* agent, and the handoff it left does not change but by the tools' hand.  *)
(***************************************************************************)
EXTENDS GeneratorHandoff, TLAPS

-----------------------------------------------------------------------------
(* The inductive invariant *)

Landed(t) == \E n \in 1..Tip : log[n].by = t

\* An envelope names a commit there is, and one before its task landed: it is
\* commissioned at HEAD, and never again once there is a file of it.
Older(e, t) ==
  e \in Envelopes => e.ref \in 1..Tip /\ \A n \in 1..Tip : log[n].by = t => e.ref < n

Refs ==
  /\ \A t \in Tasks : Older(env[t], t) /\ (Landed(t) => env[t] # NoEnvelope)
  /\ \A d \in Dispatchers : Older(disp[d].env, disp[d].task)
  /\ Older(acc.env, acc.task)

Running ==
  \A d \in Dispatchers :
    /\ disp[d].pc # "idle" => disp[d].task \in Tasks
    /\ disp[d].pc \in {"write", "clone", "launch", "agent", "meta"} => disp[d].env \in Envelopes

\* The dispatches that are in the clone of a task.
Inside(d, t) == disp[d].task = t /\ disp[d].pc \in {"launch", "agent"}

\* Until its task lands a clone is made once, for one agent, which leaves it with
\* a handoff that stays.
Boxes ==
  \A t \in Tasks :
    ~Landed(t) =>
      /\ \A d, e \in Dispatchers : Inside(d, t) /\ Inside(e, t) => d = e
      /\ \A d \in Dispatchers : Inside(d, t) => box[t].there /\ box[t].hand = NoHandoff
      /\ \A d \in Dispatchers :
           disp[d].pc = "done" /\ disp[d].task = t /\ disp[d].code = 0 =>
             box[t].hand \in Handoffs /\ ~box[t].hand.waiting
      /\ box[t].hand \in Handoffs =>
           /\ box[t].there
           /\ box[t].told \in Envelopes /\ box[t].told.feature = box[t].hand.feature

\* The handoff under review is the one that was read, a tool's hand apart.
Copies(h) == {h, [h EXCEPT !.rewritten = TRUE]}

Reviewed ==
  /\ acc.task \in Tasks /\ acc.env \in Envelopes /\ env[acc.task] # NoEnvelope
  /\ acc.hand \in Handoffs /\ acc.hand.files # {} /\ acc.hand.feature = acc.env.feature
  /\ box[acc.task].there
  /\ ~Landed(acc.task) => box[acc.task].hand \in Copies(acc.hand) /\ ~acc.hand.waiting

\* HEAD as the acceptor found it, or as a gate's commit of its index left it.
Base == Checkout(acc.env.ref)
Patched == {p \in Paths : main.tree[p] # log[Tip].tree[p]}

\* What acceptor, index and HEAD have to do with each other on the way.
Indexed ==
  /\ acc.pc \in {"diff", "l1", "rediff", "recheck", "apply"} => main = Base /\ main = Checkout(Tip)
  /\ acc.pc = "audit" => main.audits = Base.audits
  /\ acc.pc \in {"audit", "staged"} => Checkout(Tip) = Base \/ log[Tip].tree = main.tree
  /\ acc.pc \in {"staged", "commit"} =>
       Base.audits[acc.task] = NoHandoff /\ main.audits[acc.task] \in Copies(acc.hand)
  /\ acc.pc = "commit" =>
       \/ Checkout(Tip) = Base /\ Patched = acc.hand.files
       \/ Checkout(Tip) = main /\ gate = "none"

Accepting ==
  acc.pc # "idle" =>
    /\ Reviewed
    /\ acc.pc # "base" => ~Landed(acc.task) /\ box[acc.task].base = acc.env.ref
    /\ Indexed

IInv == TypeOK /\ Refs /\ Running /\ Boxes /\ Accepting

-----------------------------------------------------------------------------
(* The shapes *)

Commits == [by : Tasks \cup {Other, Gate}, tree : Trees, audits : Audits]
Indexes == [tree : Trees, audits : Audits]
Box == [there : BOOLEAN, base : 1..Tip, moved : BOOLEAN, tree : Trees,
        hand : Handoffs \cup {NoHandoff}, told : Envelopes \cup {NoEnvelope, TornEnvelope}]
Run == [pc : DispatchPCs, task : Tasks \cup {NoTask}, env : Envelopes \cup {NoEnvelope},
        outcome : Outcomes, code : {0, 2, 3, 4}]
Review == [pc : AcceptPCs, task : Tasks \cup {NoTask}, apply : BOOLEAN,
           env : Envelopes \cup {NoEnvelope}, hand : Handoffs \cup {NoHandoff}, patch : Trees,
           refused : BOOLEAN]

LEMMA Shapes ==
  ASSUME TypeOK
  PROVE  /\ log \in Seq(Commits) /\ Tip \in Nat \ {0} /\ main \in Indexes
         /\ \A n \in 1..Tip : log[n] \in Commits
         /\ disp \in [Dispatchers -> Run] /\ box \in [Tasks -> Box] /\ acc \in Review
         /\ env \in [Tasks -> Envelopes \cup {NoEnvelope, TornEnvelope}]
<1>1. /\ log \in Seq(Commits) /\ main \in Indexes /\ disp \in [Dispatchers -> Run]
      /\ box \in [Tasks -> Box] /\ acc \in Review
      /\ env \in [Tasks -> Envelopes \cup {NoEnvelope, TornEnvelope}]
  BY DEF TypeOK, Commits, Indexes, Box, Run, Review
<1>2. Tip \in Nat \ {0}
  BY <1>1 DEF TypeOK, Tip
<1>3. \A n \in 1..Tip : log[n] \in Commits
  BY <1>1 DEF Tip
<1> QED
  BY <1>1, <1>2, <1>3

LEMMA Plain ==
  /\ [p \in Paths |-> Original] \in Trees
  /\ NoBox.hand = NoHandoff /\ NoBox.there = FALSE /\ NoBox.told = NoEnvelope
  /\ Resting \in Review /\ Resting.pc = "idle" /\ Resting.env = NoEnvelope
  /\ NotRun \in Run
BY ContentsAssumption DEF Trees, NoBox, Resting, NotRun, Review, Run, AcceptPCs, DispatchPCs, Outcomes

LEMMA BoxIs ==
  ASSUME TypeOK
  PROVE  NoBox \in Box
BY Plain, Shapes DEF NoBox, Box

-----------------------------------------------------------------------------
(* The log *)

LEMMA LogGrows ==
  ASSUME TypeOK, NEW r \in Commits, log' = Append(log, r)
  PROVE  /\ log' \in Seq(Commits) /\ Tip' = Tip + 1 /\ Tip' \in Nat \ {0} /\ log'[Tip'] = r
         /\ \A n \in 1..Tip : log'[n] = log[n] /\ n \in 1..Tip' /\ Tip' # n
         /\ \A n \in 1..Tip' : n \in 1..Tip \/ n = Tip'
BY Shapes DEF Tip

\* A commit comes after every envelope there is, whoever it is by.
LEMMA OlderStays ==
  ASSUME TypeOK, NEW r \in Commits, log' = Append(log, r), NEW t, NEW e, Older(e, t)
  PROVE  Older(e, t)'
<1>1. SUFFICES ASSUME e \in Envelopes
               PROVE  e.ref \in 1..Tip' /\ \A n \in 1..Tip' : log'[n].by = t => e.ref < n
  BY DEF Older
<1>2. e.ref \in 1..Tip /\ \A n \in 1..Tip : log[n].by = t => e.ref < n
  BY <1>1 DEF Older
<1>3. Tip \in Nat
  BY Shapes
<1>4. /\ Tip' = Tip + 1 /\ \A n \in 1..Tip : log'[n] = log[n]
      /\ \A n \in 1..Tip' : n \in 1..Tip \/ n = Tip'
  BY LogGrows
<1>5. e.ref \in Nat /\ e.ref <= Tip
  BY <1>2, <1>3
<1>6. ASSUME NEW n \in 1..Tip', log'[n].by = t
      PROVE  e.ref < n
  <2>1. CASE n \in 1..Tip
    <3>1. log[n].by = t
      BY <1>4, <1>6, <2>1
    <3> QED
      BY <1>2, <2>1, <3>1
  <2>2. CASE n = Tip'
    BY <1>3, <1>4, <1>5, <2>2
  <2> QED
    BY <1>4, <2>1, <2>2
<1>7. e.ref \in 1..Tip'
  BY <1>2, <1>3, <1>4
<1> QED
  BY <1>6, <1>7

LEMMA LandedIs ==
  ASSUME TypeOK, NEW r \in Commits, log' = Append(log, r), NEW t
  PROVE  Landed(t)' <=> Landed(t) \/ r.by = t
<1>1. ASSUME Landed(t)'
      PROVE  Landed(t) \/ r.by = t
  BY <1>1, LogGrows DEF Landed
<1>2. ASSUME Landed(t) \/ r.by = t
      PROVE  Landed(t)'
  <2>1. CASE Landed(t)
    <3>1. PICK n \in 1..Tip : log[n].by = t
      BY <2>1 DEF Landed
    <3> QED
      BY <3>1, LogGrows DEF Landed
  <2>2. CASE r.by = t
    <3>1. Tip' \in Nat \ {0} /\ log'[Tip'] = r
      BY LogGrows
    <3>2. Tip' \in 1..Tip' /\ log'[Tip'].by = t
      BY <2>2, <3>1
    <3> QED
      BY <3>2 DEF Landed
  <2> QED
    BY <1>2, <2>1, <2>2
<1> QED
  BY <1>1, <1>2

LEMMA LogRests ==
  ASSUME UNCHANGED log
  PROVE  /\ Tip' = Tip /\ Box' = Box
         /\ \A t : Landed(t)' <=> Landed(t)
         /\ \A e, t : Older(e, t)' <=> Older(e, t)
         /\ \A n : Checkout(n)' = Checkout(n)
BY DEF Tip, Box, Landed, Older, Checkout


-----------------------------------------------------------------------------
(* A step of a dispatch *)

\* What a run may become.
Fits(r) ==
  /\ r \in Run /\ Older(r.env, r.task)
  /\ r.pc # "idle" => r.task \in Tasks
  /\ r.pc \in {"write", "clone", "launch", "agent", "meta"} => r.env \in Envelopes

\* What it leaves to the acceptor: a task keeps its envelope, a clone its base
\* and, until it lands, its handoff.
Leaves ==
  /\ env' \in [Tasks -> Envelopes \cup {NoEnvelope, TornEnvelope}]
  /\ \A t \in Tasks : Older(env'[t], t) /\ (env[t] # NoEnvelope => env'[t] # NoEnvelope)
  /\ meta' \in [Tasks -> [outcome : Outcomes, ref : Nat] \cup {NoMeta}]
  /\ box' \in [Tasks -> Box]
  /\ \A t \in Tasks :
       /\ box[t].there => box'[t].there /\ box'[t].base = box[t].base
       /\ ~Landed(t) /\ box[t].hand \in Handoffs => box'[t].hand = box[t].hand

LEMMA RunIs ==
  ASSUME IInv, NEW d \in Dispatchers
  PROVE  Fits(disp[d])
BY Shapes DEF IInv, Refs, Running, Fits

LEMMA RunBecomes ==
  ASSUME IInv, NEW d \in Dispatchers, NEW r \in Run, disp' = [disp EXCEPT ![d] = r]
  PROVE  /\ disp' \in [Dispatchers -> Run] /\ disp'[d] = r
         /\ \A e \in Dispatchers : e # d => disp'[e] = disp[e]
<1>1. disp \in [Dispatchers -> Run]
  BY Shapes DEF IInv
<1> QED
  BY <1>1

LEMMA EnvIs ==
  ASSUME IInv, NEW t \in Tasks
  PROVE  /\ env[t] \in Envelopes \cup {NoEnvelope, TornEnvelope} /\ Older(env[t], t)
         /\ Landed(t) => env[t] # NoEnvelope
BY Shapes DEF IInv, Refs

LEMMA NothingLeft ==
  ASSUME IInv, UNCHANGED <<env, meta, box>>
  PROVE  Leaves
<1>1. TypeOK
  BY DEF IInv
<1>2. meta \in [Tasks -> [outcome : Outcomes, ref : Nat] \cup {NoMeta}]
  BY <1>1 DEF TypeOK
<1> QED
  BY <1>1, <1>2, Shapes, EnvIs DEF Leaves

LEMMA DispatchInvariant ==
  ASSUME IInv, NEW d \in Dispatchers, NEW r, Fits(r), disp' = [disp EXCEPT ![d] = r],
         MainUnchanged, Leaves, Boxes'
  PROVE  IInv'
<1>1. /\ UNCHANGED <<log, main, gate, acc>> /\ TypeOK
      /\ Tip' = Tip /\ Box' = Box
      /\ \A t : Landed(t)' <=> Landed(t)
      /\ \A e, t : Older(e, t)' <=> Older(e, t)
      /\ \A n : Checkout(n)' = Checkout(n)
  BY LogRests DEF MainUnchanged, IInv
<1>2. /\ disp' \in [Dispatchers -> Run] /\ disp'[d] = r
      /\ \A e \in Dispatchers : e # d => disp'[e] = disp[e]
  BY RunBecomes DEF Fits
<1>3. \A t \in Tasks : env'[t] \in Envelopes => env'[t].ref <= Tip
  <2>1. SUFFICES ASSUME NEW t \in Tasks, env'[t] \in Envelopes
                 PROVE  env'[t].ref <= Tip
    OBVIOUS
  <2>2. env'[t].ref \in 1..Tip
    BY <2>1 DEF Leaves, Older
  <2>3. Tip \in Nat
    BY <1>1, Shapes
  <2> QED
    BY <2>2, <2>3
<1>4. TypeOK'
  <2>1. disp' \in [Dispatchers -> [pc : DispatchPCs, task : Tasks \cup {NoTask},
                                   env : Envelopes \cup {NoEnvelope},
                                   outcome : Outcomes, code : {0, 2, 3, 4}]]
    BY <1>2 DEF Run
  <2>2. box' \in [Tasks -> [there : BOOLEAN, base : 1..Tip, moved : BOOLEAN, tree : Trees,
                            hand : Handoffs \cup {NoHandoff},
                            told : Envelopes \cup {NoEnvelope, TornEnvelope}]]
    BY DEF Leaves, Box
  <2> QED
    BY <1>1, <1>3, <2>1, <2>2 DEF TypeOK, Leaves
<1>5. Refs'
  <2>1. \A t \in Tasks : Older(env'[t], t) /\ (Landed(t) => env'[t] # NoEnvelope)
    BY EnvIs DEF Leaves
  <2>2. \A e \in Dispatchers : Older(disp'[e].env, disp'[e].task)
    BY <1>2 DEF IInv, Refs, Fits
  <2>3. Older(acc.env, acc.task)
    BY DEF IInv, Refs
  <2>4. \A t \in Tasks : Older(env[t], t)'
    BY <1>1, <2>1 DEF Older
  <2>5. \A e \in Dispatchers : Older(disp[e].env, disp[e].task)'
    BY <1>1, <2>2 DEF Older
  <2>6. Older(acc.env, acc.task)'
    BY <1>1, <2>3 DEF Older
  <2> QED
    BY <1>1, <2>1, <2>4, <2>5, <2>6 DEF Refs
<1>6. Running'
  BY <1>2 DEF IInv, Running, Fits
<1>7. Accepting'
  <2>1. SUFFICES ASSUME acc.pc # "idle"
                 PROVE  /\ Reviewed'
                        /\ acc.pc # "base" => ~Landed(acc.task) /\ box'[acc.task].base = acc.env.ref
                        /\ Indexed'
    BY <1>1 DEF Accepting
  <2>2. /\ Reviewed /\ Indexed
        /\ acc.pc # "base" => ~Landed(acc.task) /\ box[acc.task].base = acc.env.ref
    BY <2>1 DEF IInv, Accepting
  <2>3. acc.task \in Tasks /\ acc.hand \in Handoffs /\ box[acc.task].there
    BY <2>2 DEF Reviewed
  <2>4. /\ env'[acc.task] # NoEnvelope
        /\ box'[acc.task].there /\ box'[acc.task].base = box[acc.task].base
        /\ ~Landed(acc.task) /\ box[acc.task].hand \in Handoffs =>
             box'[acc.task].hand = box[acc.task].hand
    BY <2>2, <2>3 DEF Leaves, Reviewed
  <2>5. \A h \in Copies(acc.hand) : h \in Handoffs
    BY <2>3 DEF Copies, Handoffs
  <2>6. Reviewed'
    BY <1>1, <2>2, <2>3, <2>4, <2>5 DEF Reviewed, Copies
  <2>7. Indexed'
    BY <1>1, <2>2 DEF Indexed, Base, Patched, Checkout, Copies, Tip
  <2> QED
    BY <2>2, <2>4, <2>6, <2>7
<1> QED
  BY <1>4, <1>5, <1>6, <1>7 DEF IInv

\* A step outside the clones: nobody enters one, and what is reported is so.
LEMMA BoxesStay ==
  ASSUME IInv, NEW d \in Dispatchers, NEW r \in Run, disp' = [disp EXCEPT ![d] = r],
         UNCHANGED <<log, box>>,
         r.pc \in {"launch", "agent"} =>
           disp[d].pc \in {"launch", "agent"} /\ r.task = disp[d].task,
         r.pc = "done" /\ r.code = 0 /\ ~Landed(r.task) =>
           box[r.task].hand \in Handoffs /\ ~box[r.task].hand.waiting
  PROVE  Boxes'
<1>1. SUFFICES ASSUME NEW t \in Tasks, ~Landed(t)
      PROVE
      /\ \A c, e \in Dispatchers : Inside(c, t)' /\ Inside(e, t)' => c = e
      /\ \A e \in Dispatchers : Inside(e, t)' => box[t].there /\ box[t].hand = NoHandoff
      /\ \A e \in Dispatchers :
           disp'[e].pc = "done" /\ disp'[e].task = t /\ disp'[e].code = 0 =>
             box[t].hand \in Handoffs /\ ~box[t].hand.waiting
      /\ box[t].hand \in Handoffs =>
           /\ box[t].there
           /\ box[t].told \in Envelopes /\ box[t].told.feature = box[t].hand.feature
  <2>1. \A t : Landed(t)' <=> Landed(t)
    BY LogRests
  <2> QED
    BY <1>1, <2>1 DEF Boxes, Inside
<1>2. disp'[d] = r /\ \A e \in Dispatchers : e # d => disp'[e] = disp[e]
  BY RunBecomes
<1>3. \A e \in Dispatchers : Inside(e, t)' => Inside(e, t)
  BY <1>2 DEF Inside
<1> QED
  BY <1>1, <1>2, <1>3 DEF IInv, Boxes

\* A step that only moves the run, outside the clones.
LEMMA PlainStep ==
  ASSUME IInv, NEW d \in Dispatchers, NEW r, Fits(r), disp' = [disp EXCEPT ![d] = r],
         MainUnchanged, Leaves, UNCHANGED box, r.pc \notin {"launch", "agent"},
         r.pc = "done" /\ r.code = 0 /\ ~Landed(r.task) =>
           box[r.task].hand \in Handoffs /\ ~box[r.task].hand.waiting
  PROVE  IInv'
<1>1. r \in Run /\ UNCHANGED log
  BY DEF Fits, MainUnchanged
<1>2. Boxes'
  BY <1>1, BoxesStay
<1> QED
  BY <1>2, DispatchInvariant

Ended(d, code) == [NotRun EXCEPT !.pc = "done", !.task = disp[d].task, !.code = code]

LEMMA DoneFits ==
  ASSUME IInv, NEW d \in Dispatchers, disp[d].pc # "idle", NEW code \in {0, 2, 3, 4}
  PROVE  /\ Fits(Ended(d, code)) /\ Ended(d, code).pc = "done"
         /\ Ended(d, code).task = disp[d].task /\ Ended(d, code).code = code
<1> DEFINE r == Ended(d, code)
<1>1. disp[d].task \in Tasks
  BY DEF IInv, Running
<1>2. /\ r \in Run /\ r.env = NoEnvelope /\ r.pc = "done" /\ r.task = disp[d].task
      /\ r.code = code
  BY <1>1 DEF Ended, NotRun, Run, DispatchPCs, Outcomes
<1> HIDE DEF r
<1>3. Older(NoEnvelope, r.task)
  BY AbsentAssumption DEF Older
<1>4. Fits(r)
  BY <1>1, <1>2, <1>3 DEF Fits
<1> QED
  BY <1>2, <1>4 DEF r

LEMMA CommissionInvariant ==
  ASSUME IInv, NEW d \in Dispatchers, NEW t \in Tasks, NEW f \in Features, Commission(d, t, f)
  PROVE  IInv'
<1> DEFINE e == [ref |-> Tip, feature |-> f]
           r == [disp[d] EXCEPT !.pc = "write", !.task = t, !.env = e]
<1>1. /\ disp[d] \in Run /\ env[t] = NoEnvelope /\ MainUnchanged /\ UNCHANGED <<env, meta, box>>
      /\ disp' = [disp EXCEPT ![d] = r]
  BY RunIs DEF Commission, Fits
<1>2. e \in Envelopes /\ e.ref = Tip /\ Tip \in 1..Tip
  BY Shapes DEF IInv, Envelopes
<1>3. ~Landed(t)
  BY <1>1, EnvIs
<1>4. Older(e, t)
  BY <1>2, <1>3 DEF Older, Landed
<1> HIDE DEF e
<1>5. r \in Run /\ r.pc = "write" /\ r.task = t /\ r.env = e
  BY <1>1, <1>2 DEF Run, DispatchPCs
<1> HIDE DEF r
<1>6. Fits(r)
  BY <1>2, <1>4, <1>5 DEF Fits
<1> QED
  BY <1>1, <1>5, <1>6, NothingLeft, PlainStep

LEMMA WriteEnvelopeInvariant ==
  ASSUME IInv, NEW d \in Dispatchers, WriteEnvelope(d)
  PROVE  IInv'
<1> DEFINE r == [disp[d] EXCEPT !.pc = "profile"]
           u == disp[d].task
<1>1. /\ MainUnchanged /\ UNCHANGED <<meta, box>> /\ disp[d].pc = "write"
      /\ env' = [env EXCEPT ![u] = disp[d].env] /\ disp' = [disp EXCEPT ![d] = r]
  BY DEF WriteEnvelope
<1>2. /\ Fits(disp[d]) /\ u \in Tasks /\ disp[d].env \in Envelopes /\ Older(disp[d].env, u)
      /\ disp[d] \in Run
  BY <1>1, RunIs DEF Fits
<1>3. r \in Run /\ r.pc = "profile" /\ r.task = u /\ r.env = disp[d].env
  BY <1>2 DEF Run, DispatchPCs
<1> HIDE DEF r
<1>4. Fits(r)
  BY <1>2, <1>3 DEF Fits
<1>5. Leaves
  <2>1. /\ env \in [Tasks -> Envelopes \cup {NoEnvelope, TornEnvelope}]
        /\ box \in [Tasks -> Box]
        /\ meta \in [Tasks -> [outcome : Outcomes, ref : Nat] \cup {NoMeta}]
    BY Shapes DEF IInv, TypeOK
  <2>2. \A t \in Tasks : env'[t] = IF t = u THEN disp[d].env ELSE env[t]
    BY <1>1, <2>1
  <2>3. env' \in [Tasks -> Envelopes \cup {NoEnvelope, TornEnvelope}]
    BY <1>1, <1>2, <2>1
  <2>4. \A t \in Tasks : Older(env'[t], t)
    BY <1>2, <2>2, EnvIs
  <2>5. \A t \in Tasks : env[t] # NoEnvelope => env'[t] # NoEnvelope
    BY <1>2, <2>2, AbsentAssumption
  <2> QED
    BY <1>1, <2>1, <2>3, <2>4, <2>5 DEF Leaves
<1> QED
  BY <1>1, <1>3, <1>4, <1>5, PlainStep

LEMMA ReadProfileInvariant ==
  ASSUME IInv, NEW d \in Dispatchers, ReadProfile(d)
  PROVE  IInv'
<1> DEFINE u == disp[d].task
           go == [disp[d] EXCEPT !.pc = "clone", !.env = env[u]]
           stop == Ended(d, 2)
<1>1. /\ MainUnchanged /\ UNCHANGED <<env, meta, box>> /\ disp[d].pc = "profile"
      /\ IF env[u] \in Envelopes THEN disp' = [disp EXCEPT ![d] = go]
         ELSE disp' = [disp EXCEPT ![d] = stop]
  BY DEF ReadProfile, Done, Ended
<1>2. Fits(disp[d]) /\ u \in Tasks /\ disp[d] \in Run /\ Older(env[u], u)
  BY <1>1, RunIs, EnvIs DEF Fits
<1>3. CASE env[u] \in Envelopes
  <2>1. go \in Run /\ go.pc = "clone" /\ go.task = u /\ go.env = env[u]
    BY <1>2, <1>3 DEF Run, DispatchPCs
  <2>2. disp' = [disp EXCEPT ![d] = go]
    BY <1>1, <1>3
  <2> HIDE DEF go
  <2>3. Fits(go)
    BY <1>2, <1>3, <2>1 DEF Fits
  <2> QED
    BY <1>1, <2>1, <2>2, <2>3, NothingLeft, PlainStep
<1>4. CASE env[u] \notin Envelopes
  <2>1. Fits(stop) /\ stop.pc = "done" /\ stop.code # 0
    BY <1>1, DoneFits
  <2>2. disp' = [disp EXCEPT ![d] = stop]
    BY <1>1, <1>4
  <2> HIDE DEF stop
  <2> QED
    BY <1>1, <2>1, <2>2, NothingLeft, PlainStep
<1> QED
  BY <1>3, <1>4

LEMMA WriteMetaInvariant ==
  ASSUME IInv, NEW d \in Dispatchers, WriteMeta(d)
  PROVE  IInv'
<1> DEFINE r == [disp[d] EXCEPT !.pc = "receipt"]
           u == disp[d].task
           k == [outcome |-> disp[d].outcome, ref |-> disp[d].env.ref]
<1>1. /\ MainUnchanged /\ UNCHANGED <<env, box>> /\ disp[d].pc = "meta"
      /\ meta' = [meta EXCEPT ![u] = k] /\ disp' = [disp EXCEPT ![d] = r]
  BY DEF WriteMeta
<1>2. Fits(disp[d]) /\ u \in Tasks /\ disp[d] \in Run /\ disp[d].env \in Envelopes
  BY <1>1, RunIs DEF Fits
<1>3. r \in Run /\ r.pc = "receipt" /\ r.task = u /\ r.env = disp[d].env
  BY <1>2 DEF Run, DispatchPCs
<1>4. k \in [outcome : Outcomes, ref : Nat]
  BY <1>2 DEF Run, Envelopes
<1> HIDE DEF r, k
<1>5. Fits(r)
  BY <1>2, <1>3 DEF Fits
<1>6. Leaves
  <2>1. TypeOK /\ meta \in [Tasks -> [outcome : Outcomes, ref : Nat] \cup {NoMeta}]
    BY DEF IInv, TypeOK
  <2>2. meta' \in [Tasks -> [outcome : Outcomes, ref : Nat] \cup {NoMeta}]
    BY <1>1, <1>4, <2>1
  <2> QED
    BY <1>1, <2>1, <2>2, Shapes, EnvIs DEF Leaves
<1> QED
  BY <1>1, <1>3, <1>5, <1>6, PlainStep

LEMMA ReportInvariant ==
  ASSUME IInv, NEW d \in Dispatchers, Report(d)
  PROVE  IInv'
<1> DEFINE u == disp[d].task
           code == ExitCode(meta[u], box[u].hand, env[u])
           stop == Ended(d, code)
<1>1. /\ MainUnchanged /\ UNCHANGED <<env, meta, box>> /\ disp[d].pc = "receipt"
      /\ disp' = [disp EXCEPT ![d] = stop]
  BY DEF Report, Done, Ended
<1>2. code \in {0, 2, 3, 4} /\ (code = 0 => box[u].hand \in Handoffs /\ ~box[u].hand.waiting)
  BY DEF ExitCode, Valid
<1> HIDE DEF code
<1>3. Fits(stop) /\ stop.pc = "done" /\ stop.task = u /\ stop.code = code
  BY <1>1, <1>2, DoneFits
<1> HIDE DEF stop
<1> QED
  BY <1>1, <1>2, <1>3, NothingLeft, PlainStep

LEMMA KillDispatchInvariant ==
  ASSUME IInv, NEW d \in Dispatchers, KillDispatch(d)
  PROVE  IInv'
<1> DEFINE u == disp[d].task
           stop == Ended(d, 2)
           k == [outcome |-> "TORN", ref |-> disp[d].env.ref]
<1>1. /\ MainUnchanged /\ UNCHANGED box /\ disp[d].pc # "idle"
      /\ disp' = [disp EXCEPT ![d] = stop]
      /\ \/ UNCHANGED <<env, meta>>
         \/ env' = [env EXCEPT ![u] = TornEnvelope] /\ UNCHANGED meta
         \/ disp[d].pc = "meta" /\ meta' = [meta EXCEPT ![u] = k] /\ UNCHANGED env
  BY DEF KillDispatch, Done, Ended
<1>2. Fits(stop) /\ stop.pc = "done" /\ stop.code # 0
  BY <1>1, DoneFits
<1> HIDE DEF stop
<1>3. /\ TypeOK /\ env \in [Tasks -> Envelopes \cup {NoEnvelope, TornEnvelope}]
      /\ box \in [Tasks -> Box] /\ u \in Tasks
      /\ meta \in [Tasks -> [outcome : Outcomes, ref : Nat] \cup {NoMeta}]
  BY <1>1, Shapes DEF IInv, TypeOK, Running
<1>4. Leaves
  <2>1. CASE UNCHANGED <<env, meta>>
    BY <1>1, <2>1, NothingLeft
  <2>2. CASE env' = [env EXCEPT ![u] = TornEnvelope] /\ UNCHANGED meta
    <3>1. \A t \in Tasks : env'[t] = IF t = u THEN TornEnvelope ELSE env[t]
      BY <1>3, <2>2
    <3>2. env' \in [Tasks -> Envelopes \cup {NoEnvelope, TornEnvelope}]
      BY <1>3, <2>2
    <3>3. \A t : Older(TornEnvelope, t)
      BY AbsentAssumption DEF Older
    <3>4. \A t \in Tasks : Older(env'[t], t) /\ env[t] # NoEnvelope => env'[t] # NoEnvelope
      BY <3>1, AbsentAssumption
    <3>5. \A t \in Tasks : Older(env'[t], t)
      BY <3>1, <3>3, EnvIs
    <3> QED
      BY <1>1, <1>3, <2>2, <3>2, <3>4, <3>5 DEF Leaves
  <2>3. CASE disp[d].pc = "meta" /\ meta' = [meta EXCEPT ![u] = k] /\ UNCHANGED env
    <3>1. disp[d].env \in Envelopes
      BY <2>3 DEF IInv, Running
    <3>2. k \in [outcome : Outcomes, ref : Nat]
      BY <3>1 DEF Outcomes, Envelopes
    <3> HIDE DEF k
    <3>3. meta' \in [Tasks -> [outcome : Outcomes, ref : Nat] \cup {NoMeta}]
      BY <1>3, <2>3, <3>2
    <3> QED
      BY <1>1, <1>3, <2>3, <3>3, EnvIs DEF Leaves
  <2> QED
    BY <1>1, <2>1, <2>2, <2>3
<1> QED
  BY <1>1, <1>2, <1>4, PlainStep

\* A step inside a clone, or into one: it changes the clone of its own task.
LEMMA CloneStep ==
  ASSUME IInv, NEW d \in Dispatchers, NEW r, Fits(r), disp' = [disp EXCEPT ![d] = r],
         r.task = disp[d].task, r.task \in Tasks, r.pc \in {"launch", "agent", "meta"},
         NEW b \in Box, box' = [box EXCEPT ![r.task] = b], UNCHANGED <<env, meta>>, MainUnchanged,
         box[r.task].there => b.there /\ b.base = box[r.task].base,
         ~Landed(r.task) =>
           /\ b.there
           /\ box[r.task].hand \notin Handoffs
           /\ r.pc \in {"launch", "agent"} =>
                /\ b.hand = NoHandoff
                /\ \A e \in Dispatchers : Inside(e, r.task) => e = d
           /\ r.pc = "meta" => Inside(d, r.task)
           /\ b.hand \in Handoffs =>
                b.told \in Envelopes /\ b.told.feature = b.hand.feature
  PROVE  IInv'
<1> DEFINE u == r.task
<1>1. /\ TypeOK /\ UNCHANGED log /\ \A t : Landed(t)' <=> Landed(t)
      /\ box \in [Tasks -> Box] /\ r \in Run
      /\ meta \in [Tasks -> [outcome : Outcomes, ref : Nat] \cup {NoMeta}]
      /\ env \in [Tasks -> Envelopes \cup {NoEnvelope, TornEnvelope}]
  BY LogRests, Shapes DEF IInv, TypeOK, MainUnchanged, Fits
<1>2. \A t \in Tasks : box'[t] = IF t = u THEN b ELSE box[t]
  BY <1>1
<1>3. disp'[d] = r /\ \A e \in Dispatchers : e # d => disp'[e] = disp[e]
  BY <1>1, RunBecomes
<1>4. Leaves
  <2>1. box' \in [Tasks -> Box]
    BY <1>1
  <2>2. \A t \in Tasks :
          /\ box[t].there => box'[t].there /\ box'[t].base = box[t].base
          /\ ~Landed(t) /\ box[t].hand \in Handoffs => box'[t].hand = box[t].hand
    BY <1>2
  <2> QED
    BY <1>1, <2>1, <2>2, EnvIs DEF Leaves
<1>5. Boxes'
  <2>1. SUFFICES ASSUME NEW t \in Tasks, ~Landed(t)
        PROVE
        /\ \A c, e \in Dispatchers : Inside(c, t)' /\ Inside(e, t)' => c = e
        /\ \A e \in Dispatchers : Inside(e, t)' => box'[t].there /\ box'[t].hand = NoHandoff
        /\ \A e \in Dispatchers :
             disp'[e].pc = "done" /\ disp'[e].task = t /\ disp'[e].code = 0 =>
               box'[t].hand \in Handoffs /\ ~box'[t].hand.waiting
        /\ box'[t].hand \in Handoffs =>
             /\ box'[t].there
             /\ box'[t].told \in Envelopes /\ box'[t].told.feature = box'[t].hand.feature
    BY <1>1, <2>1 DEF Boxes, Inside
  <2>2. /\ \A c, e \in Dispatchers : Inside(c, t) /\ Inside(e, t) => c = e
        /\ \A e \in Dispatchers : Inside(e, t) => box[t].there /\ box[t].hand = NoHandoff
        /\ \A e \in Dispatchers :
             disp[e].pc = "done" /\ disp[e].task = t /\ disp[e].code = 0 =>
               box[t].hand \in Handoffs /\ ~box[t].hand.waiting
        /\ box[t].hand \in Handoffs =>
             /\ box[t].there
             /\ box[t].told \in Envelopes /\ box[t].told.feature = box[t].hand.feature
    BY <2>1 DEF IInv, Boxes
  <2>3. CASE t # u
    <3>1. box'[t] = box[t] /\ ~Inside(d, t)' /\ (disp'[d].task # t)
      BY <1>2, <1>3, <2>3 DEF Inside
    <3>2. \A e \in Dispatchers : Inside(e, t)' => Inside(e, t)
      BY <1>3, <3>1 DEF Inside
    <3> QED
      BY <1>3, <2>2, <3>1, <3>2
  <2>4. CASE t = u
    <3>1. box'[t] = b /\ b.there /\ box[t].hand \notin Handoffs
      BY <1>2, <2>1, <2>4
    <3>2. /\ r.pc \in {"launch", "agent"} =>
               b.hand = NoHandoff /\ \A e \in Dispatchers : Inside(e, t) => e = d
          /\ r.pc = "meta" => Inside(d, t)
          /\ b.hand \in Handoffs => b.told \in Envelopes /\ b.told.feature = b.hand.feature
      BY <2>1, <2>4
    <3>3. \A e \in Dispatchers : e # d => (Inside(e, t)' <=> Inside(e, t))
      BY <1>3 DEF Inside
    <3>4. \A e \in Dispatchers : e # d => ~Inside(e, t)'
      <4>1. CASE r.pc \in {"launch", "agent"}
        BY <3>2, <3>3, <4>1
      <4>2. CASE r.pc = "meta"
        BY <2>2, <3>2, <3>3, <4>2
      <4> QED
        BY <4>1, <4>2
    <3>5. \A e \in Dispatchers : Inside(e, t)' => b.hand = NoHandoff
      <4>1. Inside(d, t)' => r.pc \in {"launch", "agent"}
        BY <1>3 DEF Inside
      <4> QED
        BY <3>2, <3>4, <4>1
    <3>6. \A e \in Dispatchers :
            ~(disp'[e].pc = "done" /\ disp'[e].task = t /\ disp'[e].code = 0)
      BY <1>3, <2>2, <3>1
    <3> QED
      BY <3>1, <3>2, <3>4, <3>5, <3>6
  <2> QED
    BY <2>3, <2>4
<1> QED
  BY <1>4, <1>5, DispatchInvariant

LEMMA CloneInvariant ==
  ASSUME IInv, NEW d \in Dispatchers, Clone(d)
  PROVE  IInv'
<1> DEFINE u == disp[d].task
           e == disp[d].env
           skip == [disp[d] EXCEPT !.pc = "receipt"]
           r == [disp[d] EXCEPT !.pc = "launch"]
           b == [NoBox EXCEPT !.there = TRUE, !.base = e.ref, !.tree = log[e.ref].tree]
<1>1. /\ MainUnchanged /\ UNCHANGED <<env, meta>> /\ disp[d].pc = "clone"
      /\ box[u].there => disp' = [disp EXCEPT ![d] = skip] /\ UNCHANGED box
      /\ ~box[u].there => disp' = [disp EXCEPT ![d] = r] /\ box' = [box EXCEPT ![u] = b]
  BY DEF Clone
<1>2. Fits(disp[d]) /\ u \in Tasks /\ e \in Envelopes /\ disp[d] \in Run /\ Older(e, u)
  BY <1>1, RunIs DEF Fits
<1>3. CASE box[u].there
  <2>1. skip \in Run /\ skip.pc = "receipt" /\ skip.task = u /\ skip.env = e
    BY <1>2 DEF Run, DispatchPCs
  <2>2. disp' = [disp EXCEPT ![d] = skip] /\ UNCHANGED box
    BY <1>1, <1>3
  <2> HIDE DEF skip
  <2>3. Fits(skip)
    BY <1>2, <2>1 DEF Fits
  <2> QED
    BY <1>1, <2>1, <2>2, <2>3, NothingLeft, PlainStep
<1>4. CASE ~box[u].there
  <2>1. r \in Run /\ r.pc = "launch" /\ r.task = u /\ r.env = e
    BY <1>2 DEF Run, DispatchPCs
  <2>2. disp' = [disp EXCEPT ![d] = r] /\ box' = [box EXCEPT ![u] = b]
    BY <1>1, <1>4
  <2>3. e.ref \in 1..Tip /\ log[e.ref].tree \in Trees
    BY <1>2, Shapes DEF IInv, Older, Commits
  <2>4. b \in Box /\ b.there /\ b.hand = NoHandoff
    BY <2>3, Plain DEF NoBox, Box
  <2> HIDE DEF r, b
  <2>5. Fits(r)
    BY <1>2, <2>1 DEF Fits
  <2>6. ~Landed(u) =>
          /\ box[u].hand \notin Handoffs
          /\ \A c \in Dispatchers : ~Inside(c, u)
    BY <1>2, <1>4 DEF IInv, Boxes
  <2> QED
    BY <1>1, <1>2, <1>4, <2>1, <2>2, <2>4, <2>5, <2>6, AbsentAssumption, CloneStep
<1> QED
  BY <1>3, <1>4

LEMMA LaunchInvariant ==
  ASSUME IInv, NEW d \in Dispatchers, Launch(d)
  PROVE  IInv'
<1> DEFINE u == disp[d].task
           r == [disp[d] EXCEPT !.pc = "agent"]
           b == [box[u] EXCEPT !.told = env[u]]
<1>1. /\ MainUnchanged /\ UNCHANGED <<env, meta>> /\ disp[d].pc = "launch"
      /\ disp' = [disp EXCEPT ![d] = r] /\ box' = [box EXCEPT ![u] = b]
  BY DEF Launch
<1>2. Fits(disp[d]) /\ u \in Tasks /\ disp[d].env \in Envelopes /\ disp[d] \in Run
  BY <1>1, RunIs DEF Fits
<1>3. r \in Run /\ r.pc = "agent" /\ r.task = u /\ r.env = disp[d].env
  BY <1>2 DEF Run, DispatchPCs
<1>4. box[u] \in Box /\ env[u] \in Envelopes \cup {NoEnvelope, TornEnvelope}
  BY <1>2, Shapes DEF IInv
<1>5. /\ b \in Box /\ (box[u].there => b.there) /\ b.base = box[u].base
      /\ b.hand = box[u].hand
  BY <1>4 DEF Box
<1> HIDE DEF r, b
<1>6. Fits(r)
  BY <1>2, <1>3 DEF Fits
<1>7. ~Landed(u) => box[u].there /\ box[u].hand = NoHandoff /\ \A c \in Dispatchers : Inside(c, u) => c = d
  <2>1. Inside(d, u)
    BY <1>1 DEF Inside
  <2> QED
    BY <1>2, <2>1 DEF IInv, Boxes
<1>8. ~Landed(r.task) =>
        /\ b.there
        /\ box[r.task].hand \notin Handoffs
        /\ r.pc \in {"launch", "agent"} =>
             /\ b.hand = NoHandoff
             /\ \A e \in Dispatchers : Inside(e, r.task) => e = d
        /\ r.pc = "meta" => Inside(d, r.task)
        /\ b.hand \in Handoffs =>
             b.told \in Envelopes /\ b.told.feature = b.hand.feature
  BY <1>3, <1>5, <1>7, AbsentAssumption
<1>9. /\ r.task = disp[d].task /\ r.task \in Tasks /\ r.pc \in {"launch", "agent", "meta"}
      /\ box[r.task].there => b.there /\ b.base = box[r.task].base
  BY <1>2, <1>3, <1>5
<1>10. /\ disp' = [disp EXCEPT ![d] = r] /\ box' = [box EXCEPT ![r.task] = b]
       /\ UNCHANGED <<env, meta>> /\ MainUnchanged
  BY <1>1, <1>3
<1>11. b \in Box
  BY <1>5
<1> QED
  BY <1>6, <1>8, <1>9, <1>10, <1>11, CloneStep

LEMMA AgentEndsInvariant ==
  ASSUME IInv, NEW d \in Dispatchers, NEW outcome \in Outcomes, NEW moved \in BOOLEAN,
         NEW changed \in SUBSET Paths, NEW files \in SUBSET Paths, NEW waiting \in BOOLEAN,
         AgentEnds(d, outcome, moved, changed, files, waiting)
  PROVE  IInv'
<1> DEFINE u == disp[d].task
           told == box[u].told
           c == CHOOSE c \in Contents : c # Original
           tree == [p \in Paths |-> IF p \in changed THEN c ELSE box[u].tree[p]]
           left == [feature |-> told.feature, files |-> files, waiting |-> waiting,
                    rewritten |-> FALSE]
           hand == IF outcome \in {"RETURNED", "TIMEOUT"} /\ told \in Envelopes THEN left
                   ELSE NoHandoff
           b == [box[u] EXCEPT !.moved = moved, !.tree = tree, !.hand = hand]
           r == [disp[d] EXCEPT !.pc = "meta", !.outcome = outcome]
<1>1. /\ MainUnchanged /\ UNCHANGED <<env, meta>> /\ disp[d].pc = "agent"
      /\ disp' = [disp EXCEPT ![d] = r]
  BY DEF AgentEnds
<1>2. /\ Fits(disp[d]) /\ u \in Tasks /\ disp[d].env \in Envelopes /\ disp[d] \in Run
      /\ box \in [Tasks -> Box] /\ box[u] \in Box
  BY <1>1, RunIs, Shapes DEF Fits, IInv
<1>3. box' = [box EXCEPT ![u] = b]
  BY <1>2 DEF AgentEnds
<1>4. r \in Run /\ r.pc = "meta" /\ r.task = u /\ r.env = disp[d].env
  BY <1>2 DEF Run, DispatchPCs
<1>5. c \in Contents
  BY ContentsAssumption
<1> HIDE DEF c
<1>6. tree \in Trees
  BY <1>2, <1>5 DEF Trees, Box
<1> HIDE DEF tree
<1>7. /\ hand \in Handoffs \cup {NoHandoff}
      /\ hand \in Handoffs => told \in Envelopes /\ told.feature = hand.feature
  <2>1. told \in Envelopes => left \in Handoffs /\ left.feature = told.feature
    BY DEF Envelopes, Handoffs
  <2> HIDE DEF left
  <2> QED
    BY <2>1, AbsentAssumption
<1> HIDE DEF hand
<1>8. /\ b \in Box /\ (box[u].there => b.there) /\ b.base = box[u].base
      /\ b.hand = hand /\ b.told = told
  BY <1>2, <1>6, <1>7 DEF Box
<1> HIDE DEF r, b
<1>9. Fits(r)
  BY <1>2, <1>4 DEF Fits
<1>10. Inside(d, u)
  BY <1>1 DEF Inside
<1>11. ~Landed(u) => box[u].there /\ box[u].hand \notin Handoffs
  BY <1>2, <1>10, AbsentAssumption DEF IInv, Boxes
<1>12. b.hand \in Handoffs => b.told \in Envelopes /\ b.told.feature = b.hand.feature
  BY <1>7, <1>8
<1>13. box[u].there => b.there /\ b.base = box[u].base
  BY <1>8
<1>14. b \in Box
  BY <1>8
<1> HIDE DEF told, left
<1>15. /\ r.task = disp[d].task /\ r.task \in Tasks /\ r.pc = "meta"
       /\ box' = [box EXCEPT ![r.task] = b] /\ Inside(d, r.task)
       /\ box[r.task].there => b.there /\ b.base = box[r.task].base
       /\ ~Landed(r.task) => b.there /\ box[r.task].hand \notin Handoffs
  BY <1>2, <1>3, <1>4, <1>10, <1>11, <1>13
<1> HIDE DEF u
<1> QED
  BY <1>1, <1>9, <1>12, <1>14, <1>15, CloneStep

LEMMA DispatchStepInvariant ==
  ASSUME IInv, NEW d \in Dispatchers, DispatchStep(d)
  PROVE  IInv'
<1>1. ASSUME NEW t \in Tasks, NEW f \in Features, Commission(d, t, f)
      PROVE  IInv'
  BY <1>1, CommissionInvariant
<1>2. ASSUME NEW outcome \in Outcomes, NEW moved \in BOOLEAN, NEW waiting \in BOOLEAN,
             NEW changed \in SUBSET Paths, NEW files \in SUBSET Paths,
             AgentEnds(d, outcome, moved, changed, files, waiting)
      PROVE  IInv'
  BY <1>2, AgentEndsInvariant
<1> QED
  BY <1>1, <1>2, WriteEnvelopeInvariant, ReadProfileInvariant, CloneInvariant, LaunchInvariant,
     WriteMetaInvariant, ReportInvariant, KillDispatchInvariant DEF DispatchStep

-----------------------------------------------------------------------------
(* A step that leaves the log, the clones and the dispatches alone *)

Gates == {"none", "pending", "edited", "staged"}

LEMMA StillInvariant ==
  ASSUME IInv, UNCHANGED <<log, box>>, DispatchUnchanged, main' \in Indexes, gate' \in Gates,
         acc' \in Review, Older(acc'.env, acc'.task), Accepting'
  PROVE  IInv'
<1>1. /\ TypeOK /\ UNCHANGED <<log, box, env, meta, disp>> /\ Tip' = Tip /\ Box' = Box
      /\ \A t : Landed(t)' <=> Landed(t)
      /\ \A e, t : Older(e, t)' <=> Older(e, t)
  BY LogRests DEF IInv, DispatchUnchanged
<1>2. TypeOK'
  BY <1>1 DEF TypeOK, Indexes, Gates, Review
<1>3. Refs'
  BY <1>1 DEF IInv, Refs, Older
<1>4. Running' /\ Boxes'
  BY <1>1 DEF IInv, Running, Boxes, Inside
<1> QED
  BY <1>2, <1>3, <1>4 DEF IInv

\* A review that ends, one way or the other.
LEMMA EndInvariant ==
  ASSUME IInv, UNCHANGED <<log, box>>, DispatchUnchanged, main' \in Indexes, gate' \in Gates,
         End \/ Refuse
  PROVE  IInv'
<1>1. acc' \in Review /\ acc'.pc = "idle" /\ acc'.env = NoEnvelope
  <2>1. CASE End
    BY <2>1, Plain DEF End
  <2>2. CASE Refuse
    BY <2>2, Plain DEF Refuse, Review, Resting
  <2> QED
    BY <2>1, <2>2
<1>2. Older(acc'.env, acc'.task)
  BY <1>1, AbsentAssumption DEF Older
<1>3. Accepting'
  BY <1>1 DEF Accepting
<1> QED
  BY <1>1, <1>2, <1>3, StillInvariant

LEMMA Mains ==
  ASSUME IInv, UNCHANGED <<main, gate>>
  PROVE  main' \in Indexes /\ gate' \in Gates
BY Shapes DEF IInv, TypeOK, Gates

LEMMA GotoIs ==
  ASSUME IInv, NEW pc \in AcceptPCs, Goto(pc)
  PROVE  /\ acc' \in Review /\ acc'.pc = pc /\ acc'.task = acc.task /\ acc'.env = acc.env
         /\ acc'.hand = acc.hand
BY Shapes DEF IInv, Goto, Review

LEMMA ReviewIs ==
  ASSUME IInv, acc.pc # "idle"
  PROVE  /\ acc.task \in Tasks /\ acc.env \in Envelopes /\ env[acc.task] # NoEnvelope
         /\ acc.hand \in Handoffs /\ acc.hand.files # {} /\ acc.hand.feature = acc.env.feature
         /\ box[acc.task] \in Box /\ box[acc.task].there
         /\ ~Landed(acc.task) => box[acc.task].hand \in Copies(acc.hand) /\ ~acc.hand.waiting
         /\ acc.pc # "base" => ~Landed(acc.task) /\ box[acc.task].base = acc.env.ref
         /\ Older(acc.env, acc.task) /\ acc.env.ref \in 1..Tip
         /\ Reviewed /\ Indexed
BY Shapes DEF IInv, Accepting, Reviewed, Refs, Older

\* A review that goes on: what was read stays, and the rest is for the step to show.
LEMMA GoesOn ==
  ASSUME IInv, acc.pc # "idle", UNCHANGED <<log, box>>, DispatchUnchanged, main' \in Indexes,
         gate' \in Gates, acc' \in Review, acc'.task = acc.task, acc'.env = acc.env,
         acc'.hand = acc.hand, acc'.pc # "base",
         ~Landed(acc.task), box[acc.task].base = acc.env.ref, Indexed'
  PROVE  IInv'
<1>1. \A t : Landed(t)' <=> Landed(t)
  BY LogRests
<1>2. Reviewed /\ Older(acc'.env, acc'.task)
  BY ReviewIs
<1>3. Reviewed'
  BY <1>1, <1>2 DEF Reviewed, Copies, DispatchUnchanged
<1>4. Accepting'
  BY <1>1, <1>3 DEF Accepting
<1> QED
  BY <1>2, <1>4, StillInvariant

\* A check that passes leads from one place to the next with nothing else changed.
LEMMA CheckInvariant ==
  ASSUME IInv, acc.pc # "idle", NEW ok, NEW pc \in AcceptPCs \ {"base"}, Check(ok, pc),
         ok => ~Landed(acc.task) /\ box[acc.task].base = acc.env.ref,
         ok /\ Goto(pc) => Indexed'
  PROVE  IInv'
<1>1. UNCHANGED <<log, main, gate, box>> /\ DispatchUnchanged
  BY DEF Check
<1>2. main' \in Indexes /\ gate' \in Gates
  BY <1>1, Mains
<1>3. CASE ok
  <2>1. Goto(pc)
    BY <1>3 DEF Check
  <2> QED
    BY <1>1, <1>2, <1>3, <2>1, GotoIs, GoesOn
<1>4. CASE ~ok
  <2>1. Refuse
    BY <1>4 DEF Check
  <2> QED
    BY <1>1, <1>2, <2>1, EndInvariant
<1> QED
  BY <1>3, <1>4

-----------------------------------------------------------------------------
(* The acceptor *)

\* An envelope that names HEAD is that of a task which has not landed.
LEMMA AtBaseIs ==
  ASSUME IInv, acc.pc # "idle", AtBase(acc.env)
  PROVE  main = Base /\ main = Checkout(Tip) /\ ~Landed(acc.task)
<1>1. main = Base /\ main = Checkout(Tip) /\ Tip = acc.env.ref
  BY DEF AtBase, Clean, Base
<1>2. SUFFICES ASSUME NEW n \in 1..Tip, log[n].by = acc.task
               PROVE  FALSE
  BY <1>1 DEF Landed
<1>3. acc.env.ref < n /\ Tip \in Nat
  BY <1>2, ReviewIs, Shapes DEF Older, IInv
<1> QED
  BY <1>1, <1>3

LEMMA StartAcceptInvariant ==
  ASSUME IInv, NEW t \in Tasks, NEW apply \in BOOLEAN, StartAccept(t, apply)
  PROVE  IInv'
<1> DEFINE h == box[t].hand
           r == [Resting EXCEPT !.pc = "base", !.task = t, !.apply = apply, !.env = env[t],
                                !.hand = h]
<1>1. /\ UNCHANGED <<log, main, gate, box>> /\ DispatchUnchanged /\ box[t].there /\ acc' = r
      /\ h \in Handoffs /\ env[t] \in Envelopes /\ h.files # {} /\ h.feature = env[t].feature
      /\ \E d \in Dispatchers : disp[d].pc = "done" /\ disp[d].task = t /\ disp[d].code = 0
  BY DEF StartAccept, Valid
<1>2. /\ r \in Review /\ r.pc = "base" /\ r.task = t /\ r.env = env[t] /\ r.hand = h
  BY <1>1, Plain DEF Resting, Review, AcceptPCs
<1> HIDE DEF r
<1>3. ~Landed(t) => ~h.waiting
  BY <1>1 DEF IInv, Boxes
<1>4. \A u : Landed(u)' <=> Landed(u)
  BY <1>1, LogRests
<1>5. env[t] # NoEnvelope
  BY <1>1, AbsentAssumption
<1> HIDE DEF h
<1>6. h = box[t].hand
  BY DEF h
<1>7. Reviewed'
  BY <1>1, <1>2, <1>3, <1>4, <1>5, <1>6 DEF Reviewed, Copies, DispatchUnchanged
<1>8. Indexed'
  BY <1>1, <1>2 DEF Indexed
<1>9. Accepting'
  BY <1>1, <1>2, <1>7, <1>8 DEF Accepting
<1>10. Older(acc'.env, acc'.task)
  BY <1>1, <1>2, EnvIs
<1> QED
  BY <1>1, <1>2, <1>9, <1>10, Mains, StillInvariant

LEMMA CheckBaseInvariant ==
  ASSUME IInv, CheckBase
  PROVE  IInv'
<1> DEFINE ok == AtBase(acc.env) /\ ~box[acc.task].moved /\ box[acc.task].base = acc.env.ref
<1>1. acc.pc = "base" /\ Check(ok, "diff")
  BY DEF CheckBase
<1>2. ok => /\ main = Base /\ main = Checkout(Tip) /\ ~Landed(acc.task)
            /\ box[acc.task].base = acc.env.ref
  BY <1>1, AtBaseIs
<1>3. ASSUME ok, Goto("diff")
      PROVE  Indexed'
  <2>1. UNCHANGED <<log, main>> /\ acc'.pc = "diff" /\ acc'.env = acc.env
    BY <1>1, <1>3, GotoIs DEF Check, AcceptPCs
  <2> QED
    BY <1>2, <1>3, <2>1 DEF Indexed, Base, Checkout, Tip
<1> HIDE DEF ok
<1> QED
  BY <1>1, <1>2, <1>3, CheckInvariant DEF AcceptPCs

LEMMA FirstDiffInvariant ==
  ASSUME IInv, FirstDiff
  PROVE  IInv'
<1> DEFINE ok == Changed(acc.task) = acc.hand.files
<1>1. acc.pc = "diff" /\ Check(ok, "l1")
  BY DEF FirstDiff
<1>2. ~Landed(acc.task) /\ box[acc.task].base = acc.env.ref /\ Indexed
  BY <1>1, ReviewIs
<1>3. ASSUME Goto("l1")
      PROVE  Indexed'
  <2>1. UNCHANGED <<log, main>> /\ acc'.pc = "l1" /\ acc'.env = acc.env
    BY <1>1, <1>3, GotoIs DEF Check, AcceptPCs
  <2> QED
    BY <1>1, <1>2, <2>1 DEF Indexed, Base, Checkout, Tip
<1> HIDE DEF ok
<1> QED
  BY <1>1, <1>2, <1>3, CheckInvariant DEF AcceptPCs

LEMMA RecheckInvariant ==
  ASSUME IInv, Recheck
  PROVE  IInv'
<1>1. acc.pc = "recheck" /\ Check(AtBase(acc.env), "apply")
  BY DEF Recheck
<1>2. ~Landed(acc.task) /\ box[acc.task].base = acc.env.ref /\ Indexed
  BY <1>1, ReviewIs
<1>3. ASSUME Goto("apply")
      PROVE  Indexed'
  <2>1. UNCHANGED <<log, main>> /\ acc'.pc = "apply" /\ acc'.env = acc.env
    BY <1>1, <1>3, GotoIs DEF Check, AcceptPCs
  <2> QED
    BY <1>1, <1>2, <2>1 DEF Indexed, Base, Checkout, Tip
<1> QED
  BY <1>1, <1>2, <1>3, CheckInvariant DEF AcceptPCs

LEMMA SecondDiffInvariant ==
  ASSUME IInv, SecondDiff
  PROVE  IInv'
<1> DEFINE r == [acc EXCEPT !.pc = "recheck", !.patch = box[acc.task].tree]
<1>1. /\ acc.pc = "rediff" /\ UNCHANGED <<log, main, gate, box>> /\ DispatchUnchanged
      /\ Refuse \/ End \/ acc' = r
  BY DEF SecondDiff, Refuse, End
<1>2. main' \in Indexes /\ gate' \in Gates
  BY <1>1, Mains
<1>3. CASE Refuse \/ End
  BY <1>1, <1>2, <1>3, EndInvariant
<1>4. CASE acc' = r
  <2>1. /\ ~Landed(acc.task) /\ box[acc.task].base = acc.env.ref /\ Indexed
        /\ box[acc.task] \in Box
    BY <1>1, ReviewIs
  <2>2. /\ r \in Review /\ r.pc = "recheck" /\ r.task = acc.task /\ r.env = acc.env
        /\ r.hand = acc.hand
    BY <2>1, Shapes DEF IInv, Review, Box, AcceptPCs
  <2> HIDE DEF r
  <2>3. Indexed'
    BY <1>1, <1>4, <2>1, <2>2 DEF Indexed, Base, Checkout, Tip
  <2> QED
    BY <1>1, <1>2, <1>4, <2>1, <2>2, <2>3, GoesOn
<1> QED
  BY <1>1, <1>3, <1>4

LEMMA ApplyInvariant ==
  ASSUME IInv, Apply
  PROVE  IInv'
<1> DEFINE from == log[acc.env.ref].tree
           patched == {p \in Paths : acc.patch[p] # from[p]}
           tree == [p \in Paths |-> IF p \in patched THEN acc.patch[p] ELSE main.tree[p]]
           m == [main EXCEPT !.tree = tree]
<1>1. /\ acc.pc = "apply" /\ UNCHANGED <<log, gate, box>> /\ DispatchUnchanged
      /\ \/ main' = m /\ Goto("audit")
         \/ Refuse /\ UNCHANGED main
  BY DEF Apply
<1>2. TypeOK /\ main \in Indexes /\ acc \in Review /\ gate' \in Gates
  BY <1>1, Shapes DEF IInv, TypeOK, Gates
<1>3. CASE Refuse /\ UNCHANGED main
  BY <1>1, <1>2, <1>3, EndInvariant
<1>4. CASE main' = m /\ Goto("audit")
  <2>1. tree \in Trees
    BY <1>2 DEF Trees, Indexes, Review
  <2> HIDE DEF tree
  <2>2. m \in Indexes /\ m.audits = main.audits
    BY <1>2, <2>1 DEF Indexes
  <2> HIDE DEF m
  <2>3. /\ ~Landed(acc.task) /\ box[acc.task].base = acc.env.ref
        /\ main = Base /\ main = Checkout(Tip)
    BY <1>1, ReviewIs DEF Indexed
  <2>4. /\ acc' \in Review /\ acc'.pc = "audit" /\ acc'.task = acc.task /\ acc'.env = acc.env
        /\ acc'.hand = acc.hand
    BY <1>4, GotoIs DEF AcceptPCs
  <2>5. Checkout(Tip)' = Checkout(Tip) /\ Base' = Base
    BY <1>1, <2>4 DEF Checkout, Base, Tip
  <2>6. Indexed'
    BY <1>4, <2>2, <2>3, <2>4, <2>5 DEF Indexed
  <2> QED
    BY <1>1, <1>2, <1>4, <2>2, <2>3, <2>4, <2>6, GoesOn
<1> QED
  BY <1>1, <1>3, <1>4

LEMMA KeepAuditInvariant ==
  ASSUME IInv, KeepAudit
  PROVE  IInv'
<1> DEFINE u == acc.task
           h == box[u].hand
           m == [main EXCEPT !.audits[u] = h]
<1>1. /\ acc.pc = "audit" /\ UNCHANGED <<log, gate, box>> /\ DispatchUnchanged
      /\ \/ main.audits[u] = NoHandoff /\ main' = m /\ Goto("staged")
         \/ Refuse /\ UNCHANGED main
  BY DEF KeepAudit
<1>2. TypeOK /\ main \in Indexes /\ gate' \in Gates
  BY <1>1, Shapes DEF IInv, TypeOK, Gates
<1>3. CASE Refuse /\ UNCHANGED main
  BY <1>1, <1>2, <1>3, EndInvariant
<1>4. CASE main.audits[u] = NoHandoff /\ main' = m /\ Goto("staged")
  <2>1. /\ ~Landed(u) /\ box[u].base = acc.env.ref /\ u \in Tasks
        /\ h \in Copies(acc.hand) /\ main.audits = Base.audits /\ h \in Handoffs \cup {NoHandoff}
        /\ (Checkout(Tip) = Base \/ log[Tip].tree = main.tree)
    BY <1>1, ReviewIs DEF Indexed, Box
  <2> HIDE DEF h
  <2>2. m \in Indexes /\ m.audits[u] = h /\ m.tree = main.tree
    BY <1>2, <2>1 DEF Indexes, Audits
  <2> HIDE DEF m
  <2>3. /\ acc' \in Review /\ acc'.pc = "staged" /\ acc'.task = u /\ acc'.env = acc.env
        /\ acc'.hand = acc.hand
    BY <1>4, GotoIs DEF AcceptPCs
  <2>4. Checkout(Tip)' = Checkout(Tip) /\ Base' = Base /\ Tip' = Tip
    BY <1>1, <2>3 DEF Checkout, Base, Tip
  <2>5. Indexed'
    BY <1>1, <1>4, <2>1, <2>2, <2>3, <2>4 DEF Indexed, Copies
  <2> QED
    BY <1>1, <1>2, <1>4, <2>1, <2>2, <2>3, <2>5, GoesOn
<1> QED
  BY <1>1, <1>3, <1>4

LEMMA CheckStagedInvariant ==
  ASSUME IInv, CheckStaged
  PROVE  IInv'
<1>1. PICK tidy \in BOOLEAN : Check(StagedAsDeclared /\ tidy, "commit")
  BY DEF CheckStaged
<1>2. acc.pc = "staged"
  BY DEF CheckStaged
<1>3. /\ ~Landed(acc.task) /\ box[acc.task].base = acc.env.ref /\ Indexed
      /\ acc.hand.files # {}
  BY <1>2, ReviewIs
<1>4. ASSUME StagedAsDeclared /\ tidy, Goto("commit")
      PROVE  Indexed'
  <2>1. Patched = acc.hand.files
    BY <1>4 DEF StagedAsDeclared, Patched
  <2>2. log[Tip].tree # main.tree
    BY <1>3, <2>1 DEF Patched
  <2>3. /\ acc'.pc = "commit" /\ acc'.task = acc.task /\ acc'.env = acc.env
        /\ acc'.hand = acc.hand /\ UNCHANGED <<log, main, gate>>
    BY <1>1, <1>4, GotoIs DEF AcceptPCs, Check
  <2>4. Checkout(Tip)' = Checkout(Tip) /\ Base' = Base /\ Patched' = Patched
    BY <2>3 DEF Checkout, Base, Tip, Patched
  <2> QED
    BY <1>2, <1>3, <2>1, <2>2, <2>3, <2>4 DEF Indexed, Copies
<1> QED
  BY <1>1, <1>2, <1>3, <1>4, CheckInvariant DEF AcceptPCs

LEMMA KillAcceptInvariant ==
  ASSUME IInv, KillAccept
  PROVE  IInv'
BY Mains, EndInvariant DEF KillAccept

Rewritten(k, x) == [k EXCEPT !.rewritten = x \/ k.rewritten]

\* A handoff a tool rewrote is a copy still.
LEMMA CopyIs ==
  ASSUME NEW h \in Handoffs, NEW k \in Copies(h)
  PROVE  k \in Handoffs /\ k.feature = h.feature /\ (k.waiting <=> h.waiting)
BY DEF Copies, Handoffs

LEMMA RewrittenIsCopy ==
  ASSUME NEW h \in Handoffs, NEW k \in Copies(h), NEW x \in BOOLEAN
  PROVE  Rewritten(k, x) \in Copies(h)
<1>1. CASE x
  BY <1>1 DEF Copies, Handoffs, Rewritten
<1>2. CASE ~x
  BY <1>2 DEF Copies, Handoffs, Rewritten
<1> QED
  BY <1>1, <1>2

LEMMA RunL1Invariant ==
  ASSUME IInv, NEW changed \in SUBSET Paths, NEW c \in Contents, NEW rewritten \in BOOLEAN,
         RunL1(changed, c, rewritten)
  PROVE  IInv'
<1> DEFINE u == acc.task
           tree == [p \in Paths |-> IF p \in changed THEN c ELSE box[u].tree[p]]
           h == Rewritten(box[u].hand, rewritten)
           b == [box[u] EXCEPT !.tree = tree, !.hand = h]
<1>1. /\ acc.pc = "l1" /\ UNCHANGED <<log, main, gate>> /\ DispatchUnchanged
      /\ Goto("rediff") \/ Refuse
  BY DEF RunL1
<1>2. /\ TypeOK /\ box \in [Tasks -> Box] /\ u \in Tasks /\ box[u] \in Box /\ acc.hand \in Handoffs
      /\ box[u].hand \in Copies(acc.hand) /\ ~Landed(u) /\ box[u].base = acc.env.ref
      /\ box[u].there /\ Reviewed /\ Indexed /\ Older(acc.env, u)
      /\ ~acc.hand.waiting
  BY <1>1, ReviewIs, Shapes DEF IInv
<1>3. box' = [box EXCEPT ![u] = b]
  BY <1>2 DEF RunL1, Rewritten
<1>4. tree \in Trees
  BY <1>2 DEF Trees, Box
<1>5. h \in Copies(acc.hand)
  BY <1>2, RewrittenIsCopy
<1> HIDE DEF tree, h
<1>6. /\ h \in Handoffs /\ h.feature = acc.hand.feature /\ ~h.waiting
      /\ box[u].hand \in Handoffs /\ box[u].hand.feature = acc.hand.feature
  BY <1>2, <1>5, CopyIs
<1>7. /\ b \in Box /\ b.base = box[u].base /\ b.told = box[u].told /\ b.hand = h
      /\ b.there
  BY <1>2, <1>4, <1>6 DEF Box
<1> HIDE DEF b
<1>8. \A t \in Tasks : box'[t] = IF t = u THEN b ELSE box[t]
  BY <1>2, <1>3
<1>9. /\ UNCHANGED <<log, main, gate, env, meta, disp>> /\ Tip' = Tip /\ Box' = Box
      /\ \A t : Landed(t)' <=> Landed(t)
      /\ \A e, t : Older(e, t)' <=> Older(e, t)
  BY <1>1, LogRests DEF DispatchUnchanged
<1>10. /\ acc' \in Review
       /\ acc'.pc # "idle" => /\ acc'.pc = "rediff" /\ acc'.task = u /\ acc'.env = acc.env
                              /\ acc'.hand = acc.hand
       /\ acc'.pc = "idle" => acc'.env = NoEnvelope
  <2>1. CASE Goto("rediff")
    <3>1. "rediff" \in AcceptPCs
      BY DEF AcceptPCs
    <3> QED
      BY <2>1, <3>1, GotoIs
  <2>2. CASE Refuse
    BY <2>2, Plain DEF Refuse, Review, Resting
  <2> QED
    BY <1>1, <2>1, <2>2
<1>11. TypeOK'
  <2>1. box' \in [Tasks -> Box]
    BY <1>2, <1>3, <1>7
  <2> QED
    BY <1>2, <1>9, <1>10, <2>1 DEF TypeOK, Box, Review
<1>12. Refs'
  <2>1. Older(acc'.env, acc'.task)
    BY <1>2, <1>10, AbsentAssumption DEF Older
  <2> QED
    BY <1>9, <2>1 DEF IInv, Refs, Older
<1>13. Boxes'
  <2>1. SUFFICES ASSUME NEW t \in Tasks, ~Landed(t)
        PROVE
        /\ \A d, e \in Dispatchers : Inside(d, t) /\ Inside(e, t) => d = e
        /\ \A d \in Dispatchers : Inside(d, t) => box'[t].there /\ box'[t].hand = NoHandoff
        /\ \A d \in Dispatchers :
             disp[d].pc = "done" /\ disp[d].task = t /\ disp[d].code = 0 =>
               box'[t].hand \in Handoffs /\ ~box'[t].hand.waiting
        /\ box'[t].hand \in Handoffs =>
             /\ box'[t].there
             /\ box'[t].told \in Envelopes /\ box'[t].told.feature = box'[t].hand.feature
    BY <1>9, <2>1 DEF Boxes, Inside
  <2>2. /\ \A d, e \in Dispatchers : Inside(d, t) /\ Inside(e, t) => d = e
        /\ \A d \in Dispatchers : Inside(d, t) => box[t].there /\ box[t].hand = NoHandoff
        /\ \A d \in Dispatchers :
             disp[d].pc = "done" /\ disp[d].task = t /\ disp[d].code = 0 =>
               box[t].hand \in Handoffs /\ ~box[t].hand.waiting
        /\ box[t].hand \in Handoffs =>
             /\ box[t].there
             /\ box[t].told \in Envelopes /\ box[t].told.feature = box[t].hand.feature
    BY <2>1 DEF IInv, Boxes
  <2>3. CASE t # u
    BY <1>8, <2>2, <2>3
  <2>4. CASE t = u
    <3>1. box'[t] = b /\ box[t].hand # NoHandoff
      BY <1>8, <1>6, <2>4, AbsentAssumption
    <3> QED
      BY <1>2, <1>7, <1>6, <2>2, <2>4, <3>1
  <2> QED
    BY <2>3, <2>4
<1>14. Accepting'
  <2>1. SUFFICES ASSUME acc'.pc # "idle"
                 PROVE  /\ Reviewed' /\ Indexed'
                        /\ ~Landed(u) /\ box'[u].base = acc.env.ref
    BY <1>9, <1>10 DEF Accepting
  <2>2. acc'.pc = "rediff" /\ acc'.task = u /\ acc'.env = acc.env /\ acc'.hand = acc.hand
    BY <1>10, <2>1
  <2>3. box'[u].base = acc.env.ref /\ box'[u].there /\ box'[u].hand \in Copies(acc.hand)
    BY <1>2, <1>5, <1>7, <1>8
  <2>4. Reviewed'
    BY <1>2, <1>9, <2>2, <2>3 DEF Reviewed, Copies
  <2>5. Indexed'
    BY <1>1, <1>2, <1>9, <2>2 DEF Indexed, Base, Checkout
  <2> QED
    BY <1>2, <2>3, <2>4, <2>5
<1>15. Running'
  BY <1>9 DEF IInv, Running
<1> QED
  BY <1>11, <1>12, <1>13, <1>14, <1>15 DEF IInv

-----------------------------------------------------------------------------
(* A commit *)

LEMMA CommitIs ==
  ASSUME IInv, NEW who \in Tasks \cup {Other, Gate}
  PROVE  [by |-> who, tree |-> main.tree, audits |-> main.audits] \in Commits
BY Shapes DEF IInv, Indexes, Commits

\* What a commit leaves of what was known: it comes last, and its author, if it
\* is a task, has an envelope.
LEMMA CommitInvariant ==
  ASSUME IInv, NEW r \in Commits, log' = Append(log, r), UNCHANGED <<box, env, meta, disp>>,
         main' \in Indexes, gate' \in Gates, acc' \in Review,
         Older(acc'.env, acc'.task),
         r.by \in Tasks => env[r.by] # NoEnvelope,
         Accepting'
  PROVE  IInv'
<1>1. /\ TypeOK /\ Tip \in Nat \ {0} /\ box \in [Tasks -> Box]
      /\ \A t \in Tasks : env[t] \in Envelopes => env[t].ref \in 1..Tip
  BY Shapes DEF IInv, Refs, Older
<1>2. /\ log' \in Seq(Commits) /\ Tip' = Tip + 1 /\ Tip' \in Nat \ {0}
      /\ \A t : Landed(t)' <=> Landed(t) \/ r.by = t
  BY <1>1, LogGrows, LandedIs
<1>3. \A e, t : Older(e, t) => Older(e, t)'
  BY <1>1, OlderStays
<1>4. TypeOK'
  <2>1. box' \in [Tasks -> Box']
    <3>1. \A n \in 1..Tip : n \in 1..Tip'
      BY <1>1, <1>2
    <3>2. \A b \in Box : b \in Box'
      BY <3>1 DEF Box
    <3> QED
      BY <1>1, <3>2
  <2>2. \A t \in Tasks : env'[t] \in Envelopes => env'[t].ref <= Tip'
    BY <1>1, <1>2
  <2>3. Tip' > 0
    BY <1>2
  <2> QED
    BY <1>1, <1>2, <2>1, <2>2, <2>3 DEF TypeOK, Box, Commits, Indexes, Review, Gates
<1>5. Refs'
  <2>1. \A t \in Tasks : Older(env[t], t)' /\ (Landed(t)' => env[t] # NoEnvelope)
    BY <1>2, <1>3 DEF IInv, Refs
  <2>2. \A d \in Dispatchers : Older(disp[d].env, disp[d].task)'
    <3>1. \A d \in Dispatchers : Older(disp[d].env, disp[d].task)
      BY DEF IInv, Refs
    <3>2. \A d \in Dispatchers : \A e, t : e = disp[d].env /\ t = disp[d].task => Older(e, t)'
      BY <1>3, <3>1
    <3> QED
      BY <3>2 DEF Older
  <2>3. Older(acc.env, acc.task)'
    <3>1. \A e, t : e = acc'.env /\ t = acc'.task => Older(e, t)'
      BY <1>3
    <3> QED
      BY <3>1 DEF Older
  <2> QED
    BY <2>1, <2>2, <2>3 DEF Refs
<1>6. Running' /\ Boxes'
  BY <1>2 DEF IInv, Running, Boxes, Inside
<1> QED
  BY <1>4, <1>5, <1>6 DEF IInv

LEMMA CommitStepInvariant ==
  ASSUME IInv, Commit
  PROVE  IInv'
<1> DEFINE r == [by |-> acc.task, tree |-> main.tree, audits |-> main.audits]
<1>1. /\ acc.pc = "commit" /\ UNCHANGED <<main, box>> /\ DispatchUnchanged
      /\ \/ log' = Append(log, r) /\ gate' = (IF gate = "staged" THEN "none" ELSE gate) /\ End
         \/ Refuse /\ UNCHANGED <<log, gate>>
  BY DEF Commit, Committed
<1>2. /\ acc.task \in Tasks /\ env[acc.task] # NoEnvelope /\ main \in Indexes /\ gate \in Gates
  BY <1>1, ReviewIs, Shapes DEF IInv, TypeOK, Gates
<1>3. CASE Refuse /\ UNCHANGED <<log, gate>>
  BY <1>1, <1>2, <1>3, EndInvariant
<1>4. CASE log' = Append(log, r) /\ gate' = (IF gate = "staged" THEN "none" ELSE gate) /\ End
  <2>1. r \in Commits /\ r.by = acc.task
    BY <1>2, CommitIs
  <2>2. acc' \in Review /\ acc'.pc = "idle" /\ acc'.env = NoEnvelope
    BY <1>4, Plain DEF End
  <2>3. Older(acc'.env, acc'.task) /\ Accepting'
    BY <2>2, AbsentAssumption DEF Older, Accepting
  <2>4. gate' \in Gates
    BY <1>2, <1>4 DEF Gates
  <2> HIDE DEF r
  <2> QED
    BY <1>1, <1>2, <1>4, <2>1, <2>2, <2>3, <2>4, CommitInvariant DEF DispatchUnchanged
<1> QED
  BY <1>1, <1>3, <1>4

LEMMA AcceptStepInvariant ==
  ASSUME IInv, AcceptStep
  PROVE  IInv'
<1>1. ASSUME NEW t \in Tasks, NEW apply \in BOOLEAN, StartAccept(t, apply)
      PROVE  IInv'
  BY <1>1, StartAcceptInvariant
<1>2. ASSUME NEW changed \in SUBSET Paths, NEW c \in Contents, NEW rewritten \in BOOLEAN,
             RunL1(changed, c, rewritten)
      PROVE  IInv'
  BY <1>2, RunL1Invariant
<1> QED
  BY <1>1, <1>2, CheckBaseInvariant, FirstDiffInvariant, SecondDiffInvariant, RecheckInvariant,
     ApplyInvariant, KeepAuditInvariant, CheckStagedInvariant, CommitStepInvariant,
     KillAcceptInvariant DEF AcceptStep

-----------------------------------------------------------------------------
(* The others *)

\* Between two reviews, or where index and HEAD stay as they are, nothing that
\* a review relies on changes.
LEMMA OtherInvariant ==
  ASSUME IInv, UNCHANGED <<log, box>>, OthersUnchanged, main' \in Indexes, gate' \in Gates,
         acc.pc = "idle" \/ (UNCHANGED main /\ gate # "none")
  PROVE  IInv'
<1>1. UNCHANGED <<env, meta, disp, acc>> /\ acc \in Review /\ Older(acc.env, acc.task)
  BY Shapes DEF OthersUnchanged, IInv, Refs
<1>2. \A t : Landed(t)' <=> Landed(t)
  BY LogRests
<1>3. CASE acc.pc = "idle"
  <2>1. Accepting'
    BY <1>1, <1>3 DEF Accepting
  <2> QED
    BY <1>1, <2>1, StillInvariant DEF DispatchUnchanged
<1>4. CASE acc.pc # "idle"
  <2>1. Reviewed /\ Indexed /\ UNCHANGED main /\ gate # "none"
    BY <1>4, ReviewIs
  <2>2. Reviewed'
    BY <1>1, <1>2, <2>1 DEF Reviewed, Copies
  <2>3. Indexed'
    BY <1>1, <2>1 DEF Indexed, Base, Checkout, Patched, Tip, Copies
  <2>4. Accepting'
    BY <1>1, <1>2, <1>4, <2>2, <2>3 DEF IInv, Accepting
  <2> QED
    BY <1>1, <2>4, StillInvariant DEF DispatchUnchanged
<1> QED
  BY <1>3, <1>4

LEMMA GateStepInvariant ==
  ASSUME IInv, EditGate \/ AbandonGate \/ StageGate
  PROVE  IInv'
<1>1. /\ UNCHANGED <<log, main, box>> /\ OthersUnchanged /\ gate # "none" /\ gate' \in Gates
  BY DEF EditGate, AbandonGate, StageGate, Gates
<1>2. main' \in Indexes
  BY <1>1, Shapes DEF IInv
<1> QED
  BY <1>1, <1>2, OtherInvariant

LEMMA RestoreInvariant ==
  ASSUME IInv, Restore
  PROVE  IInv'
<1>1. /\ acc.pc = "idle" /\ UNCHANGED <<log, gate, box>> /\ OthersUnchanged
      /\ main' = Checkout(Tip) /\ gate' \in Gates
  BY DEF Restore, IInv, TypeOK, Gates
<1>2. Checkout(Tip) \in Indexes
  <2>1. log[Tip] \in Commits
    BY Shapes DEF IInv
  <2> QED
    BY <2>1 DEF Checkout, Indexes, Commits
<1> QED
  BY <1>1, <1>2, OtherInvariant

\* A commit of the others lands no task.
LEMMA OthersCommit ==
  ASSUME IInv, NEW r \in Commits, r.by \in {Other, Gate}, log' = Append(log, r), UNCHANGED box,
         OthersUnchanged, main' \in Indexes, gate' \in Gates, Accepting'
  PROVE  IInv'
<1>1. UNCHANGED <<env, meta, disp, acc>> /\ acc \in Review /\ Older(acc.env, acc.task)
  BY Shapes DEF OthersUnchanged, IInv, Refs
<1>2. r.by \notin Tasks
  BY AuthorsAssumption
<1> QED
  BY <1>1, <1>2, CommitInvariant

LEMMA CommitOtherInvariant ==
  ASSUME IInv, NEW p \in Paths, NEW c \in Contents, CommitOther(p, c)
  PROVE  IInv'
<1> DEFINE m == [main EXCEPT !.tree[p] = c]
           r == [by |-> Other, tree |-> m.tree, audits |-> main.audits]
<1>1. /\ acc.pc = "idle" /\ main' = m /\ UNCHANGED <<gate, box>> /\ OthersUnchanged
      /\ log' = Append(log, r)
  BY DEF CommitOther
<1>2. main \in Indexes /\ gate' \in Gates
  BY <1>1, Shapes DEF IInv, TypeOK, Gates
<1>3. m \in Indexes
  BY <1>2 DEF Indexes, Trees
<1>4. r \in Commits /\ r.by = Other
  BY <1>2, <1>3 DEF Commits, Indexes
<1>5. Accepting'
  BY <1>1 DEF OthersUnchanged, Accepting
<1> HIDE DEF m, r
<1> QED
  BY <1>1, <1>2, <1>3, <1>4, <1>5, OthersCommit

LEMMA RaiseGateInvariant ==
  ASSUME IInv, RaiseGate
  PROVE  IInv'
<1> DEFINE r == [by |-> Other, tree |-> main.tree, audits |-> main.audits]
<1>1. /\ acc.pc = "idle" /\ UNCHANGED <<main, box>> /\ OthersUnchanged
      /\ log' = Append(log, r) /\ gate' = "pending"
  BY DEF RaiseGate, Committed
<1>2. main' \in Indexes /\ gate' \in Gates /\ r \in Commits /\ r.by = Other
  BY <1>1, CommitIs, Shapes DEF IInv, Gates
<1>3. Accepting'
  BY <1>1 DEF OthersUnchanged, Accepting
<1> HIDE DEF r
<1> QED
  BY <1>1, <1>2, <1>3, OthersCommit

\* A gate may be committed during a review, with whatever the index holds.
LEMMA CommitGateInvariant ==
  ASSUME IInv, CommitGate
  PROVE  IInv'
<1> DEFINE r == [by |-> Gate, tree |-> main.tree, audits |-> main.audits]
<1>1. /\ UNCHANGED <<main, box>> /\ OthersUnchanged /\ UNCHANGED <<env, meta, disp, acc>>
      /\ log' = Append(log, r) /\ gate' = "none"
  BY DEF CommitGate, Committed, OthersUnchanged
<1>2. main' \in Indexes /\ gate' \in Gates /\ r \in Commits /\ r.by = Gate /\ main \in Indexes
  BY <1>1, CommitIs, Shapes DEF IInv, Gates
<1>3. Accepting'
  <2>1. CASE acc.pc = "idle"
    BY <1>1, <2>1 DEF Accepting
  <2>2. CASE acc.pc # "idle"
    <3>1. /\ Reviewed /\ Indexed /\ acc.task \in Tasks /\ acc.env.ref \in 1..Tip
          /\ acc.pc # "base" => ~Landed(acc.task) /\ box[acc.task].base = acc.env.ref
      BY <2>2, ReviewIs
    <3>2. /\ log'[Tip'] = r /\ \A n \in 1..Tip : log'[n] = log[n]
          /\ \A t \in Tasks : Landed(t)' <=> Landed(t)
      BY <1>1, <1>2, LogGrows, LandedIs, AuthorsAssumption DEF IInv
    <3>3. Reviewed'
      BY <1>1, <3>1, <3>2 DEF Reviewed, Copies
    <3>4. log'[acc.env.ref] = log[acc.env.ref]
      BY <3>1, <3>2
    <3>5. Checkout(Tip)' = main /\ Base' = Base /\ log'[Tip'].tree = main.tree
      <4>1. log'[Tip'].tree = main.tree /\ log'[Tip'].audits = main.audits
        BY <3>2 DEF r
      <4>2. main = [tree |-> main.tree, audits |-> main.audits]
        BY <1>2 DEF Indexes
      <4>3. Checkout(Tip)' = [tree |-> log'[Tip'].tree, audits |-> log'[Tip'].audits]
        BY DEF Checkout
      <4>4. Base' = Base
        BY <1>1, <3>4 DEF Base, Checkout
      <4> QED
        BY <4>1, <4>2, <4>3, <4>4
    <3>6. Indexed'
      BY <1>1, <3>1, <3>5 DEF Indexed, Copies
    <3> QED
      BY <1>1, <2>2, <3>1, <3>2, <3>3, <3>6 DEF Accepting
  <2> QED
    BY <2>1, <2>2
<1> HIDE DEF r
<1> QED
  BY <1>1, <1>2, <1>3, OthersCommit

\* The clone of a task that landed may go.
LEMMA RemoveCloneInvariant ==
  ASSUME IInv, NEW t \in Tasks, RemoveClone(t)
  PROVE  IInv'
<1>1. /\ acc.pc = "idle" /\ Landed(t) /\ box' = [box EXCEPT ![t] = NoBox]
      /\ UNCHANGED <<log, main, gate, env, meta, disp, acc>>
  BY DEF RemoveClone, Landed, OthersUnchanged
<1>2. /\ TypeOK /\ box \in [Tasks -> Box] /\ NoBox \in Box /\ Tip' = Tip
      /\ \A u : Landed(u)' <=> Landed(u)
      /\ \A e, u : Older(e, u)' <=> Older(e, u)
  BY <1>1, LogRests, Shapes, BoxIs DEF IInv
<1>3. TypeOK'
  <2>1. box' \in [Tasks -> Box]
    BY <1>1, <1>2
  <2> QED
    BY <1>1, <1>2, <2>1 DEF TypeOK, Box
<1>4. Refs'
  BY <1>1, <1>2 DEF IInv, Refs, Older
<1>5. Boxes'
  <2>1. \A u \in Tasks : ~Landed(u) => box'[u] = box[u]
    BY <1>1, <1>2
  <2> QED
    BY <1>1, <1>2, <2>1 DEF IInv, Boxes, Inside
<1>6. Running' /\ Accepting'
  BY <1>1 DEF IInv, Running, Accepting
<1> QED
  BY <1>3, <1>4, <1>5, <1>6 DEF IInv

LEMMA OthersStepInvariant ==
  ASSUME IInv, OthersStep
  PROVE  IInv'
<1>1. ASSUME NEW p \in Paths, NEW c \in Contents, CommitOther(p, c)
      PROVE  IInv'
  BY <1>1, CommitOtherInvariant
<1>2. ASSUME NEW t \in Tasks, RemoveClone(t)
      PROVE  IInv'
  BY <1>2, RemoveCloneInvariant
<1> QED
  BY <1>1, <1>2, RaiseGateInvariant, GateStepInvariant, CommitGateInvariant, RestoreInvariant
     DEF OthersStep

-----------------------------------------------------------------------------
(* The theorems *)

LEMMA InitInvariant ==
  ASSUME Init
  PROVE  IInv
<1> DEFINE r == [by |-> Other, tree |-> [p \in Paths |-> Original],
                 audits |-> [t \in Tasks |-> NoHandoff]]
<1>1. log = <<r>> /\ main = Checkout(1)
  BY DEF Init
<1>2. /\ r \in Commits /\ r.by = Other /\ [tree |-> r.tree, audits |-> r.audits] \in Indexes
  BY Plain DEF Commits, Indexes, Audits
<1> HIDE DEF r
<1>3. /\ log \in Seq(Commits) /\ Tip = 1 /\ log[1] = r /\ main \in Indexes
  BY <1>1, <1>2 DEF Tip, Checkout
<1>4. \A t \in Tasks : ~Landed(t)
  BY <1>2, <1>3, AuthorsAssumption DEF Landed
<1>5. /\ NoBox \in Box /\ NotRun \in Run /\ NotRun.pc = "idle" /\ NotRun.env = NoEnvelope
      /\ Resting \in Review /\ Resting.pc = "idle" /\ Resting.env = NoEnvelope
      /\ NoBox.hand = NoHandoff
  BY <1>3, Plain DEF NoBox, NotRun, Box
<1>6. /\ gate = "none" /\ env = [t \in Tasks |-> NoEnvelope] /\ meta = [t \in Tasks |-> NoMeta]
      /\ box = [t \in Tasks |-> NoBox] /\ disp = [d \in Dispatchers |-> NotRun]
      /\ acc = Resting
  BY DEF Init
<1> HIDE DEF NoBox, NotRun, Resting
<1>7. TypeOK
  BY <1>3, <1>5, <1>6, AbsentAssumption DEF TypeOK, Commits, Indexes, Box, Run, Review
<1>8. Refs
  BY <1>4, <1>5, <1>6, AbsentAssumption DEF Refs, Older
<1>9. Running /\ Accepting
  BY <1>5, <1>6 DEF Running, Accepting
<1>10. Boxes
  BY <1>5, <1>6, AbsentAssumption DEF Boxes, Inside
<1> QED
  BY <1>7, <1>8, <1>9, <1>10 DEF IInv

LEMMA NextInvariant ==
  ASSUME IInv, [Next]_vars
  PROVE  IInv'
<1>1. CASE UNCHANGED vars
  <2>1. /\ UNCHANGED <<log, main, gate, env, meta, box, disp, acc>> /\ Tip' = Tip
        /\ \A t : Landed(t)' <=> Landed(t)
        /\ \A e, t : Older(e, t)' <=> Older(e, t)
    BY <1>1, LogRests DEF vars
  <2>2. TypeOK' /\ Running' /\ Boxes' /\ Refs'
    BY <2>1 DEF IInv, TypeOK, Running, Boxes, Inside, Refs, Older
  <2>3. Accepting'
    BY <2>1 DEF IInv, Accepting, Reviewed, Indexed, Base, Checkout, Patched, Copies
  <2> QED
    BY <2>2, <2>3 DEF IInv
<1>2. ASSUME NEW d \in Dispatchers, DispatchStep(d)
      PROVE  IInv'
  BY <1>2, DispatchStepInvariant
<1> QED
  BY <1>1, <1>2, AcceptStepInvariant, OthersStepInvariant DEF Next

\* The invariant holds of every behaviour of dispatches, acceptor and the others.
THEOREM Invariance == Spec => []IInv
<1>1. Init => IInv
  BY InitInvariant
<1>2. IInv /\ [Next]_vars => IInv'
  BY NextInvariant
<1> QED
  BY <1>1, <1>2, PTL DEF Spec

\* Every variable has its type.
THEOREM TypeCorrect == Spec => []TypeOK
<1>1. IInv => TypeOK
  BY DEF IInv
<1> QED
  BY <1>1, Invariance, PTL

\* From the moment the acceptor compared the clone with HEAD, no dispatch runs an
\* agent for the task under review.
THEOREM ReviewedInPeace == Spec => []NoAgentUnderReview
<1>1. IInv => NoAgentUnderReview
  <2>1. SUFFICES ASSUME IInv, acc.pc \notin {"idle", "base"}, NEW d \in Dispatchers,
                        disp[d].pc = "agent", disp[d].task = acc.task
                 PROVE  FALSE
    BY DEF NoAgentUnderReview
  <2>2. /\ acc.task \in Tasks /\ ~Landed(acc.task) /\ acc.hand \in Handoffs
        /\ box[acc.task].hand \in Copies(acc.hand)
    BY <2>1, ReviewIs
  <2>3. box[acc.task].hand = NoHandoff
    BY <2>1, <2>2 DEF IInv, Boxes, Inside
  <2> QED
    BY <2>2, <2>3, CopyIs, AbsentAssumption
<1> QED
  BY <1>1, Invariance, PTL

\* Only the acceptor lands a task, and its own.
LEMMA LandsByCommit ==
  ASSUME IInv, Next, NEW t \in Tasks, Lands(t)
  PROVE  Commit /\ acc.task = t /\ log' # log
<1>1. log' # log
  BY DEF Lands, Tip
<1>2. \A r \in Commits : log' = Append(log, r) => r.by = t
  <2>1. SUFFICES ASSUME NEW r \in Commits, log' = Append(log, r)
                 PROVE  r.by = t
    OBVIOUS
  <2>2. log'[Tip'] = r
    BY <2>1, LogGrows DEF IInv
  <2> QED
    BY <2>2 DEF Lands, Tip
<1>3. \A who \in {Other, Gate} : ~Committed(who)
  <2>1. SUFFICES ASSUME NEW who \in {Other, Gate}, Committed(who)
                 PROVE  FALSE
    OBVIOUS
  <2> DEFINE r == [by |-> who, tree |-> main.tree, audits |-> main.audits]
  <2>2. r \in Commits /\ log' = Append(log, r) /\ r.by = who
    BY <2>1, CommitIs DEF Committed
  <2> HIDE DEF r
  <2> QED
    BY <1>2, <2>2, AuthorsAssumption
<1>4. ASSUME NEW d \in Dispatchers
      PROVE  ~DispatchStep(d)
  BY <1>1 DEF DispatchStep, MainUnchanged, Commission, WriteEnvelope, ReadProfile, Clone, Launch,
              AgentEnds, WriteMeta, Report, KillDispatch
<1>5. ~OthersStep
  <2>1. ASSUME NEW p \in Paths, NEW c \in Contents
        PROVE  ~CommitOther(p, c)
    <3> DEFINE m == [main EXCEPT !.tree[p] = c]
               r == [by |-> Other, tree |-> m.tree, audits |-> main.audits]
    <3>1. SUFFICES ASSUME CommitOther(p, c)
                   PROVE  FALSE
      OBVIOUS
    <3>2. log' = Append(log, r) /\ r.by = Other
      BY <3>1 DEF CommitOther
    <3>3. r \in Commits
      <4>1. main \in Indexes
        BY Shapes DEF IInv
      <4>2. m \in Indexes
        BY <4>1 DEF Indexes, Trees
      <4> QED
        BY <4>1, <4>2 DEF Commits, Indexes
    <3> HIDE DEF r
    <3> QED
      BY <1>2, <3>2, <3>3, AuthorsAssumption
  <2> QED
    BY <1>1, <1>3, <2>1 DEF OthersStep, RaiseGate, EditGate, AbandonGate, StageGate, CommitGate,
                            Restore, RemoveClone
<1>6. AcceptStep => Commit
  BY <1>1 DEF AcceptStep, StartAccept, CheckBase, FirstDiff, RunL1, SecondDiff, Recheck, Apply,
              KeepAudit, CheckStaged, KillAccept, Check
<1>7. Commit
  BY <1>4, <1>5, <1>6 DEF Next
<1>8. acc.task = t
  <2>1. Committed(acc.task) /\ acc.pc = "commit"
    BY <1>1, <1>7 DEF Commit
  <2> DEFINE r == [by |-> acc.task, tree |-> main.tree, audits |-> main.audits]
  <2>2. r \in Commits /\ log' = Append(log, r) /\ r.by = acc.task
    BY <2>1, CommitIs, ReviewIs DEF Committed
  <2> HIDE DEF r
  <2> QED
    BY <1>2, <2>2
<1> QED
  BY <1>1, <1>7, <1>8

\* What the acceptor commits is what was reviewed, on the tree it was reviewed
\* against, with the handoff that was validated and for the feature it was made for.
THEOREM ReviewIsCommitted == Spec => LandsAsReviewed
<1>1. ASSUME IInv, [Next]_vars, NEW t \in Tasks, Lands(t)
      PROVE  LET landed == log'[Len(log')] IN
             /\ box[t].base = acc.env.ref
             /\ log[Tip].tree = log[acc.env.ref].tree
             /\ {p \in Paths : landed.tree[p] # log[Tip].tree[p]} = acc.hand.files
             /\ log[Tip].audits[t] = NoHandoff
             /\ landed.audits[t] \in {acc.hand, [acc.hand EXCEPT !.rewritten = TRUE]}
             /\ box[t].told \in Envelopes /\ box[t].told.feature = acc.env.feature
             /\ ~acc.hand.waiting
  <2> DEFINE r == [by |-> acc.task, tree |-> main.tree, audits |-> main.audits]
  <2>1. Next
    BY <1>1 DEF Lands, vars, Tip
  <2>2. Commit /\ acc.task = t /\ log' # log
    BY <1>1, <2>1, LandsByCommit
  <2>3. /\ acc.pc = "commit" /\ (main # Checkout(Tip) \/ gate = "staged")
        /\ log' = Append(log, r)
    BY <2>2 DEF Commit, Committed
  <2>4. /\ ~Landed(t) /\ box[t].base = acc.env.ref /\ box[t].hand \in Copies(acc.hand)
        /\ acc.hand \in Handoffs /\ ~acc.hand.waiting /\ acc.hand.feature = acc.env.feature
        /\ Indexed
    BY <1>1, <2>2, <2>3, ReviewIs
  <2>5. /\ Checkout(Tip) = Base /\ Patched = acc.hand.files
        /\ Base.audits[t] = NoHandoff /\ main.audits[t] \in Copies(acc.hand)
    BY <2>2, <2>3, <2>4 DEF Indexed
  <2>6. log[Tip].tree = log[acc.env.ref].tree /\ log[Tip].audits[t] = NoHandoff
    BY <2>5 DEF Checkout, Base
  <2>7. log'[Len(log')] = r
    <3>1. r \in Commits
      BY <1>1, <2>3, CommitIs, ReviewIs
    <3> QED
      BY <1>1, <2>3, <3>1, LogGrows DEF IInv, Tip
  <2>8. box[t].told \in Envelopes /\ box[t].told.feature = acc.env.feature
    <3>1. box[t].hand \in Handoffs /\ box[t].hand.feature = acc.hand.feature
      BY <2>4, CopyIs
    <3> QED
      BY <1>1, <2>4, <3>1 DEF IInv, Boxes
  <2> QED
    BY <2>4, <2>5, <2>6, <2>7, <2>8 DEF Patched, Copies
<1>2. IInv /\ [Next]_vars =>
        [\A t \in Tasks : Lands(t) =>
           LET landed == log'[Len(log')] IN
           /\ box[t].base = acc.env.ref
           /\ log[Tip].tree = log[acc.env.ref].tree
           /\ {p \in Paths : landed.tree[p] # log[Tip].tree[p]} = acc.hand.files
           /\ log[Tip].audits[t] = NoHandoff
           /\ landed.audits[t] \in {acc.hand, [acc.hand EXCEPT !.rewritten = TRUE]}
           /\ box[t].told \in Envelopes /\ box[t].told.feature = acc.env.feature
           /\ ~acc.hand.waiting ]_vars
  BY <1>1
<1> QED
  BY <1>2, Invariance, PTL DEF Spec, LandsAsReviewed

=============================================================================
