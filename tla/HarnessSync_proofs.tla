-------------------------- MODULE HarnessSync_proofs --------------------------
(***************************************************************************)
(* For any files, contents and source trees, whatever the user edits and   *)
(* whenever a command is killed: no managed edit is overwritten, nothing   *)
(* seeded is replaced, and the lock names the version it was aligned with; *)
(* and while none is killed, upgrading goes on.                            *)
(***************************************************************************)
EXTENDS HarnessSync, TLAPS

IsLock(l) ==
  l = [status |-> l.status, version |-> l.version, managed |-> l.managed,
       sha256 |-> l.sha256, upstream |-> l.upstream]

IsJob ==
  job = [cmd |-> job.cmd, phase |-> job.phase, tree |-> job.tree, todo |-> job.todo,
         lock |-> job.lock]

(* The shape of the two records, and what goes with a running command.     *)
Shape ==
  /\ IsLock(lock) /\ IsLock(job.lock) /\ IsJob
  /\ lock.status # "ok" => lock.managed = {}
  /\ lock.status = "ok" => lock.version \in Trees
  /\ job.phase = "idle" => job = Idle
  /\ job.phase # "idle" =>
       /\ job.cmd # "none" /\ job.tree \in Trees
       /\ job.lock.status = "ok" /\ job.lock.version \in Trees
  /\ job.phase = "copy" => job.cmd \in {"init", "sync"}

(* What may be copied is missing, or what the framework last gave.         *)
MayCopy(f, tr) ==
  /\ f \in lock.managed => proj[f] \in {Absent, lock.upstream[f]}
  /\ tr[f].kind = "seeded" => proj[f] = Absent

(* The plan is made before the first copy, and remains true to the last.   *)
PlanIsSafe ==
  job.phase = "copy" => \A f \in job.todo : MayCopy(f, job.tree)

(* A lock is aligned to its version but for the files in S.                *)
AlignedBut(l, S) ==
  \A f \in l.managed \ S : l.upstream[f] = l.version[f].content

ResolvedFiles == {f \in Files : resolved[f] # NoTree}

(* So is the lock in place, and the one a command is about to write.       *)
Aligned ==
  /\ AlignedBut(lock, ResolvedFiles)
  /\ job.cmd = "resolve" => AlignedBut(job.lock, ResolvedFiles \cup job.todo)
  /\ job.cmd # "resolve" => AlignedBut(job.lock, {})

IInv == TypeOK /\ Shape /\ PlanIsSafe /\ Aligned

-----------------------------------------------------------------------------
(* Nothing recorded and nothing running.                                   *)
LEMMA NothingYet ==
  /\ LockOK(NoLock) /\ IsLock(NoLock) /\ NoLock.managed = {} /\ NoLock.status = "none"
  /\ LockOK(Torn) /\ IsLock(Torn) /\ Torn.managed = {} /\ Torn.status = "torn"
  <1>1. Empty \in [{} -> Contents] /\ Empty \in [{} -> Upstream]
    BY DEF Empty
  <1>2. NoLock.status = "none" /\ NoLock.version = NoTree /\ NoLock.managed = {}
        /\ NoLock.sha256 = Empty /\ NoLock.upstream = Empty /\ IsLock(NoLock)
    BY DEF NoLock, IsLock
  <1>3. Torn.status = "torn" /\ Torn.version = NoTree /\ Torn.managed = {}
        /\ Torn.sha256 = Empty /\ Torn.upstream = Empty /\ IsLock(Torn)
    BY DEF NoLock, Torn, IsLock
  <1> QED BY <1>1, <1>2, <1>3 DEF LockOK

LEMMA IdleFacts ==
  /\ Idle.cmd = "none" /\ Idle.phase = "idle" /\ Idle.tree = NoTree
  /\ Idle.todo = {} /\ Idle.lock = NoLock
  /\ Idle = [cmd |-> Idle.cmd, phase |-> Idle.phase, tree |-> Idle.tree,
             todo |-> Idle.todo, lock |-> Idle.lock]
  BY DEF Idle

LEMMA InitIInv == Init => IInv
  <1> SUFFICES ASSUME Init PROVE IInv
    OBVIOUS
  <1>1. crashed \in BOOLEAN
    BY DEF Init
  <1>2. TypeOK
    BY <1>1, NothingYet, IdleFacts DEF Init, TypeOK, Contents
  <1>3. Shape
    BY NothingYet, IdleFacts DEF Init, Shape, IsJob
  <1>4. PlanIsSafe /\ Aligned
    BY NothingYet, IdleFacts DEF Init, PlanIsSafe, MayCopy, Aligned, AlignedBut
  <1> QED BY <1>2, <1>3, <1>4 DEF IInv

(* What a command plans is a lock. *)
LEMMA LockedIsLock ==
  ASSUME NEW tr \in Trees, NEW M \in SUBSET Files,
         NEW s \in [M -> Contents], NEW w \in [M -> Upstream]
  PROVE  LET l == Locked(tr, M, s, w) IN
           /\ LockOK(l) /\ IsLock(l) /\ l.status = "ok"
           /\ l.version = tr /\ l.managed = M /\ l.sha256 = s /\ l.upstream = w
  BY DEF Locked, LockOK, IsLock

(* A tree has a content for every path. *)
LEMMA TreeFacts ==
  ASSUME NEW tr \in Trees
  PROVE  /\ tr # NoTree /\ Managed(tr) \subseteq Files
         /\ \A f \in Files : tr[f].content \in Upstream
         /\ \A M \in SUBSET Files :
              Of(tr, M) \in [M -> Upstream] /\ Of(tr, M) \in [M -> Contents]
  BY TreesAssumption DEF Managed, Of, Contents

(* What a command has to show for itself when it starts. *)
LEMMA RunStep ==
  ASSUME IInv, job = Idle,
         NEW cmd \in {"init", "sync", "adopt", "resolve"},
         NEW phase \in {"copy", "lock"},
         NEW tr \in Trees, NEW todo \in SUBSET Files, NEW l,
         Run(cmd, phase, tr, todo, l), own' \subseteq Files,
         LockOK(l), IsLock(l), l.status = "ok", l.version \in Trees,
         phase = "copy" =>
           /\ cmd \in {"init", "sync"}
           /\ \A f \in todo : MayCopy(f, tr),
         AlignedBut(l, IF cmd = "resolve" THEN ResolvedFiles \cup todo ELSE {})
  PROVE  IInv'
  <1>1. /\ job'.cmd = cmd /\ job'.phase = phase /\ job'.tree = tr
        /\ job'.todo = todo /\ job'.lock = l
    BY DEF Run
  <1>2. IsJob'
    BY <1>1 DEF Run, IsJob
  <1>3. UNCHANGED <<proj, lock, json, resolved, crashed>>
    BY DEF Run
  <1>4. TypeOK'
    BY <1>1, <1>3 DEF IInv, TypeOK, LockOK
  <1>5. Shape'
    BY <1>1, <1>2, <1>3 DEF IInv, Shape, IsLock
  <1>6. PlanIsSafe'
    BY <1>1, <1>3 DEF PlanIsSafe, MayCopy
  <1>7. ResolvedFiles' = ResolvedFiles /\ AlignedBut(lock, ResolvedFiles)
    BY <1>3 DEF IInv, Aligned, ResolvedFiles
  <1>8. Aligned'
    <2>1. AlignedBut(lock', ResolvedFiles')
      BY <1>3, <1>7 DEF AlignedBut
    <2>2. CASE cmd = "resolve"
      BY <1>1, <1>7, <2>1, <2>2 DEF Aligned, AlignedBut
    <2>3. CASE cmd # "resolve"
      BY <1>1, <1>7, <2>1, <2>3 DEF Aligned, AlignedBut
    <2> QED BY <2>2, <2>3
  <1> QED BY <1>4, <1>5, <1>6, <1>8 DEF IInv

-----------------------------------------------------------------------------
(* The commands start.                                                     *)

(* init finds no lock, so nothing is managed yet. *)
LEMMA InitProjectStep ==
  ASSUME IInv, NEW tr \in Trees, InitProject(tr) PROVE IInv'
  <1> DEFINE M == Managed(tr)
             l == Locked(tr, M, Of(tr, M), Of(tr, M))
  <1>1. /\ LockOK(l) /\ IsLock(l) /\ l.status = "ok" /\ l.version = tr
        /\ l.managed = M /\ l.upstream = Of(tr, M)
    BY TreeFacts, LockedIsLock
  <1>2. AlignedBut(l, {})
    BY <1>1 DEF AlignedBut, Of
  <1>3. Installed(tr) \subseteq Files
    BY DEF Installed, Managed, Seeded
  <1>4. lock.managed = {}
    BY DEF IInv, Shape, InitProject
  <1>5. \A f \in Installed(tr) : MayCopy(f, tr)
    BY <1>4 DEF Installed, Managed, Seeded, MayCopy
  <1>6. job = Idle /\ own' \subseteq Files /\ Run("init", "copy", tr, Installed(tr), l)
    BY DEF InitProject, IInv, TypeOK
  <1> QED
    BY <1>1, <1>2, <1>3, <1>4, <1>5, <1>6, RunStep

(* sync copies no file that conflicts; the lock of the upgrade is aligned  *)
(* because what is not copied has not changed upstream either.             *)
LEMMA SyncStep ==
  ASSUME IInv, NEW tr \in Trees, Sync(tr) PROVE IInv'
  <1> DEFINE copied == Updated(tr) \cup Added(tr)
             M == (lock.managed \cap Managed(tr)) \cup copied
             s == [f \in M |-> IF f \in copied THEN tr[f].content ELSE lock.sha256[f]]
             w == [f \in M |-> IF f \in copied THEN tr[f].content ELSE lock.upstream[f]]
  <1>1. copied \subseteq Managed(tr) /\ Managed(tr) \subseteq Files /\ M \subseteq Files
    BY DEF Updated, Added, Known, Managed
  <1>2. M \ copied \subseteq lock.managed
    OBVIOUS
  <1>3. \A f \in Files : tr[f].content \in Upstream /\ tr[f].content \in Contents
    BY TreeFacts DEF Contents
  <1>4. \A f \in lock.managed : lock.sha256[f] \in Contents /\ lock.upstream[f] \in Upstream
    BY DEF IInv, TypeOK, LockOK
  <1>5. s \in [M -> Contents] /\ w \in [M -> Upstream]
    BY <1>1, <1>2, <1>3, <1>4
  <1>6. LET l == Locked(tr, M, s, w) IN
          /\ LockOK(l) /\ IsLock(l) /\ l.status = "ok" /\ l.version = tr
          /\ l.managed = M /\ l.upstream = w
    <2>1. M \in SUBSET Files
      BY <1>1
    <2> HIDE DEF M, s, w
    <2> QED BY <2>1, <1>5, LockedIsLock
  <1>7. Upgraded(tr) = Locked(tr, M, s, w)
    BY DEF Upgraded
  <1>8. AlignedBut(Upgraded(tr), {})
    <2> SUFFICES ASSUME NEW f \in M PROVE w[f] = tr[f].content
      BY <1>6, <1>7 DEF AlignedBut
    <2>1. CASE f \in copied
      BY <2>1
    <2>2. CASE f \notin copied
      BY <2>2, <1>1 DEF Updated, Added, Known, Conflicts, Changed, Sync
    <2> QED BY <2>1, <2>2
  <1>9. \A f \in copied : MayCopy(f, tr)
    BY DEF Updated, Added, Known, Managed, Diverged, MayCopy
  <1>10. job = Idle /\ own' \subseteq Files /\ Run("sync", "copy", tr, copied, Upgraded(tr))
    BY DEF Sync, IInv, TypeOK
  <1>11. /\ LockOK(Upgraded(tr)) /\ IsLock(Upgraded(tr))
         /\ Upgraded(tr).status = "ok" /\ Upgraded(tr).version \in Trees
    BY <1>6, <1>7
  <1>12. copied \in SUBSET Files
    BY <1>1
  <1> HIDE DEF copied, M, s, w
  <1> QED
    BY <1>8, <1>9, <1>10, <1>11, <1>12, RunStep

(* adopt records what is there against what the tree would have. *)
LEMMA AdoptStep ==
  ASSUME IInv, NEW tr \in Trees, Adopt(tr) PROVE IInv'
  <1> DEFINE M == {f \in Managed(tr) : proj[f] # Absent}
             l == Locked(tr, M, [f \in M |-> proj[f]], Of(tr, M))
  <1>1. M \subseteq Files /\ [f \in M |-> proj[f]] \in [M -> Contents]
    BY DEF Managed, IInv, TypeOK
  <1>2. /\ LockOK(l) /\ IsLock(l) /\ l.status = "ok" /\ l.version = tr
        /\ l.managed = M /\ l.upstream = Of(tr, M)
    BY <1>1, TreeFacts, LockedIsLock
  <1>3. AlignedBut(l, {})
    BY <1>2 DEF AlignedBut, Of
  <1>4. job = Idle /\ own' \subseteq Files /\ Run("adopt", "lock", tr, {}, l)
    BY DEF Adopt, IInv, TypeOK, Managed
  <1> HIDE DEF M, l
  <1> QED
    BY <1>2, <1>3, <1>4, RunStep

(* resolve moves one file on, and leaves the rest of the lock.             *)
LEMMA ResolveStep ==
  ASSUME IInv, NEW tr \in Trees, NEW f \in Files, Resolve(tr, f) PROVE IInv'
  <1> DEFINE l == [lock EXCEPT !.sha256[f] = proj[f], !.upstream[f] = tr[f].content]
  <1>1. f \in lock.managed /\ proj[f] \in Contents /\ tr[f].content \in Upstream
    BY TreeFacts DEF Resolve, Known, IInv, TypeOK
  <1>2. /\ l.status = lock.status /\ l.version = lock.version /\ l.managed = lock.managed
        /\ l.sha256 = [lock.sha256 EXCEPT ![f] = proj[f]]
        /\ l.upstream = [lock.upstream EXCEPT ![f] = tr[f].content]
        /\ IsLock(l)
    <2> DEFINE r == [status |-> lock.status, version |-> lock.version,
                     managed |-> lock.managed, sha256 |-> lock.sha256,
                     upstream |-> lock.upstream]
    <2>1. lock = r
      BY DEF IInv, Shape, IsLock
    <2>2. l = [r EXCEPT !.sha256 = [lock.sha256 EXCEPT ![f] = proj[f]],
                        !.upstream = [lock.upstream EXCEPT ![f] = tr[f].content]]
      BY <2>1
    <2> HIDE DEF l
    <2>3. l = [status |-> lock.status, version |-> lock.version,
               managed |-> lock.managed,
               sha256 |-> [lock.sha256 EXCEPT ![f] = proj[f]],
               upstream |-> [lock.upstream EXCEPT ![f] = tr[f].content]]
      BY <2>2
    <2> QED BY <2>3 DEF IsLock
  <1>3. lock.status = "ok" /\ lock.version \in Trees
    BY DEF IInv, Shape, Resolve
  <1>4. LockOK(l)
    BY <1>1, <1>2 DEF IInv, TypeOK, LockOK
  <1>5. AlignedBut(l, ResolvedFiles \cup {f})
    <2>1. AlignedBut(lock, ResolvedFiles) /\ LockOK(lock)
      BY DEF IInv, Aligned, TypeOK
    <2>2. \A g \in lock.managed \ {f} : l.upstream[g] = lock.upstream[g]
      BY <1>2, <2>1 DEF LockOK
    <2> HIDE DEF l
    <2> QED BY <1>2, <2>1, <2>2 DEF AlignedBut
  <1>6. job = Idle /\ own' \subseteq Files /\ Run("resolve", "lock", tr, {f}, l)
    BY DEF Resolve, IInv, TypeOK
  <1> HIDE DEF l
  <1> QED
    BY <1>2, <1>3, <1>4, <1>5, <1>6, RunStep

-----------------------------------------------------------------------------
(* The user, the copies, the two writes, and the kill.                     *)

(* Nothing is planned while the user edits. *)
LEMMA UserStep ==
  ASSUME IInv,
         \/ \E f \in Files, c \in Contents \cup {Absent} : Edit(f, c)
         \/ RemoveLock \/ RemoveJson
  PROVE  IInv'
  <1>1. CASE \E f \in Files, c \in Contents \cup {Absent} : Edit(f, c)
    <2> PICK f \in Files, c \in Contents \cup {Absent} : Edit(f, c)
      BY <1>1
    <2>1. /\ proj' \in [Files -> Contents \cup {Absent}] /\ own' \subseteq Files
          /\ job = Idle /\ UNCHANGED <<lock, json, job, resolved, crashed>>
      BY DEF Edit, IInv, TypeOK
    <2>2. TypeOK' /\ Shape' /\ Aligned'
      BY <2>1 DEF IInv, TypeOK, LockOK, Shape, IsLock, IsJob, Aligned, AlignedBut, ResolvedFiles
    <2>3. PlanIsSafe'
      BY <2>1, IdleFacts DEF PlanIsSafe
    <2> QED BY <2>2, <2>3 DEF IInv
  <1>2. CASE RemoveLock
    <2>1. lock' = NoLock /\ job = Idle /\ UNCHANGED <<proj, json, job, resolved, own, crashed>>
      BY <1>2 DEF RemoveLock
    <2>2. TypeOK'
      BY <2>1, NothingYet DEF IInv, TypeOK, LockOK
    <2>3. Shape'
      BY <2>1, NothingYet DEF IInv, Shape, IsLock, IsJob
    <2>4. PlanIsSafe' /\ Aligned'
      BY <2>1, NothingYet, IdleFacts
         DEF IInv, PlanIsSafe, MayCopy, Aligned, AlignedBut, ResolvedFiles
    <2> QED BY <2>2, <2>3, <2>4 DEF IInv
  <1>3. CASE RemoveJson
    BY <1>3 DEF RemoveJson, IInv, TypeOK, LockOK, Shape, IsLock, IsJob, PlanIsSafe, MayCopy, Aligned,
                AlignedBut, ResolvedFiles
  <1> QED BY <1>1, <1>2, <1>3

(* One copy leaves the rest of the plan as it was. *)
LEMMA CopyStep ==
  ASSUME IInv, NEW f \in Files, CopyFile(f) PROVE IInv'
  <1>1. /\ job'.cmd = job.cmd /\ job'.phase = job.phase /\ job'.tree = job.tree
        /\ job'.todo = job.todo \ {f} /\ job'.lock = job.lock /\ IsJob'
    BY DEF CopyFile, IInv, Shape, IsJob
  <1>2. job.phase = "copy" /\ job.tree \in Trees /\ job.cmd \in {"init", "sync"}
    BY DEF CopyFile, IInv, Shape
  <1>3. job.tree[f].content \in Contents
    BY <1>2, TreeFacts DEF Contents
  <1>4. /\ proj' = [proj EXCEPT ![f] = job.tree[f].content] /\ own' = own \ {f}
        /\ UNCHANGED <<lock, json, resolved, crashed>>
    BY DEF CopyFile
  <1>5. TypeOK'
    BY <1>1, <1>3, <1>4 DEF IInv, TypeOK, LockOK
  <1>6. Shape'
    BY <1>1, <1>2, <1>4 DEF IInv, Shape, IsLock
  <1>7. PlanIsSafe'
    <2> SUFFICES ASSUME NEW g \in job.todo \ {f}
                 PROVE  MayCopy(g, job.tree)'
      BY <1>1, <1>4 DEF PlanIsSafe, MayCopy
    <2>1. proj'[g] = proj[g]
      BY <1>4 DEF IInv, TypeOK
    <2> QED BY <1>1, <1>2, <1>4, <2>1 DEF IInv, PlanIsSafe, MayCopy
  <1>8. Aligned'
    BY <1>1, <1>2, <1>4 DEF IInv, Aligned, AlignedBut, ResolvedFiles
  <1> QED BY <1>5, <1>6, <1>7, <1>8 DEF IInv

(* The lock that was planned is in place, with what resolve moved on.      *)
LEMMA WriteLockStep ==
  ASSUME IInv, WriteLock PROVE IInv'
  <1>1. /\ job.phase # "idle" /\ job.tree \in Trees /\ job.tree # NoTree
        /\ job.lock.status = "ok" /\ job.lock.version \in Trees
    BY TreeFacts DEF WriteLock, IInv, Shape
  <1>2. lock' = job.lock /\ LockOK(job.lock) /\ IsLock(job.lock)
        /\ UNCHANGED <<proj, json, own, crashed>>
    BY DEF WriteLock, IInv, TypeOK, Shape
  <1>3. resolved' = [f \in Files |-> IF job.cmd # "resolve" THEN NoTree
                                     ELSE IF f \in job.todo THEN job.tree ELSE resolved[f]]
    BY DEF WriteLock
  <1>4. resolved' \in [Files -> Trees \cup {NoTree}]
    BY <1>1, <1>3 DEF IInv, TypeOK
  <1>5. AlignedBut(job.lock, ResolvedFiles')
    <2>1. CASE job.cmd = "resolve"
      <3>1. ResolvedFiles \cup job.todo = ResolvedFiles'
        BY <1>1, <1>3, <2>1 DEF IInv, TypeOK, ResolvedFiles
      <3> QED BY <2>1, <3>1 DEF IInv, Aligned
    <2>2. CASE job.cmd # "resolve"
      <3>1. ResolvedFiles' = {}
        BY <1>3, <2>2 DEF ResolvedFiles
      <3> QED BY <2>2, <3>1 DEF IInv, Aligned
    <2> QED BY <2>1, <2>2
  <1>6. CASE job.cmd = "resolve"
    <2>1. job' = Idle
      BY <1>6 DEF WriteLock
    <2>2. TypeOK'
      BY <2>1, <1>2, <1>4, IdleFacts, NothingYet DEF IInv, TypeOK, LockOK
    <2>3. Shape'
      BY <2>1, <1>1, <1>2, IdleFacts, NothingYet DEF Shape, IsLock, IsJob
    <2>4. PlanIsSafe' /\ Aligned'
      BY <2>1, <1>2, <1>5, IdleFacts, NothingYet DEF PlanIsSafe, MayCopy, Aligned, AlignedBut
    <2> QED BY <2>2, <2>3, <2>4 DEF IInv
  <1>7. CASE job.cmd # "resolve"
    <2>1. /\ job'.cmd = job.cmd /\ job'.phase = "json" /\ job'.tree = job.tree
          /\ job'.todo = job.todo /\ job'.lock = job.lock /\ IsJob'
      BY <1>7 DEF WriteLock, IInv, Shape, IsJob
    <2>2. TypeOK'
      BY <2>1, <1>2, <1>4 DEF IInv, TypeOK, LockOK
    <2>3. Shape'
      BY <2>1, <1>1, <1>2 DEF IInv, Shape, IsLock
    <2>4. PlanIsSafe'
      BY <2>1 DEF PlanIsSafe
    <2>5. Aligned'
      BY <2>1, <1>2, <1>5, <1>7 DEF IInv, Aligned, AlignedBut
    <2> QED BY <2>2, <2>3, <2>4, <2>5 DEF IInv
  <1> QED BY <1>6, <1>7

(* The end of a command, and being killed in the middle of one.            *)
LEMMA EndStep ==
  ASSUME IInv, WriteJson \/ Killed PROVE IInv'
  <1>1. job' = Idle /\ resolved' = resolved /\ own' = own /\ crashed' \in BOOLEAN
    BY DEF WriteJson, Killed, IInv, TypeOK
  <1>2. json' \in Trees \cup {NoTree, TornJson}
    BY DEF WriteJson, Killed, IInv, TypeOK, Shape
  <1>3. proj' \in [Files -> Contents \cup {Absent}]
    <2>1. CASE \E f \in job.todo, c \in Local : proj' = [proj EXCEPT ![f] = c]
      BY <2>1 DEF IInv, TypeOK, Contents
    <2>2. CASE proj' = proj
      BY <2>2 DEF IInv, TypeOK
    <2> QED BY <2>1, <2>2 DEF WriteJson, Killed
  <1>4. lock' = lock \/ lock' = Torn
    BY DEF WriteJson, Killed
  <1>5. TypeOK'
    BY <1>1, <1>2, <1>3, <1>4, IdleFacts, NothingYet DEF IInv, TypeOK, LockOK
  <1>6. Shape'
    BY <1>1, <1>4, IdleFacts, NothingYet DEF IInv, Shape, IsLock, IsJob
  <1>7. PlanIsSafe'
    BY <1>1, IdleFacts DEF PlanIsSafe
  <1>8. Aligned'
    BY <1>1, <1>4, IdleFacts, NothingYet DEF IInv, Aligned, AlignedBut, ResolvedFiles
  <1> QED BY <1>5, <1>6, <1>7, <1>8 DEF IInv

-----------------------------------------------------------------------------
(* What the plan of a running command may overwrite, and what the lock     *)
(* claims, are facts of every reachable state (harness.sh).                *)
THEOREM Invariance == Spec => []IInv
  <1>1. IInv /\ [Next]_vars => IInv'
    <2> SUFFICES ASSUME IInv, [Next]_vars PROVE IInv'
      OBVIOUS
    <2>1. CASE UNCHANGED vars
      BY <2>1 DEF vars, IInv, TypeOK, LockOK, Shape, IsLock, IsJob, PlanIsSafe, MayCopy, Aligned,
                  AlignedBut, ResolvedFiles
    <2>2. CASE \E tr \in Trees :
                 InitProject(tr) \/ Sync(tr) \/ Adopt(tr) \/ (\E f \in Files : Resolve(tr, f))
      BY <2>2, InitProjectStep, SyncStep, AdoptStep, ResolveStep
    <2>3. CASE \E f \in Files : CopyFile(f)
      BY <2>3, CopyStep
    <2>4. CASE WriteLock \/ WriteJson \/ Killed
      BY <2>4, WriteLockStep, EndStep
    <2> QED BY <2>1, <2>2, <2>3, <2>4, UserStep DEF Next
  <1> QED BY InitIInv, <1>1, PTL DEF Spec

(* The files, the lock and the running command keep their shape through    *)
(* every command, edit and crash.                                          *)
THEOREM TypeCorrect == Spec => []TypeOK
  <1>1. IInv => TypeOK
    BY DEF IInv
  <1> QED BY <1>1, Invariance, PTL

(* What a step may overwrite is in the plan of the running command. *)
LEMMA OnlyThePlanned ==
  ASSUME IInv, Next, job # Idle, NEW f \in Files, proj'[f] # proj[f]
  PROVE  job.phase = "copy" /\ f \in job.todo
  <1>1. CASE \E g \in Files : CopyFile(g)
    BY <1>1 DEF CopyFile, IInv, TypeOK
  <1>2. CASE Killed
    BY <1>2 DEF Killed, IInv, TypeOK
  <1> QED
    BY <1>1, <1>2 DEF Next, Edit, RemoveLock, RemoveJson, InitProject, Sync, Adopt, Resolve,
                      Run, WriteLock, WriteJson

(* No command overwrites a managed file that is not what the framework     *)
(* last gave: framework-versioning.md, section 9, for every set of files.  *)
THEOREM EditsAreKept == Spec => ManagedEditKept
  <1>1. IInv /\ [Next]_vars =>
          \A f \in Files :
            job # Idle /\ f \in lock.managed /\ proj[f] \notin {Absent, lock.upstream[f]}
              => proj'[f] = proj[f]
    <2> SUFFICES ASSUME IInv, [Next]_vars, NEW f \in Files, job # Idle, f \in lock.managed,
                        proj[f] \notin {Absent, lock.upstream[f]}, proj'[f] # proj[f]
                 PROVE  FALSE
      OBVIOUS
    <2>1. Next
      BY DEF vars
    <2>2. job.phase = "copy" /\ f \in job.todo
      BY <2>1, OnlyThePlanned
    <2> QED BY <2>2 DEF IInv, PlanIsSafe, MayCopy
  <1> QED BY <1>1, Invariance, PTL DEF Spec, ManagedEditKept

(* No command replaces a file that its tree only seeds. *)
THEOREM SeedsAreKept == Spec => SeededUntouched
  <1>1. IInv /\ [Next]_vars =>
          \A f \in Files :
            job # Idle /\ job.tree[f].kind = "seeded" /\ proj[f] # Absent
              => proj'[f] = proj[f]
    <2> SUFFICES ASSUME IInv, [Next]_vars, NEW f \in Files, job # Idle,
                        job.tree[f].kind = "seeded", proj[f] # Absent, proj'[f] # proj[f]
                 PROVE  FALSE
      OBVIOUS
    <2>1. Next
      BY DEF vars
    <2>2. job.phase = "copy" /\ f \in job.todo
      BY <2>1, OnlyThePlanned
    <2> QED BY <2>2 DEF IInv, PlanIsSafe, MayCopy
  <1> QED BY <1>1, Invariance, PTL DEF Spec, SeededUntouched

(* The lock never names a version its files were not aligned with.         *)
THEOREM LockIsHonest == Spec => []VersionIsHonest
  <1>1. IInv => VersionIsHonest
    BY DEF IInv, TypeOK, LockOK, Aligned, AlignedBut, ResolvedFiles, VersionIsHonest
  <1> QED BY <1>1, Invariance, PTL

-----------------------------------------------------------------------------
(* Upgrading goes on: a second invariant, over the first.                  *)

(* Files the user left alone, but for those in S, are those of the version. *)
Fresh(l, S) ==
  \A f \in Managed(l.version) \ (own \cup S) : proj[f] = l.version[f].content

Within(l) == l.status = "ok" => l.managed \subseteq Managed(l.version)

(* A resolved file is aligned to the tree it was resolved with.            *)
ResolvedIn(l, S) ==
  \A f \in l.managed \ S : resolved[f] # NoTree => l.upstream[f] = resolved[f][f].content

(* What a command is about to do to the lock. *)
Planned ==
  /\ job.phase # "idle" /\ job.cmd # "resolve" => job.lock.version = job.tree
  /\ job.cmd = "resolve" =>
       /\ job.phase = "lock" /\ job.todo \subseteq own
       /\ lock.status = "ok" /\ job.lock.version = lock.version
       /\ ResolvedIn(job.lock, job.todo)
       /\ \A f \in job.todo : job.lock.upstream[f] = job.tree[f].content
  /\ job.phase = "json" => lock = job.lock /\ job.cmd # "resolve"

(* What holds until a command is killed. *)
Unbroken ==
  /\ json # TornJson
  /\ job.phase # "json" /\ lock.status = "ok" => json = lock.version
  /\ job.phase = "idle" /\ lock.status = "ok" => Fresh(lock, {})
  /\ job.phase = "copy" => Fresh(job.lock, job.todo)
  /\ job.phase \in {"lock", "json"} => Fresh(job.lock, {})
  /\ job.phase # "copy" => ResolvedFiles \subseteq own

Going ==
  /\ ResolvedIn(lock, {}) /\ Within(lock) /\ Within(job.lock)
  /\ Planned
  /\ ~crashed => Unbroken

LEMMA IdleGoes ==
  ASSUME IInv, Going, job = Idle
  PROVE  /\ job.phase = "idle" /\ job.cmd = "none" /\ job.lock = NoLock
         /\ lock.status = "ok" => lock.version \in Trees /\ lock.managed \subseteq Managed(lock.version)
         /\ lock.status # "ok" => lock.managed = {}
         /\ lock.managed \subseteq Files
         /\ AlignedBut(lock, ResolvedFiles) /\ ResolvedIn(lock, {})
         /\ ~crashed =>
              /\ json # TornJson /\ ResolvedFiles \subseteq own
              /\ lock.status = "ok" => json = lock.version /\ Fresh(lock, {})
  <1>1. job.phase = "idle" /\ job.cmd = "none" /\ job.lock = NoLock
    BY IdleFacts
  <1>2. lock.managed \subseteq Files
    BY DEF IInv, TypeOK, LockOK
  <1> QED
    BY <1>1, <1>2 DEF IInv, Shape, Aligned, Going, Within, Unbroken

(* What a command has to show for itself when it starts. *)
LEMMA RunGoes ==
  ASSUME IInv, Going, job = Idle,
         NEW cmd \in {"init", "sync", "adopt", "resolve"},
         NEW phase \in {"copy", "lock"},
         NEW tr \in Trees, NEW todo, NEW l,
         Run(cmd, phase, tr, todo, l), own \subseteq own', Within(l),
         cmd # "resolve" => l.version = tr,
         cmd = "resolve" =>
           /\ phase = "lock" /\ todo \subseteq own'
           /\ lock.status = "ok" /\ l.version = lock.version
           /\ ResolvedIn(l, todo) /\ \A f \in todo : l.upstream[f] = tr[f].content,
         ~crashed => \A f \in Managed(l.version) \ own' :
                        proj[f] = l.version[f].content \/ (phase = "copy" /\ f \in todo)
  PROVE  Going'
  <1>1. /\ job'.cmd = cmd /\ job'.phase = phase /\ job'.tree = tr
        /\ job'.todo = todo /\ job'.lock = l
        /\ UNCHANGED <<proj, lock, json, resolved, crashed>>
    BY DEF Run
  <1>2. ResolvedIn(lock, {})' /\ Within(lock') /\ Within(job'.lock)
    BY <1>1 DEF Going, ResolvedIn, Within
  <1>3. Planned'
    BY <1>1 DEF Planned, ResolvedIn
  <1>4. ASSUME ~crashed'
        PROVE  Unbroken'
    <2>1. /\ json # TornJson /\ ResolvedFiles \subseteq own
          /\ lock.status = "ok" => json = lock.version
      BY <1>1, <1>4, IdleGoes
    <2>2. ResolvedFiles' \subseteq own'
      BY <1>1, <2>1 DEF ResolvedFiles
    <2>3. phase = "copy" => Fresh(job.lock, job.todo)'
      BY <1>1, <1>4 DEF Fresh
    <2>4. phase = "lock" => Fresh(job.lock, {})'
      BY <1>1, <1>4 DEF Fresh
    <2> QED BY <1>1, <2>1, <2>2, <2>3, <2>4 DEF Unbroken
  <1> QED BY <1>2, <1>3, <1>4 DEF Going, Within

LEMMA InitProjectGoes ==
  ASSUME IInv, Going, NEW tr \in Trees, InitProject(tr) PROVE Going'
  <1> DEFINE M == Managed(tr)
             l == Locked(tr, M, Of(tr, M), Of(tr, M))
  <1>1. l.version = tr /\ l.managed = M
    BY DEF Locked
  <1>2. job = Idle /\ own \subseteq own' /\ Run("init", "copy", tr, Installed(tr), l)
    BY DEF InitProject
  <1>3. M \subseteq Installed(tr)
    BY DEF Installed
  <1>4. \A f \in Managed(l.version) \ (own' \cup Installed(tr)) : proj[f] = l.version[f].content
    BY <1>1, <1>3
  <1>5. Within(l)
    BY <1>1 DEF Within
  <1> HIDE DEF M, l
  <1> QED BY <1>1, <1>2, <1>4, <1>5, RunGoes

(* What a sync does not copy is what it was, and the tree has the same. *)
LEMMA SyncGoes ==
  ASSUME IInv, Going, NEW tr \in Trees, Sync(tr) PROVE Going'
  <1> DEFINE copied == Updated(tr) \cup Added(tr)
             l == Upgraded(tr)
  <1>1. l.version = tr /\ l.managed \subseteq Managed(tr)
    BY DEF Upgraded, Locked, Updated, Added, Known
  <1>2. /\ job = Idle /\ own \subseteq own' /\ own' = own /\ Run("sync", "copy", tr, copied, l)
        /\ lock.status = "ok" /\ Conflicts(tr) = {}
    BY DEF Sync
  <1>3. ASSUME ~crashed, NEW f \in Managed(tr) \ (own \cup copied)
        PROVE  proj[f] = tr[f].content
    <2>1. f \in Known(tr) /\ f \in lock.managed
      BY <1>3 DEF Added, Known
    <2>2. tr[f].content = lock.upstream[f]
      BY <1>2, <1>3, <2>1 DEF Conflicts, Updated, Changed
    <2>3. f \notin ResolvedFiles
      BY <1>2, <1>3, IdleGoes
    <2>4. lock.upstream[f] = lock.version[f].content
      BY <1>2, <2>1, <2>3, IdleGoes DEF AlignedBut
    <2>5. proj[f] = lock.version[f].content
      BY <1>2, <1>3, <2>1, IdleGoes DEF Fresh
    <2> QED BY <2>2, <2>4, <2>5
  <1>4. Within(l)
    BY <1>1 DEF Within
  <1>5. ~crashed => \A f \in Managed(l.version) \ (own' \cup copied) : proj[f] = l.version[f].content
    BY <1>1, <1>2, <1>3
  <1> HIDE DEF copied, l
  <1> QED BY <1>1, <1>2, <1>4, <1>5, RunGoes

LEMMA AdoptGoes ==
  ASSUME IInv, Going, NEW tr \in Trees, Adopt(tr) PROVE Going'
  <1> DEFINE M == {f \in Managed(tr) : proj[f] # Absent}
             l == Locked(tr, M, [f \in M |-> proj[f]], Of(tr, M))
  <1>1. l.version = tr /\ l.managed = M /\ M \subseteq Managed(tr)
    BY DEF Locked
  <1>2. /\ job = Idle /\ own \subseteq own' /\ Managed(tr) \subseteq own'
        /\ Run("adopt", "lock", tr, {}, l)
    BY DEF Adopt
  <1>3. Within(l)
    BY <1>1 DEF Within
  <1>4. \A f \in Managed(l.version) \ own' : proj[f] = l.version[f].content
    BY <1>1, <1>2
  <1> HIDE DEF M, l
  <1> QED BY <1>1, <1>2, <1>3, <1>4, RunGoes

LEMMA ResolveGoes ==
  ASSUME IInv, Going, NEW tr \in Trees, NEW f \in Files, Resolve(tr, f) PROVE Going'
  <1> DEFINE l == [lock EXCEPT !.sha256[f] = proj[f], !.upstream[f] = tr[f].content]
             T == {f}
  <1>1. /\ job = Idle /\ own \subseteq own' /\ own' = own \cup {f} /\ lock.status = "ok"
        /\ Run("resolve", "lock", tr, T, l) /\ f \in lock.managed
    BY DEF Resolve, Known
  <1>2. /\ l.status = lock.status /\ l.version = lock.version /\ l.managed = lock.managed
        /\ l.upstream = [lock.upstream EXCEPT ![f] = tr[f].content]
    <2> DEFINE r == [status |-> lock.status, version |-> lock.version,
                     managed |-> lock.managed, sha256 |-> lock.sha256,
                     upstream |-> lock.upstream]
    <2>1. lock = r
      BY DEF IInv, Shape, IsLock
    <2>2. l = [r EXCEPT !.sha256 = [lock.sha256 EXCEPT ![f] = proj[f]],
                        !.upstream = [lock.upstream EXCEPT ![f] = tr[f].content]]
      BY <2>1
    <2> HIDE DEF l
    <2>3. l = [status |-> lock.status, version |-> lock.version,
               managed |-> lock.managed,
               sha256 |-> [lock.sha256 EXCEPT ![f] = proj[f]],
               upstream |-> [lock.upstream EXCEPT ![f] = tr[f].content]]
      BY <2>2
    <2> QED BY <2>3
  <1> HIDE DEF l
  <1>3. /\ l.upstream[f] = tr[f].content
        /\ \A g \in lock.managed \ {f} : l.upstream[g] = lock.upstream[g]
    BY <1>1, <1>2 DEF IInv, TypeOK, LockOK
  <1>4. Within(l) /\ ResolvedIn(l, T)
    BY <1>1, <1>2, <1>3, IdleGoes DEF Within, ResolvedIn
  <1>5. ~crashed => \A g \in Managed(l.version) \ own' : proj[g] = l.version[g].content
    BY <1>1, <1>2, IdleGoes DEF Fresh
  <1>6. /\ T \subseteq own' /\ \A g \in T : l.upstream[g] = tr[g].content
        /\ l.version = lock.version
    BY <1>1, <1>2, <1>3
  <1>7. /\ job = Idle /\ own \subseteq own' /\ Run("resolve", "lock", tr, T, l) /\ Within(l)
        /\ lock.status = "ok" /\ ResolvedIn(l, T)
    BY <1>1, <1>4
  <1> HIDE DEF T
  <1> QED BY <1>5, <1>6, <1>7, RunGoes

-----------------------------------------------------------------------------
LEMMA UserGoes ==
  ASSUME IInv, Going,
         \/ \E f \in Files, c \in Contents \cup {Absent} : Edit(f, c)
         \/ RemoveLock \/ RemoveJson
  PROVE  Going'
  <1>1. job = Idle /\ UNCHANGED <<job, resolved, crashed>> /\ own \subseteq own'
    BY DEF Edit, RemoveLock, RemoveJson
  <1>2. Planned' /\ Within(job'.lock)
    BY <1>1, IdleGoes DEF Planned, Going
  <1>3. lock' \in {lock, NoLock}
    BY DEF Edit, RemoveLock, RemoveJson
  <1>4. ResolvedIn(lock, {})' /\ Within(lock')
    BY <1>1, <1>3, NothingYet DEF Going, ResolvedIn, Within
  <1>5. ASSUME ~crashed
        PROVE  Unbroken'
    <2>1. /\ job'.phase = "idle" /\ json # TornJson /\ ResolvedFiles' \subseteq own'
          /\ lock.status = "ok" => json = lock.version /\ Fresh(lock, {})
      BY <1>1, <1>5, IdleGoes DEF ResolvedFiles
    <2>2. json' = json
      BY <2>1 DEF Edit, RemoveLock, RemoveJson
    <2>3. CASE \E f \in Files, c \in Contents \cup {Absent} : Edit(f, c)
      <3> PICK f \in Files, c \in Contents \cup {Absent} : Edit(f, c)
        BY <2>3
      <3>1. /\ proj' = [proj EXCEPT ![f] = c] /\ own' = own \cup {f} /\ lock' = lock
        BY DEF Edit
      <3>2. \A g \in Files \ {f} : proj'[g] = proj[g]
        BY <3>1 DEF IInv, TypeOK
      <3>3. Fresh(lock, {}) => Fresh(lock, {})'
        BY <3>1, <3>2 DEF Fresh, Managed
      <3> QED BY <2>1, <2>2, <3>1, <3>3 DEF Unbroken
    <2>4. CASE RemoveLock
      <3>1. lock'.status # "ok"
        BY <2>4, NothingYet DEF RemoveLock
      <3> QED BY <2>1, <2>2, <3>1 DEF Unbroken
    <2>5. CASE RemoveJson
      BY <2>1, <2>5 DEF RemoveJson
    <2> QED BY <2>3, <2>4, <2>5
  <1> QED BY <1>1, <1>2, <1>4, <1>5 DEF Going

(* A copied file is no longer the user's. *)
LEMMA CopyGoes ==
  ASSUME IInv, Going, NEW f \in Files, CopyFile(f) PROVE Going'
  <1>1. /\ job'.cmd = job.cmd /\ job'.phase = job.phase /\ job'.tree = job.tree
        /\ job'.todo = job.todo \ {f} /\ job'.lock = job.lock
    BY DEF CopyFile, IInv, Shape, IsJob
  <1>2. /\ job.phase = "copy" /\ job.cmd \in {"init", "sync"} /\ job.lock.version = job.tree
    BY DEF CopyFile, IInv, Shape, Going, Planned
  <1>3. /\ proj' = [proj EXCEPT ![f] = job.tree[f].content] /\ own' = own \ {f}
        /\ UNCHANGED <<lock, json, resolved, crashed>>
    BY DEF CopyFile
  <1>4. ResolvedIn(lock, {})' /\ Within(lock') /\ Within(job'.lock) /\ Planned'
    BY <1>1, <1>2, <1>3 DEF Going, ResolvedIn, Within, Planned
  <1>5. ASSUME ~crashed
        PROVE  Unbroken'
    <2>1. Fresh(job.lock, job.todo) /\ json # TornJson /\ (lock.status = "ok" => json = lock.version)
      BY <1>2, <1>5 DEF Going, Unbroken
    <2>2. proj'[f] = job.tree[f].content /\ \A g \in Files \ {f} : proj'[g] = proj[g]
      BY <1>3 DEF IInv, TypeOK
    <2>3. Fresh(job.lock, job.todo)'
      BY <1>1, <1>2, <1>3, <2>1, <2>2 DEF Fresh, Managed
    <2> QED BY <1>1, <1>2, <1>3, <2>1, <2>3 DEF Unbroken
  <1> QED BY <1>3, <1>4, <1>5 DEF Going

LEMMA WriteLockGoes ==
  ASSUME IInv, Going, WriteLock PROVE Going'
  <1>1. /\ job.phase \in {"copy", "lock"} /\ job.tree # NoTree /\ job.tree # TornJson
        /\ job.lock.status = "ok" /\ job.lock.version \in Trees
        /\ lock' = job.lock /\ UNCHANGED <<proj, json, own, crashed>>
        /\ job.phase = "copy" => job.todo = {}
    BY TreesAssumption DEF WriteLock, IInv, Shape
  <1>2. resolved' = [f \in Files |-> IF job.cmd # "resolve" THEN NoTree
                                     ELSE IF f \in job.todo THEN job.tree ELSE resolved[f]]
    BY DEF WriteLock
  <1>3. /\ Within(job.lock) /\ Planned
        /\ ~crashed => Fresh(job.lock, {}) /\ json # TornJson
    BY <1>1 DEF Going, Unbroken
  <1>4. job.lock.managed \subseteq Files
    BY DEF IInv, TypeOK, LockOK
  <1>5. CASE job.cmd = "resolve"
    <2>1. job' = Idle
      BY <1>5 DEF WriteLock
    <2>2. /\ job.phase = "lock" /\ job.todo \subseteq own
          /\ lock.status = "ok" /\ job.lock.version = lock.version
          /\ ResolvedIn(job.lock, job.todo)
          /\ \A f \in job.todo : job.lock.upstream[f] = job.tree[f].content
      BY <1>3, <1>5 DEF Planned
    <2>3. \A f \in Files : resolved'[f] = IF f \in job.todo THEN job.tree ELSE resolved[f]
      BY <1>2, <1>5
    <2>4. ResolvedIn(lock, {})'
      BY <1>1, <1>4, <2>2, <2>3 DEF ResolvedIn
    <2>5. Within(lock') /\ Within(job'.lock) /\ Planned'
      BY <1>1, <1>3, <2>1, IdleFacts, NothingYet DEF Within, Planned
    <2>6. ASSUME ~crashed
          PROVE  Unbroken'
      <3>1. json = lock.version /\ ResolvedFiles \subseteq own
        BY <2>2, <2>6 DEF Going, Unbroken
      <3>2. ResolvedFiles' \subseteq own'
        BY <1>1, <2>2, <2>3, <3>1 DEF ResolvedFiles
      <3>3. Fresh(lock, {})'
        BY <1>1, <1>3, <2>6 DEF Fresh
      <3> QED BY <1>1, <1>3, <2>1, <2>2, <2>6, <3>1, <3>2, <3>3, IdleFacts DEF Unbroken
    <2> QED BY <1>1, <2>4, <2>5, <2>6 DEF Going
  <1>6. CASE job.cmd # "resolve"
    <2>1. /\ job'.cmd = job.cmd /\ job'.phase = "json" /\ job'.tree = job.tree
          /\ job'.todo = job.todo /\ job'.lock = job.lock
      BY <1>6 DEF WriteLock, IInv, Shape, IsJob
    <2>2. \A f \in Files : resolved'[f] = NoTree
      BY <1>2, <1>6
    <2>3. ResolvedIn(lock, {})' /\ Within(lock') /\ Within(job'.lock)
      BY <1>1, <1>3, <1>4, <2>1, <2>2 DEF ResolvedIn, Within
    <2>4. Planned'
      BY <1>1, <1>3, <1>6, <2>1 DEF Planned
    <2>5. ASSUME ~crashed
          PROVE  Unbroken'
      <3>1. ResolvedFiles' = {}
        BY <2>2 DEF ResolvedFiles
      <3>2. Fresh(job.lock, {})'
        BY <1>1, <1>3, <2>1, <2>5 DEF Fresh
      <3> QED BY <1>1, <1>3, <2>1, <2>5, <3>1, <3>2 DEF Unbroken
    <2> QED BY <1>1, <2>3, <2>4, <2>5 DEF Going
  <1> QED BY <1>5, <1>6

LEMMA WriteJsonGoes ==
  ASSUME IInv, Going, WriteJson PROVE Going'
  <1>1. /\ job.phase = "json" /\ job' = Idle /\ UNCHANGED <<proj, lock, resolved, own, crashed>>
        /\ job.tree \in Trees
    BY DEF WriteJson, IInv, Shape
  <1>2. lock = job.lock /\ job.lock.version = job.tree
    BY <1>1 DEF Going, Planned
  <1>3. ResolvedIn(lock, {})' /\ Within(lock') /\ Within(job'.lock) /\ Planned'
    BY <1>1, IdleFacts, NothingYet DEF Going, ResolvedIn, Within, Planned
  <1>4. ASSUME ~crashed
        PROVE  Unbroken'
    <2>1. json # TornJson /\ Fresh(job.lock, {}) /\ ResolvedFiles \subseteq own
      BY <1>1, <1>4 DEF Going, Unbroken
    <2>2. json' = job.tree /\ job.tree # TornJson
      BY <1>1, <2>1, TreesAssumption DEF WriteJson
    <2>3. Fresh(lock, {})' /\ ResolvedFiles' \subseteq own'
      BY <1>1, <1>2, <2>1 DEF Fresh, ResolvedFiles
    <2> QED BY <1>1, <1>2, <2>2, <2>3, IdleFacts DEF Unbroken
  <1> QED BY <1>1, <1>3, <1>4 DEF Going

LEMMA KilledGoes ==
  ASSUME IInv, Going, Killed PROVE Going'
  <1>1. /\ job' = Idle /\ crashed' = TRUE /\ UNCHANGED resolved /\ lock' \in {lock, Torn}
    BY DEF Killed
  <1>2. ResolvedIn(lock, {})' /\ Within(lock') /\ Within(job'.lock) /\ Planned'
    BY <1>1, IdleFacts, NothingYet DEF Going, ResolvedIn, Within, Planned
  <1> QED BY <1>1, <1>2 DEF Going

(* Until a command is killed, an idle project with a lock is the version   *)
(* the lock and harness.json name, but for what its user made; and a sync  *)
(* to the tree a file was resolved with does not find it in conflict       *)
(* (sync and resolve of harness.sh).                                       *)
THEOREM UpgradesGoOn == Spec => []UpgradeGoesOn
  <1>1. Init => Going
    <2> SUFFICES ASSUME Init PROVE Going
      OBVIOUS
    <2>1. job = Idle /\ lock = NoLock /\ json = NoTree /\ resolved = [f \in Files |-> NoTree]
      BY DEF Init
    <2>2. ResolvedIn(lock, {}) /\ Within(lock) /\ Within(job.lock) /\ Planned
      BY <2>1, IdleFacts, NothingYet DEF ResolvedIn, Within, Planned
    <2>3. Unbroken
      BY <2>1, IdleFacts, NothingYet, TreesAssumption DEF Unbroken, ResolvedFiles
    <2> QED BY <2>2, <2>3 DEF Going
  <1>2. IInv /\ Going /\ [Next]_vars => Going'
    <2> SUFFICES ASSUME IInv, Going, [Next]_vars PROVE Going'
      OBVIOUS
    <2>1. CASE UNCHANGED vars
      BY <2>1 DEF vars, Going, ResolvedIn, Within, Planned, Unbroken, Fresh, ResolvedFiles
    <2>2. CASE \E tr \in Trees :
                 InitProject(tr) \/ Sync(tr) \/ Adopt(tr) \/ (\E f \in Files : Resolve(tr, f))
      BY <2>2, InitProjectGoes, SyncGoes, AdoptGoes, ResolveGoes
    <2>3. CASE \E f \in Files : CopyFile(f)
      BY <2>3, CopyGoes
    <2>4. CASE WriteLock \/ WriteJson \/ Killed
      BY <2>4, WriteLockGoes, WriteJsonGoes, KilledGoes
    <2> QED BY <2>1, <2>2, <2>3, <2>4, UserGoes DEF Next
  <1>3. IInv /\ Going => UpgradeGoesOn
    <2> SUFFICES ASSUME IInv, Going, job = Idle, lock.status = "ok" PROVE
          /\ ~crashed =>
               /\ json = lock.version
               /\ \A f \in Managed(lock.version) \ own : proj[f] = lock.version[f].content
          /\ \A f \in Files : resolved[f] # NoTree => f \notin Conflicts(resolved[f])
      BY DEF UpgradeGoesOn
    <2>1. ~crashed =>
            /\ json = lock.version
            /\ \A f \in Managed(lock.version) \ own : proj[f] = lock.version[f].content
      BY IdleGoes DEF Fresh
    <2>2. \A f \in Files : resolved[f] # NoTree => f \notin Conflicts(resolved[f])
      BY IdleGoes DEF ResolvedIn, Conflicts, Known, Changed
    <2> QED BY <2>1, <2>2
  <1> QED BY <1>1, <1>2, <1>3, Invariance, PTL DEF Spec

=============================================================================
