---------------------------- MODULE HarnessSync -----------------------------
(***************************************************************************)
(* harness.sh: the framework files a project received from a source tree,  *)
(* the lock file that records two hashes of each, and the commands that    *)
(* install, upgrade, adopt and resolve them, any of which may be killed.   *)
(*                                                                         *)
(* A hash stands for the content it is of. The user edits and deletes      *)
(* files between commands; every command may name any source tree.         *)
(***************************************************************************)
EXTENDS Naturals

CONSTANTS
  Files,     (* project paths                                               *)
  Rules,     (* harness-rules.md, by which a harness project is known       *)
  Upstream,  (* contents a source tree may have                             *)
  Local,     (* contents no tree has: a user's, or a copy cut short         *)
  Trees,     (* source trees                                                *)
  Absent,    (* no such file                                                *)
  NoTree,    (* no version recorded: no harness.json                        *)
  TornJson   (* a harness.json cut short, which is no JSON                  *)

Contents == Upstream \cup Local

ASSUME RulesAssumption    == Rules \in Files
ASSUME ContentsAssumption == Upstream \cap Local = {} /\ Absent \notin Contents
ASSUME TreesAssumption    ==
  /\ Trees \subseteq [Files -> [kind : {"none", "managed", "seeded"}, content : Upstream]]
  /\ NoTree \notin Trees /\ TornJson \notin Trees /\ NoTree # TornJson

VARIABLES
  proj,      (* [Files -> content or Absent], the project                   *)
  lock,      (* harness.lock: its managed files with sha256 and upstream    *)
  json,      (* the tree whose version harness.json names                   *)
  job,       (* the running command                                         *)
  resolved,  (* history: [Files -> the tree resolve was last told], or none *)
  own,       (* history: files that are what the user made of them          *)
  crashed    (* history: some command was killed                            *)

vars == <<proj, lock, json, job, resolved, own, crashed>>

Empty  == [f \in {} |-> Absent]
NoLock == [status |-> "none", version |-> NoTree, managed |-> {}, sha256 |-> Empty, upstream |-> Empty]
Torn   == [NoLock EXCEPT !.status = "torn"]
Locked(tr, M, s, u) ==
  [status |-> "ok", version |-> tr, managed |-> M, sha256 |-> s, upstream |-> u]

Idle == [cmd |-> "none", phase |-> "idle", tree |-> NoTree, todo |-> {}, lock |-> NoLock]

LockOK(l) ==
  /\ l.status \in {"none", "torn", "ok"}
  /\ l.version \in Trees \cup {NoTree}
  /\ l.managed \subseteq Files
  /\ l.sha256 \in [l.managed -> Contents]
  /\ l.upstream \in [l.managed -> Upstream]

TypeOK ==
  /\ proj \in [Files -> Contents \cup {Absent}]
  /\ LockOK(lock) /\ LockOK(job.lock)
  /\ json \in Trees \cup {NoTree, TornJson}
  /\ job.cmd \in {"none", "init", "sync", "adopt", "resolve"}
  /\ job.phase \in {"idle", "copy", "lock", "json"}
  /\ job.tree \in Trees \cup {NoTree}
  /\ job.todo \subseteq Files
  /\ resolved \in [Files -> Trees \cup {NoTree}]
  /\ own \subseteq Files
  /\ crashed \in BOOLEAN

(* A project may have files of its own before the framework comes. *)
Init ==
  /\ proj \in [Files -> Local \cup {Absent}]
  /\ lock = NoLock /\ json = NoTree /\ job = Idle
  /\ resolved = [f \in Files |-> NoTree]
  /\ own = {f \in Files : proj[f] # Absent}
  /\ crashed = FALSE

-----------------------------------------------------------------------------
(* What the user does between commands.                                    *)

Edit(f, c) ==
  /\ job = Idle
  /\ proj' = [proj EXCEPT ![f] = c]
  /\ own' = own \cup {f}
  /\ UNCHANGED <<lock, json, job, resolved, crashed>>

(* A torn lock is no JSON: every command fails until the user removes it.  *)
RemoveLock ==
  /\ job = Idle /\ lock.status = "torn"
  /\ lock' = NoLock
  /\ UNCHANGED <<proj, json, job, resolved, own, crashed>>

RemoveJson ==
  /\ job = Idle /\ json = TornJson
  /\ json' = NoTree
  /\ UNCHANGED <<proj, lock, job, resolved, own, crashed>>

-----------------------------------------------------------------------------
(* The commands. Each plans, copies file by file, writes harness.lock, and *)
(* writes harness.json.                                                    *)

Managed(tr) == {f \in Files : tr[f].kind = "managed"}
Seeded(tr)  == {f \in Files : tr[f].kind = "seeded"}
Of(tr, M)   == [f \in M |-> tr[f].content]

Run(cmd, phase, tr, todo, l) ==
  /\ job' = [cmd |-> cmd, phase |-> phase, tree |-> tr, todo |-> todo, lock |-> l]
  /\ UNCHANGED <<proj, lock, json, resolved, crashed>>

(* init takes every managed path, and the seeded ones that are missing.    *)
BugSeedAlways(tr) == Managed(tr) \cup Seeded(tr)
Installed(tr) == Managed(tr) \cup {f \in Seeded(tr) : proj[f] = Absent}

InitProject(tr) ==
  /\ job = Idle /\ lock.status = "none"
  /\ Run("init", "copy", tr, Installed(tr),
         Locked(tr, Managed(tr), Of(tr, Managed(tr)), Of(tr, Managed(tr))))
  /\ UNCHANGED own

(* The two hashes: the file is not what it was when last aligned, or was   *)
(* a local variant then; the source is not what it was aligned to.         *)
BugOneSha(f) == proj[f] # lock.sha256[f]
Diverged(f)    == proj[f] # lock.sha256[f] \/ lock.sha256[f] # lock.upstream[f]
Changed(f, tr) == tr[f].content # lock.upstream[f]

Known(tr)     == {f \in Managed(tr) \cap lock.managed : proj[f] # Absent}
Conflicts(tr) == {f \in Known(tr) : Diverged(f) /\ Changed(f, tr)}
Updated(tr)   == {f \in Known(tr) : ~Diverged(f) /\ Changed(f, tr)}
Added(tr)     == Managed(tr) \ Known(tr)

(* The lock after a sync: orphans are dropped, what was copied is aligned. *)
Upgraded(tr) ==
  LET copied == Updated(tr) \cup Added(tr)
      M == (lock.managed \cap Managed(tr)) \cup copied
  IN  Locked(tr, M,
             [f \in M |-> IF f \in copied THEN tr[f].content ELSE lock.sha256[f]],
             [f \in M |-> IF f \in copied THEN tr[f].content ELSE lock.upstream[f]])

BugSkipConflicts(tr) ==
  /\ job = Idle /\ lock.status = "ok"
  /\ Run("sync", "copy", tr, Updated(tr) \cup Added(tr), Upgraded(tr))
  /\ UNCHANGED own

(* One conflict, and not one file is changed. *)
Sync(tr) ==
  /\ job = Idle /\ lock.status = "ok"
  /\ Conflicts(tr) = {}
  /\ Run("sync", "copy", tr, Updated(tr) \cup Added(tr), Upgraded(tr))
  /\ UNCHANGED own

(* adopt records the project as it is, and what the tree would have.       *)
BugAdoptMissing(tr) ==
  /\ job = Idle /\ lock.status = "none" /\ proj[Rules] # Absent
  /\ LET M == Managed(tr) IN
       /\ Run("adopt", "lock", tr, {}, Locked(tr, M, [f \in M |-> proj[f]], Of(tr, M)))
       /\ own' = own \cup Managed(tr)

Adopt(tr) ==
  /\ job = Idle /\ lock.status = "none" /\ proj[Rules] # Absent
  /\ LET M == {f \in Managed(tr) : proj[f] # Absent} IN
       /\ Run("adopt", "lock", tr, {}, Locked(tr, M, [f \in M |-> proj[f]], Of(tr, M)))
       /\ own' = own \cup Managed(tr)

(* resolve aligns one merged file to the tree it was merged with.          *)
BugResolveOneSha(tr, f) ==
  /\ job = Idle /\ lock.status = "ok"
  /\ f \in Known(tr)
  /\ Run("resolve", "lock", tr, {f}, [lock EXCEPT !.sha256[f] = proj[f]])
  /\ own' = own \cup {f}

Resolve(tr, f) ==
  /\ job = Idle /\ lock.status = "ok"
  /\ f \in Known(tr)
  /\ Run("resolve", "lock", tr, {f}, [lock EXCEPT !.sha256[f] = proj[f],
                                                  !.upstream[f] = tr[f].content])
  /\ own' = own \cup {f}

CopyFile(f) ==
  /\ job.phase = "copy" /\ f \in job.todo
  /\ proj' = [proj EXCEPT ![f] = job.tree[f].content]
  /\ job' = [job EXCEPT !.todo = @ \ {f}]
  /\ own' = own \ {f}
  /\ UNCHANGED <<lock, json, resolved, crashed>>

WriteLock ==
  /\ job.phase = "lock" \/ (job.phase = "copy" /\ job.todo = {})
  /\ lock' = job.lock
  /\ job' = IF job.cmd = "resolve" THEN Idle ELSE [job EXCEPT !.phase = "json"]
  /\ resolved' = [f \in Files |-> IF job.cmd # "resolve" THEN NoTree
                                 ELSE IF f \in job.todo THEN job.tree ELSE resolved[f]]
  /\ UNCHANGED <<proj, json, own, crashed>>

(* sync updates the harness.json there is; init and adopt write it anew.   *)
WriteJson ==
  /\ job.phase = "json"
  /\ json' = IF job.cmd = "sync" /\ json = TornJson THEN json ELSE job.tree
  /\ job' = Idle
  /\ UNCHANGED <<proj, lock, resolved, own, crashed>>

(* Killed between two writes, or in the middle of one.                     *)
Killed ==
  /\ job # Idle
  /\ \/ UNCHANGED <<proj, lock, json>>
     \/ /\ job.phase = "copy"
        /\ \E f \in job.todo, c \in Local : proj' = [proj EXCEPT ![f] = c]
        /\ UNCHANGED <<lock, json>>
     \/ /\ job.phase = "lock" \/ (job.phase = "copy" /\ job.todo = {})
        /\ lock' = Torn
        /\ UNCHANGED <<proj, json>>
     \/ /\ job.phase = "json"
        /\ json' = TornJson
        /\ UNCHANGED <<proj, lock>>
  /\ job' = Idle
  /\ crashed' = TRUE
  /\ UNCHANGED <<resolved, own>>

Next ==
  \/ \E f \in Files, c \in Contents \cup {Absent} : Edit(f, c)
  \/ RemoveLock \/ RemoveJson
  \/ \E tr \in Trees :
       InitProject(tr) \/ Sync(tr) \/ Adopt(tr) \/ (\E f \in Files : Resolve(tr, f))
  \/ (\E f \in Files : CopyFile(f)) \/ WriteLock \/ WriteJson \/ Killed

Spec == Init /\ [][Next]_vars

-----------------------------------------------------------------------------
(* Properties.                                                             *)

(* A managed file that is not what the framework last gave is never        *)
(* overwritten: not a user's edit, not a resolved or adopted variant, not  *)
(* what a killed sync left. It is kept or it is a conflict                 *)
(* (framework-versioning.md, section 9.2).                                 *)
ManagedEditKept ==
  [][\A f \in Files :
       job # Idle /\ f \in lock.managed /\ proj[f] \notin {Absent, lock.upstream[f]}
         => proj'[f] = proj[f]]_vars

(* What a tree only seeds is never replaced once the project has it, by    *)
(* init, by sync, or by a second attempt after a crash (section 9.3).      *)
SeededUntouched ==
  [][\A f \in Files :
       job # Idle /\ job.tree[f].kind = "seeded" /\ proj[f] # Absent
         => proj'[f] = proj[f]]_vars

(* The version the lock names is the one every managed file was aligned    *)
(* with, except those resolve has moved on since: the lock never claims an *)
(* upgrade that was done in part.                                          *)
VersionIsHonest ==
  lock.status = "ok" =>
    \A f \in lock.managed :
      resolved[f] = NoTree => lock.upstream[f] = lock.version[f].content

(* Upgrading goes on. With no command killed, files the user left alone    *)
(* are those of the version in the lock, all of them, and harness.json     *)
(* names it too; and resolve is a way out of a conflict: a sync to the     *)
(* tree a file was resolved with finds none in it, however it is edited.   *)
UpgradeGoesOn ==
  job = Idle /\ lock.status = "ok" =>
    /\ ~crashed =>
         /\ json = lock.version
         /\ \A f \in Managed(lock.version) \ own : proj[f] = lock.version[f].content
    /\ \A f \in Files : resolved[f] # NoTree => f \notin Conflicts(resolved[f])

(* sync "never silently overwrites a file changed locally" (harness.sh).   *)
(* Not so for a file the lock does not list: an orphan of an earlier       *)
(* version, or a file the project already had, is "added" over.            *)
NeverOverwritesLocal ==
  job.cmd = "sync" => \A f \in job.todo : proj[f] \notin Local

=============================================================================
