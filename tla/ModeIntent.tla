----------------------------- MODULE ModeIntent -----------------------------
(***************************************************************************)
(* consume-mode-intent.sh: a planner at a batch boundary takes the signed  *)
(* mode intent that a device staged in harness.json, writes it into        *)
(* progress.json as the batch's checkpoint, and then strikes it from       *)
(* harness.json and enters it in the ledger there. A directory is the      *)
(* lock. A consumer may be killed at any point.                            *)
(***************************************************************************)
EXTENDS Naturals, Sequences

CONSTANTS
  Consumers, (* runs of the script, each for a batch of its own             *)
  Intents,   (* signed intents of the console                               *)
  NoIntent,
  Limit      (* CONSUMED_LEDGER_LIMIT                                       *)

VARIABLES
  progress, (* status and checkpoint in progress.json                       *)
  harness,  (* staged intent and ledger in harness.json                     *)
  lock,     (* the lock directory exists                                    *)
  run       (* [Consumers -> the script]                                    *)

vars == <<progress, harness, lock, run>>

Idle == [pc |-> "idle", mine |-> FALSE, sealed |-> NoIntent,
         progress |-> NoIntent, harness |-> NoIntent]

Init ==
  /\ progress = [status |-> "boundary", intent |-> NoIntent]
  /\ harness = [staged |-> NoIntent, ledger |-> <<>>]
  /\ lock = FALSE
  /\ run = [c \in Consumers |-> Idle]

At(c, pc)   == run[c].pc = pc
Goto(c, pc) == run' = [run EXCEPT ![c].pc = pc]
Die(c)      == Goto(c, "exit")
Entered(i)  == \E n \in 1..Len(harness.ledger) : harness.ledger[n] = i

(* LOCK is set and then the directory is made: one that finds it there     *)
(* dies with LOCK set.                                                     *)
TakeLock(c) ==
  /\ At(c, "idle")
  /\ lock' = TRUE
  /\ run' = [run EXCEPT ![c].mine = TRUE, ![c].pc = IF lock THEN "exit" ELSE "seal"]
  /\ UNCHANGED <<progress, harness>>

(* validate-mode-intent.sh: one read of harness.json, sealed. *)
Seal(c) ==
  /\ At(c, "seal")
  /\ IF harness.staged = NoIntent
     THEN Die(c)
     ELSE run' = [run EXCEPT ![c].pc = "load", ![c].sealed = harness.staged]
  /\ UNCHANGED <<progress, harness, lock>>

(* Both files are read; a batch under way, the intent's own checkpoint or  *)
(* an entry in the ledger refuses it.                                      *)
Load(c) ==
  /\ At(c, "load")
  /\ IF \/ progress.status = "active"
        \/ progress.intent = run[c].sealed
        \/ Entered(run[c].sealed)
     THEN Die(c)
     ELSE run' = [run EXCEPT ![c].pc = "replace", ![c].progress = progress]
  /\ UNCHANGED <<progress, harness, lock>>

(* os.replace of the whole of what was loaded. *)
ReplaceProgress(c) ==
  /\ At(c, "replace") /\ Goto(c, "reread")
  /\ progress' = [run[c].progress EXCEPT !.intent = run[c].sealed]
  /\ UNCHANGED <<harness, lock>>

RereadHarness(c) ==
  /\ At(c, "reread")
  /\ run' = [run EXCEPT ![c].pc = "enter", ![c].harness = harness]
  /\ UNCHANGED <<progress, harness, lock>>

(* Only its own intent is struck; the ledger keeps its last entries. *)
EnterLedger(c) ==
  LET read   == run[c].harness
      ledger == Append(read.ledger, run[c].sealed)
      first  == IF Len(ledger) > Limit THEN Len(ledger) - Limit + 1 ELSE 1
  IN
  /\ At(c, "enter") /\ Die(c)
  /\ harness' = [staged |-> IF read.staged = run[c].sealed THEN NoIntent ELSE read.staged,
                 ledger |-> SubSeq(ledger, first, Len(ledger))]
  /\ UNCHANGED <<progress, lock>>

(* The EXIT trap removes the directory that LOCK names. *)
Cleanup(c) ==
  /\ At(c, "exit") /\ Goto(c, "over")
  /\ lock' = IF run[c].mine THEN FALSE ELSE lock
  /\ UNCHANGED <<progress, harness>>

Kill(c) ==
  /\ run[c].pc \notin {"idle", "over", "killed"}
  /\ Goto(c, "killed")
  /\ UNCHANGED <<progress, harness, lock>>

(* A device stages an intent; a planner that has its checkpoint begins the *)
(* batch, and at the end of it clears the checkpoint.                      *)
Stage ==
  /\ \E i \in Intents : harness' = [harness EXCEPT !.staged = i]
  /\ UNCHANGED <<progress, lock, run>>

BeginBatch ==
  /\ progress.status = "boundary"
  /\ \E c \in Consumers : At(c, "over") /\ run[c].sealed = progress.intent
  /\ progress.intent # NoIntent
  /\ progress' = [progress EXCEPT !.status = "active"]
  /\ UNCHANGED <<harness, lock, run>>

FinishBatch ==
  /\ progress.status = "active"
  /\ progress' = [status |-> "boundary", intent |-> NoIntent]
  /\ UNCHANGED <<harness, lock, run>>

Next ==
  \/ \E c \in Consumers :
       \/ TakeLock(c) \/ Seal(c) \/ Load(c) \/ ReplaceProgress(c)
       \/ RereadHarness(c) \/ EnterLedger(c) \/ Cleanup(c) \/ Kill(c)
  \/ Stage \/ BeginBatch \/ FinishBatch

Spec == Init /\ [][Next]_vars

-----------------------------------------------------------------------------

(* "A second planner must not validate one intent and then overwrite the   *)
(* first planner's newly consumed checkpoint": a consumer replaces the     *)
(* progress.json that it checked, and no later one.                        *)
CheckpointIsNotOverwritten ==
  [][\A c \in Consumers :
       At(c, "replace") /\ run'[c].pc = "reread" => run[c].progress = progress]_vars

=============================================================================
