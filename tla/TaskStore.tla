----------------------------- MODULE TaskStore ------------------------------
(***************************************************************************)
(* The task store of the A2A runner (transports/a2a-runner.py, TaskStore). *)
(*                                                                         *)
(* One task owns two files: <tid>.json, the record, replaced as a whole,   *)
(* and <tid>.events.jsonl, the event log, only ever appended to.  The      *)
(* store lock serialises the operations of one runner process, so an       *)
(* operation is atomic for every thread; it is NOT atomic for a crash,     *)
(* which may fall between any two of the file writes.  Each operation is   *)
(* therefore the sequence of disk images its writes go through: the last   *)
(* image is its effect, and any earlier one is what a crash leaves behind. *)
(***************************************************************************)
EXTENDS Naturals, Sequences

Active == {"SUBMITTED", "WORKING"}

Final == {"COMPLETED", "FAILED", "CANCELED", "REJECTED",
          "INPUT_REQUIRED", "AUTH_REQUIRED"}

(* termination_reason values the runner writes; "none" stands for null. *)
Reasons == {"none", "validation", "process_exit", "deadline",
            "sandbox_failure", "runner_internal_timeout", "cancel_task",
            "runner_stop", "runner_exit", "runner_restart"}

(* What the error text of a cancelled record says of its sandbox: no       *)
(* process was registered, its group was terminated (by _run), cleaned up  *)
(* (by cancel) or drained (by the shutdown); "none": any other text.       *)
Errors == {"none", "unregistered", "terminated", "cleaned", "drained"}

Events == Active \cup Final \cup {"artifact"}

(* The two files of one task. "NONE": no record file. *)
Disk == [state    : {"NONE"} \cup Active \cup Final,
         reason   : Reasons,
         error    : Errors,
         complete : BOOLEAN,
         log      : Seq(Events)]

NoTask == [state |-> "NONE", reason |-> "none", error |-> "none",
           complete |-> FALSE, log |-> <<>>]

(* What a caller passes to finalize. *)
Verdict == [state : Final, reason : Reasons \ {"none"}, error : Errors, art : BOOLEAN]

Logged(d, e) == [d EXCEPT !.log = Append(@, e)]

-----------------------------------------------------------------------------
(* Definitions named Bug... are faulty variants of the definition below    *)
(* them: what a plausible mistake in the code would make of it. They are   *)
(* in no specification; they show which properties would notice.           *)

(* create: the record, the truncated event file, the SUBMITTED event. *)
BugRecreateFinal(d) == d.state \notin Active
CanCreate(d) == d.state = "NONE"

CreateImages(d) ==
  LET r == [d EXCEPT !.state = "SUBMITTED"]
      e == [r EXCEPT !.log = <<>>]
  IN  <<r, e, Logged(e, "SUBMITTED")>>

(* transition_working: only a SUBMITTED task whose events are open. *)
CanClaim(d) == d.state = "SUBMITTED" /\ ~d.complete

ClaimImages(d) ==
  LET r == [d EXCEPT !.state = "WORKING"]
  IN  <<r, Logged(r, "WORKING")>>

(* finalize: a no-op on a missing, a final or a completed record. *)
BugFinalizeTwice(d) == d.state # "NONE"
CanFinalize(d) == d.state \in Active /\ ~d.complete

BugCompleteFirst(d, v) ==
  LET r == [d EXCEPT !.state = v.state, !.reason = v.reason, !.complete = TRUE]
      a == IF v.art THEN Logged(r, "artifact") ELSE r
  IN  <<r, a, Logged(a, v.state), Logged(a, v.state)>>

FinalizeImages(d, v) ==
  LET r == [d EXCEPT !.state = v.state, !.reason = v.reason, !.error = v.error]
      a == IF v.art THEN Logged(r, "artifact") ELSE r
      s == Logged(a, v.state)
  IN  <<r, a, s, [s EXCEPT !.complete = TRUE]>>

-----------------------------------------------------------------------------
(* The operations, as the caller sees them. *)
Created(d)      == IF CanCreate(d) THEN CreateImages(d)[3] ELSE d
Claimed(d)      == IF CanClaim(d) THEN ClaimImages(d)[2] ELSE d
Finalized(d, v) == IF CanFinalize(d) THEN FinalizeImages(d, v)[4] ELSE d

(* What a crash inside the operation may leave on disk instead. *)
TornCreate(d) ==
  IF CanCreate(d) THEN {CreateImages(d)[i] : i \in 1..2} ELSE {}
TornClaim(d) ==
  IF CanClaim(d) THEN {ClaimImages(d)[1]} ELSE {}
TornFinalize(d, v) ==
  IF CanFinalize(d) THEN {FinalizeImages(d, v)[i] : i \in 1..3} ELSE {}

=============================================================================
