----------------------------- MODULE A2AClient ------------------------------
(***************************************************************************)
(* One delegation as the A2A client sees it (transports/a2a-client.py):    *)
(* SendMessage, the event stream with its reconnects, GetTask polling, the *)
(* cancel at the deadline, and the local receipt.  The other end is the    *)
(* stream handler of the runner (a2a-runner.py, _sse) over the task store; *)
(* the runner's threads appear only through what they do to the store,     *)
(* which A2ARunner models.                                                 *)
(*                                                                         *)
(* The network loses requests, replies and connections; bytes of one       *)
(* connection arrive in order.                                             *)
(***************************************************************************)
EXTENDS TaskStore, FiniteSets

CONSTANTS
  MaxReconnects,  (* --max-stream-reconnects                                *)
  Resumes,        (* --resume-from values                                   *)
  MaxRuns,        (* bound: client processes started for the task           *)
  MaxRestarts     (* bound: crashes of the runner                           *)

ASSUME ReconnectsAssumption == MaxReconnects \in Nat
ASSUME ResumesAssumption    == Resumes \subseteq Nat
ASSUME RunsAssumption       == MaxRuns \in Nat /\ MaxRestarts \in Nat

VARIABLES
  (* the runner *)
  disk, inline,   (* the task's files; the record carries an artifact       *)
  up, restarts,   (* the runner serves; how often it has crashed            *)
  conn,           (* the client's stream: handler pc, cursor, waiter, bytes *)
  (* the client process *)
  pc, cmd, runs,  (* where it is, its command, how many there have been     *)
  resume, tries,  (* --resume-from; reconnects                              *)
  last, since,    (* last_seq, of _stream_once and of wait_for_terminal     *)
  adv,            (* the advisory record put together from the streams      *)
  seen, broken,   (* history: the events it has seen, each with its stream; *)
                  (* the streams that an exception ended                    *)
  late,           (* its absolute deadline has passed                       *)
  before,         (* the "deduplicated" of its CancelTask                   *)
  got,            (* the record it settled on                               *)
  code,           (* exit code of the last client process                   *)
  (* what it leaves behind *)
  staged, meta    (* the staged artifact file, and run-meta-<task>.json     *)

remote == <<disk, inline, up, restarts>>
place  == <<staged, meta>>
heard  == <<last, since, seen, broken, adv>>
waiting == <<resume, heard, tries>>
ending  == <<before, got, code>>
vars == <<remote, conn, pc, cmd, runs, waiting, late, ending, place>>

Commands == {"run", "send", "get", "subscribe"}
PCs == {"off", "send", "connect", "stream", "done", "poll", "get", "cancel",
        "asked", "confirm", "stage", "meta"}

(* A record as the client holds it; "remote_terminal" is the reason written *)
(* for a record that has none.                                              *)
Record == [state  : {"NONE"} \cup Active \cup Final,
           reason : Reasons \cup {"client_deadline", "remote_terminal"},
           art    : BOOLEAN]
NoRecord == [state |-> "NONE", reason |-> "remote_terminal", art |-> FALSE]
Local(s, why, a) == [state |-> s, reason |-> why, art |-> a]
Remote == Local(disk.state, disk.reason, inline)

Outcomes == {"RETURNED", "TIMEOUT", "CANCELED", "FAILED"}
Meta     == [outcome : Outcomes \cup {"none"}, reason : Reasons \cup {"client_deadline", "remote_terminal"}]
NoMeta   == [outcome |-> "none", reason |-> "remote_terminal"]

Frame  == [seq : Nat, event : Events \cup {"done"}]
Closed == [srv |-> "closed", last |-> 0, woken |-> FALSE, wire |-> <<>>]
Conn   == [srv : {"closed", "events", "check", "flush", "clear", "wait"},
           last : Nat, woken : BOOLEAN, wire : Seq(Frame)]

TypeOK ==
  /\ disk \in Disk /\ inline \in BOOLEAN /\ up \in BOOLEAN /\ restarts \in Nat
  /\ conn \in Conn
  /\ pc \in PCs /\ cmd \in Commands /\ runs \in Nat
  /\ resume \in Nat /\ last \in Nat /\ since \in Nat
  /\ seen \in Seq([seq : Nat, try : Nat]) /\ broken \subseteq Nat
  /\ adv \in Record /\ tries \in Nat /\ late \in BOOLEAN
  /\ before \in BOOLEAN /\ got \in Record
  /\ code \in {"none", "ok", "deadline", "error"}
  /\ staged \in BOOLEAN /\ meta \in Meta

Init ==
  /\ disk = NoTask /\ inline = FALSE /\ up = TRUE /\ restarts = 0
  /\ conn = Closed
  /\ pc = "off" /\ cmd = "run" /\ runs = 0
  /\ resume = 0 /\ last = 0 /\ since = 0 /\ seen = <<>> /\ broken = {}
  /\ adv = NoRecord /\ tries = 0
  /\ late = FALSE /\ before = FALSE /\ got = NoRecord /\ code = "none"
  /\ staged = FALSE /\ meta = NoMeta

-----------------------------------------------------------------------------
(* The runner: what its threads do to the store, each store operation at   *)
(* once for every other thread, and with a notification of the waiters.    *)

Stored(d) ==
  /\ disk' = d
  /\ conn' = IF d # disk THEN [conn EXCEPT !.woken = TRUE] ELSE conn

Client == <<pc, cmd, runs, waiting, late, ending, place>>

RunnerClaim ==
  /\ up /\ CanClaim(disk)
  /\ Stored(Claimed(disk))
  /\ UNCHANGED <<inline, up, restarts, Client>>

(* Results of the sandbox, its own deadline, and the cancels of others.    *)
Settlements ==
  {[state |-> s, reason |-> "process_exit", error |-> "none", art |-> TRUE] :
     s \in {"COMPLETED", "INPUT_REQUIRED"}}
  \cup {[state |-> "FAILED", reason |-> "process_exit", error |-> "none", art |-> a] : a \in BOOLEAN}
  \cup {[state |-> "CANCELED", reason |-> why, error |-> "terminated", art |-> FALSE] :
     why \in {"deadline", "runner_stop", "cancel_task"}}

RunnerSettle ==
  /\ up /\ CanFinalize(disk)
  /\ \E v \in Settlements :
       /\ disk.state = "SUBMITTED" => ~v.art /\ v.state # "COMPLETED"
       /\ Stored(Finalized(disk, v))
       /\ inline' = v.art
  /\ UNCHANGED <<up, restarts, Client>>

(* The runner dies, in the middle of a store operation perhaps. *)
RunnerCrash ==
  /\ up /\ restarts < MaxRestarts
  /\ up' = FALSE /\ restarts' = restarts + 1
  /\ conn' = Closed
  /\ \/ UNCHANGED <<disk, inline>>
     \/ disk' \in TornCreate(disk) \cup TornClaim(disk) /\ UNCHANGED inline
     \/ \E v \in Settlements :
          /\ disk.state = "WORKING"
          /\ disk' \in TornFinalize(disk, v)
          /\ inline' = v.art
  /\ UNCHANGED Client

RunnerRecover ==
  /\ ~up
  /\ up' = TRUE
  /\ disk' = Finalized(disk, [state |-> "FAILED", reason |-> "runner_restart",
                              error |-> "none", art |-> FALSE])
  /\ UNCHANGED <<inline, restarts, conn, Client>>

-----------------------------------------------------------------------------
(* The stream handler: events, then events_complete, then events again and *)
(* "done"; otherwise the waiter is cleared and waited for.                 *)

Frames(n) == [i \in 1..(Len(disk.log) - n) |-> [seq |-> n + i, event |-> disk.log[n + i]]]

(* events_since(last), written to the connection. *)
Drained(c) ==
  IF Len(disk.log) > c.last
    THEN [c EXCEPT !.wire = @ \o Frames(c.last), !.last = Len(disk.log)]
    ELSE c

StreamAt(s) == conn.srv = s /\ UNCHANGED <<remote, Client>>

StreamEvents ==
  /\ StreamAt("events")
  /\ conn' = [Drained(conn) EXCEPT !.srv = "check"]

BugCloseOnState ==
  /\ StreamAt("check")
  /\ conn' = [conn EXCEPT !.srv = IF disk.state \in Final THEN "flush" ELSE "clear"]

StreamCheck ==
  /\ StreamAt("check")
  /\ conn' = [conn EXCEPT !.srv = IF disk.complete THEN "flush" ELSE "clear"]

StreamDone ==
  /\ StreamAt("flush")
  /\ conn' = [Drained(conn) EXCEPT !.srv = "closed",
                !.wire = Append(@, [seq |-> 0, event |-> "done"])]

StreamClear ==
  /\ StreamAt("clear")
  /\ conn' = [conn EXCEPT !.srv = "wait", !.woken = FALSE]

(* Woken by a notification, or the heartbeat interval is over. *)
BugNoHeartbeat ==
  /\ StreamAt("wait")
  /\ conn.woken
  /\ conn' = [conn EXCEPT !.srv = "events"]

StreamWake ==
  /\ StreamAt("wait")
  /\ conn' = [conn EXCEPT !.srv = "events"]

(* sse_timeout: the handler closes a stream that is not over. *)
StreamExpires ==
  /\ StreamAt("wait")
  /\ conn' = [conn EXCEPT !.srv = "closed"]

-----------------------------------------------------------------------------
(* The client: a command and what it sends first. A request may be lost,   *)
(* its effect done, its reply lost; any of these ends the command.         *)

(* What wait_for_terminal keeps, before its first stream; and again when    *)
(* its streams are over, since nothing reads it any more.                  *)
Afresh(from) ==
  /\ last' = from /\ since' = from /\ seen' = <<>> /\ broken' = {}
  /\ adv' = NoRecord /\ tries' = 0

ClientStart ==
  /\ pc = "off" /\ runs < MaxRuns
  /\ runs' = runs + 1
  /\ cmd' \in Commands /\ resume' \in Resumes
  /\ pc' = CASE cmd' \in {"run", "send"} -> "send"
             [] cmd' = "get" -> "get"
             [] cmd' = "subscribe" -> "connect"
  /\ Afresh(resume')
  /\ late' = FALSE /\ before' = FALSE /\ got' = NoRecord /\ code' = "none"
  /\ UNCHANGED <<remote, conn, place>>

End(c) == pc' = "off" /\ code' = c

(* Killed, or an error on the way: no receipt. *)
ClientDies ==
  /\ pc # "off"
  /\ End("error")
  /\ conn' = Closed
  /\ Afresh(resume)
  /\ UNCHANGED <<remote, cmd, runs, resume, late, before, got, place>>

Deadline ==
  /\ pc # "off" /\ ~late
  /\ late' = TRUE
  /\ UNCHANGED <<remote, conn, pc, cmd, runs, waiting, ending, place>>

Request(answered) ==
  /\ pc = "send"
  /\ IF up THEN disk' \in {disk, Created(disk)} ELSE disk' = disk
  /\ answered => up /\ disk'.state # "NONE"
  /\ UNCHANGED <<inline, up, restarts, conn, cmd, runs, waiting, late, before, got, place>>

SendMessage ==
  /\ Request(TRUE)
  /\ IF cmd = "send" THEN End("ok") ELSE pc' = "connect" /\ UNCHANGED code

SendLost == Request(FALSE) /\ End("error")

-----------------------------------------------------------------------------
(* wait_for_terminal and _stream_once, which returns the id of the last    *)
(* event it read; an exception out of its loop returns nothing.            *)

ClientSame == UNCHANGED <<remote, cmd, runs, resume, late, code, before, place>>

Connect ==
  /\ pc = "connect" /\ ~late /\ tries <= MaxReconnects
  /\ up /\ disk.state # "NONE"
  /\ conn' = [Closed EXCEPT !.srv = "events", !.last = last]
  /\ pc' = "stream"
  /\ UNCHANGED <<heard, tries, got>> /\ ClientSame

Reconnect ==
  /\ pc' = "connect"
  /\ tries' = tries + 1
  /\ conn' = Closed
  /\ UNCHANGED <<seen, adv, got>> /\ ClientSame

ConnectFails ==
  /\ pc = "connect" /\ ~late /\ tries <= MaxReconnects
  /\ UNCHANGED <<last, since, broken>> /\ Reconnect

(* Reset, or silent for too long: the exception leaves wait_for_terminal   *)
(* with the id it had before this stream, and with what it read in adv.    *)
StreamCut ==
  /\ pc = "stream"
  /\ last' = since
  /\ broken' = broken \cup {tries}
  /\ UNCHANGED since /\ Reconnect

(* At its end without a "done", or read past the deadline.                 *)
StreamEnds ==
  /\ pc = "stream"
  /\ (conn.srv = "closed" /\ conn.wire = <<>>) \/ late
  /\ since' = last
  /\ UNCHANGED <<last, broken>> /\ Reconnect

(* The advisory record after one more event.                               *)
Advised(e) ==
  IF e = "artifact" THEN [adv EXCEPT !.art = TRUE] ELSE [adv EXCEPT !.state = e]

ReadFrame ==
  /\ pc = "stream" /\ ~late /\ conn.wire # <<>>
  /\ LET f == Head(conn.wire) IN
       IF f.event = "done"
         THEN pc' = "done" /\ since' = last /\ UNCHANGED <<last, seen, adv>>
         ELSE /\ last' = f.seq
              /\ seen' = Append(seen, [seq |-> f.seq, try |-> tries])
              /\ adv' = Advised(f.event)
              /\ UNCHANGED <<pc, since>>
  /\ conn' = [conn EXCEPT !.wire = Tail(@)]
  /\ UNCHANGED <<broken, tries, got>> /\ ClientSame

(* GetTask after "done"; if it fails, the advisory record will do, when it *)
(* has a terminal state.                                                   *)
GotTask ==
  /\ pc = "done" /\ up
  /\ got' = Remote
  /\ pc' = "stage"
  /\ Afresh(resume) /\ UNCHANGED conn /\ ClientSame

GetFails ==
  /\ pc = "done"
  /\ IF adv.state \in Final
       THEN pc' = "stage" /\ got' = adv /\ Afresh(resume) /\ UNCHANGED conn /\ ClientSame
       ELSE UNCHANGED <<last, since, broken>> /\ Reconnect

GiveUpStream ==
  /\ pc = "connect" /\ (late \/ tries > MaxReconnects)
  /\ pc' = "poll"
  /\ Afresh(resume) /\ UNCHANGED <<got, conn>> /\ ClientSame

PollTerminal ==
  /\ pc = "poll" /\ up /\ Remote.state \in Final
  /\ got' = Remote
  /\ pc' = "stage"
  /\ UNCHANGED <<heard, tries, conn>> /\ ClientSame

BugPollWaitsForRecord ==
  /\ pc = "poll" /\ late /\ disk.state \in Final
  /\ pc' = "cancel"
  /\ UNCHANGED <<heard, tries, got, conn>> /\ ClientSame

PollExpires ==
  /\ pc = "poll" /\ late
  /\ pc' = "cancel"
  /\ UNCHANGED <<heard, tries, got, conn>> /\ ClientSame

-----------------------------------------------------------------------------
(* cancel_at_deadline: CancelTask answers with a final record; whether the *)
(* record was final before tells whose cancel it was, or so it is taken.   *)

CancelSame == UNCHANGED <<remote, conn, cmd, runs, waiting, late, place>>

AskCancel ==
  /\ pc = "cancel" /\ up /\ disk.state # "NONE"
  /\ before' = (disk.state \in Final)
  /\ pc' = "asked"
  /\ UNCHANGED <<got, code>> /\ CancelSame

(* The runner cancels the task itself unless another verdict is first.     *)
CancelSettles ==
  /\ pc = "asked" /\ up /\ CanFinalize(disk)
  /\ Stored(Finalized(disk, [state |-> "CANCELED", reason |-> "cancel_task",
                             error |-> "cleaned", art |-> FALSE]))
  /\ UNCHANGED <<inline, up, restarts, Client>>

(* The record the client makes of the answer: its own deadline unless the  *)
(* answer was "deduplicated" with a reason.                                *)
BugTrustOwnCancel(r) == Local("CANCELED", "client_deadline", r.art)

Attributed(r) ==
  IF r.state = "CANCELED" /\ ~(before /\ r.reason # "none")
    THEN [r EXCEPT !.reason = "client_deadline"]
    ELSE r

CancelAnswer ==
  /\ pc = "asked" /\ up /\ disk.state \in Final
  /\ got' = Attributed(Local(disk.state, disk.reason, FALSE))
  /\ pc' = "confirm"
  /\ UNCHANGED <<before, code>> /\ CancelSame

CancelLost ==
  /\ pc \in {"cancel", "asked"}
  /\ End("error")
  /\ UNCHANGED <<before, got>> /\ CancelSame

(* The final GetTask; a confirmed cancel does without it.                  *)
Confirm ==
  /\ pc = "confirm"
  /\ \/ up /\ got' = Attributed(Remote) /\ pc' = "stage" /\ UNCHANGED code
     \/ got.state = "CANCELED" /\ pc' = "stage" /\ UNCHANGED <<got, code>>
     \/ got.state # "CANCELED" /\ End("error") /\ UNCHANGED got
  /\ UNCHANGED before /\ CancelSame

(* The get command: a receipt only of a terminal record.                   *)
GetCommand ==
  /\ pc = "get"
  /\ \/ up /\ Remote.state \in Final /\ got' = Remote /\ pc' = "stage" /\ UNCHANGED code
     \/ up /\ Remote.state \in Active /\ End("ok") /\ UNCHANGED got
     \/ End("error") /\ UNCHANGED got
  /\ UNCHANGED before /\ CancelSame

-----------------------------------------------------------------------------
(* synth_run_meta: the artifact first, refusing to overwrite one, then the *)
(* receipt.                                                                *)

Outcome(r) ==
  IF r.state = "COMPLETED" /\ r.art THEN "RETURNED"
  ELSE IF r.state # "CANCELED" THEN "FAILED"
  ELSE IF r.reason \in {"deadline", "client_deadline"} THEN "TIMEOUT" ELSE "CANCELED"

ReceiptSame == UNCHANGED <<remote, conn, cmd, runs, waiting, late, before, got>>

BugOverwriteArtifact ==
  /\ pc = "stage"
  /\ staged' = (staged \/ got.art)
  /\ pc' = "meta" /\ UNCHANGED <<code, meta>>
  /\ ReceiptSame

StageArtifact ==
  /\ pc = "stage"
  /\ IF got.art /\ staged
       THEN End("error") /\ UNCHANGED staged
       ELSE pc' = "meta" /\ staged' = (staged \/ got.art) /\ UNCHANGED code
  /\ UNCHANGED meta
  /\ ReceiptSame

WriteMeta ==
  /\ pc = "meta"
  /\ meta' = [outcome |-> Outcome(got),
              reason |-> IF got.reason = "none" THEN "remote_terminal" ELSE got.reason]
  /\ End(IF got.state = "CANCELED" /\ got.reason = "client_deadline" THEN "deadline" ELSE "ok")
  /\ UNCHANGED staged
  /\ ReceiptSame

-----------------------------------------------------------------------------
StreamStep == StreamEvents \/ StreamCheck \/ StreamDone \/ StreamClear \/ StreamWake

ClientStep ==
  \/ SendMessage \/ SendLost \/ Connect \/ ConnectFails \/ StreamEnds \/ ReadFrame
  \/ GotTask \/ GetFails \/ GiveUpStream \/ PollTerminal \/ PollExpires
  \/ AskCancel \/ CancelAnswer \/ CancelLost \/ Confirm \/ GetCommand
  \/ StageArtifact \/ WriteMeta

Next ==
  \/ RunnerClaim \/ RunnerSettle \/ RunnerCrash \/ RunnerRecover \/ CancelSettles
  \/ StreamStep \/ StreamExpires \/ StreamCut
  \/ ClientStart \/ ClientDies \/ Deadline \/ ClientStep

Spec == Init /\ [][Next]_vars

(* Threads run; the clock and the network owe nothing.                     *)
Fairness == WF_vars(StreamStep) /\ WF_vars(ClientStep)

FairSpec == Spec /\ Fairness

-----------------------------------------------------------------------------
(* Properties.                                                             *)

(* Over any number of cut and resumed streams the client sees every event  *)
(* after --resume-from, in order (a2a.md:145: it replays after event seq,  *)
(* and loses no event): no event before an earlier one, and none again     *)
(* unless the stream it came over ended with an exception, which is when   *)
(* the client falls back to the id it had before that stream. One that is  *)
(* told "done" has seen the last: the stream drains again before it says   *)
(* so.                                                                     *)
StreamIsWhole ==
  /\ \A j \in DOMAIN seen : \A n \in resume+1 .. seen[j].seq - 1 :
       \E i \in 1..j-1 : seen[i].seq = n
  /\ \A i, j \in DOMAIN seen :
       i < j /\ seen[j].seq <= seen[i].seq => seen[i].try \in broken
  /\ pc = "done" =>
       /\ disk.complete
       /\ \A n \in resume+1 .. Len(disk.log) : \E i \in DOMAIN seen : seen[i].seq = n

(* The local receipt agrees with the record of the runner, whichever of    *)
(* stream, poll, advisory record, cancel or get it came from: nothing that *)
(* is not COMPLETED is RETURNED, a completion that wins the race with the  *)
(* deadline is no TIMEOUT, and a completed task is no failure, unless the  *)
(* user asked for the events after its artifact only. Exit code 124 says   *)
(* that the deadline of this client cancelled the task.                    *)
ReceiptMatchesRecord ==
  /\ meta.outcome = "RETURNED" => disk.state = "COMPLETED" /\ staged
  /\ meta.outcome \in {"TIMEOUT", "CANCELED"} => disk.state = "CANCELED"
  /\ pc = "meta" /\ Outcome(got) = "FAILED" =>
       disk.state \in Final \ {"COMPLETED", "CANCELED"} \/ resume >= 3
  /\ code = "deadline" => late /\ disk.state = "CANCELED" /\ meta.outcome = "TIMEOUT"

(* A receipt that returned an artifact is never replaced or lost: a        *)
(* replayed terminal record fails instead (write_artifact_local), unless   *)
(* it was asked for without its artifact.                                  *)
ReturnedIsKept ==
  [][meta.outcome = "RETURNED" => UNCHANGED place \/ resume >= 3]_vars

(* What the runner logged reaches an open stream, although a notification  *)
(* between reading the log and clearing the waiter is lost.                *)
UpdatesArrive ==
  \A n \in 1..4 : pc = "stream" /\ Len(disk.log) >= n ~> last >= n \/ pc # "stream"

(* Every command ends once its deadline has passed, wherever it was then   *)
(* and whatever the runner does: no retry goes on without it.              *)
ClientEnds == pc # "off" /\ late ~> pc = "off"

(* No event is seen twice. Not so: what came over a stream that ended with *)
(* an exception is asked for and seen again.                               *)
SeenOnce == \A i, j \in DOMAIN seen : seen[i].seq = seen[j].seq => i = j

(* "A duplicate/replayed remote response [must] fail rather than overwrite *)
(* evidence" (write_artifact_local). Not so: put together from a stream    *)
(* resumed after the artifact event, when the last GetTask fails, the      *)
(* completed record has no artifact to refuse, and FAILED is written over  *)
(* RETURNED.                                                               *)
ReplayKeepsReceipt == [][meta.outcome = "RETURNED" => meta'.outcome = "RETURNED"]_vars

=============================================================================
