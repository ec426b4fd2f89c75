------------------------------- MODULE Broker -------------------------------
(***************************************************************************)
(* The credential broker of vm-bridge-provider.py: _BrokerServer, its      *)
(* handler threads and the BrokerLease that owns it. A guest may talk to   *)
(* the model's service only through it, with the lease of one launch, and  *)
(* never sees the host's credential.                                       *)
(*                                                                         *)
(* A connection is a handler thread on a keep-alive socket. What a request *)
(* says is left out: it is accepted or rejected at each test _proxy makes. *)
(***************************************************************************)
EXTENDS Naturals, FiniteSets

CONSTANTS
  Launches,  (* launches of the provider; each opens one broker             *)
  NoLaunch,
  Conns,     (* connections there can be at a time                          *)
  Slots,     (* MAX_BROKER_CONCURRENT_CONNECTIONS                           *)
  Budget     (* MAX_BROKER_REQUESTS                                         *)

ASSUME NoLaunchAssumption == NoLaunch \notin Launches
ASSUME SlotsAssumption    == Slots \in Nat \ {0}
ASSUME BudgetAssumption   == Budget \in Nat \ {0}

VARIABLES
  srv,   (* [Launches -> the server]: used is _request_count, free are the  *)
         (* slots of the semaphore, st what __exit__ has done so far        *)
  conn   (* [Conns -> the handler]: whose server, which guest unit asks,    *)
         (* how far _proxy is, whether revoke closed its socket             *)

brokerVars == <<srv, conn>>

NoServer == [st |-> "none", used |-> 0, free |-> Slots]
NoConn   == [at |-> NoLaunch, from |-> NoLaunch, pc |-> "none", cut |-> FALSE]

ServerStates == {"none", "open", "revoked", "cut", "closed"}
(* The handler holds the raw credential in the last three. *)
ConnPCs == {"none", "idle", "authorized", "reserved", "credential", "registered", "sent"}
Holding == {"credential", "registered", "sent"}

BrokerTypeOK ==
  /\ srv \in [Launches -> [st : ServerStates, used : 0..Budget, free : 0..Slots]]
  /\ conn \in [Conns -> [at : Launches \cup {NoLaunch}, from : Launches \cup {NoLaunch},
                         pc : ConnPCs, cut : BOOLEAN]]

BrokerInit ==
  /\ srv = [l \in Launches |-> NoServer]
  /\ conn = [c \in Conns |-> NoConn]

(* _accepting, which revoke clears together with lease and credential. *)
Accepting(l) == srv[l].st = "open"
ConnsOf(l)   == {c \in Conns : conn[c].at = l}

-----------------------------------------------------------------------------
(* Handler threads.                                                        *)

GoTo(c, pc) == conn' = [conn EXCEPT ![c].pc = pc]
(* A rejected request leaves the keep-alive connection as it was. *)
Reject(c) == GoTo(c, "idle")

(* process_request. Without a free slot the peer gets a 429, without a     *)
(* lease its socket is closed: no handler in either case.                  *)
Connect(c, l, u) ==
  /\ conn[c].pc = "none"
  /\ Accepting(l) /\ srv[l].free > 0
  /\ conn' = [conn EXCEPT ![c] = [NoConn EXCEPT !.at = l, !.from = u, !.pc = "idle"]]
  /\ srv' = [srv EXCEPT ![l].free = @ - 1]

(* A POST with the lease of this broker, which only its own guest got. *)
Authorize(c) ==
  /\ conn[c].pc = "idle" /\ ~conn[c].cut
  /\ Accepting(conn[c].at) /\ conn[c].from = conn[c].at
  /\ GoTo(c, "authorized")
  /\ UNCHANGED srv

(* The budget is spent before the body is read. *)
Reserve(c) ==
  /\ conn[c].pc = "authorized"
  /\ LET l == conn[c].at IN
     IF Accepting(l) /\ srv[l].used < Budget
     THEN GoTo(c, "reserved") /\ srv' = [srv EXCEPT ![l].used = @ + 1]
     ELSE Reject(c) /\ UNCHANGED srv

(* The body is cut short, or is not the one request of the contract.        *)
RejectBody(c) == conn[c].pc = "reserved" /\ Reject(c) /\ UNCHANGED srv

(* The body was read and validated; a socket that was closed gives none.    *)
TakeCredential(c) ==
  /\ conn[c].pc = "reserved" /\ ~conn[c].cut
  /\ IF Accepting(conn[c].at) THEN GoTo(c, "credential") ELSE Reject(c)
  /\ UNCHANGED srv

RegisterUpstream(c) ==
  /\ conn[c].pc = "credential"
  /\ IF Accepting(conn[c].at) THEN GoTo(c, "registered") ELSE Reject(c)
  /\ UNCHANGED srv

(* The connection is made only here, with no look at the lease: closing it *)
(* before, as revoke does, has no effect.                                  *)
SendUpstream(c) == conn[c].pc = "registered" /\ GoTo(c, "sent") /\ UNCHANGED srv

BugNoTimeout(c) ==
  /\ conn[c].pc = "sent" /\ ~conn[c].cut
  /\ Reject(c)
  /\ UNCHANGED srv

(* Answered, failed, closed by revoke or timed out. *)
FinishUpstream(c) == conn[c].pc = "sent" /\ Reject(c) /\ UNCHANGED srv

(* process_request_thread ends: the peer is gone, idle too long, or cut. *)
HangUp(c) ==
  /\ conn[c].pc = "idle"
  /\ srv' = [srv EXCEPT ![conn[c].at].free = @ + 1]
  /\ conn' = [conn EXCEPT ![c] = NoConn]

HandlerStep(c) ==
  \/ Reserve(c) \/ RejectBody(c) \/ TakeCredential(c)
  \/ RegisterUpstream(c) \/ SendUpstream(c) \/ FinishUpstream(c)

-----------------------------------------------------------------------------
(* BrokerLease.                                                            *)

(* __enter__: the credential is read, the server bound to a free port.     *)
OpenBroker(l) ==
  /\ srv' = [srv EXCEPT ![l] = [NoServer EXCEPT !.st = "open"]]
  /\ UNCHANGED conn

(* revoke under the lock, and then, outside it, the sockets it saw.        *)
Revoke(l) ==
  /\ srv' = [srv EXCEPT ![l].st = "revoked"]
  /\ UNCHANGED conn

CutSockets(l) ==
  /\ srv' = [srv EXCEPT ![l].st = "cut"]
  /\ conn' = [c \in Conns |-> [conn[c] EXCEPT !.cut = @ \/ conn[c].at = l]]

BugCloseUnjoined(l) ==
  /\ srv' = [srv EXCEPT ![l].st = "closed"]
  /\ UNCHANGED conn

(* shutdown, and server_close, which joins every handler (block_on_close). *)
CloseBroker(l) ==
  /\ ConnsOf(l) = {}
  /\ srv' = [srv EXCEPT ![l].st = "closed"]
  /\ UNCHANGED conn

(* The provider's process died, and all of its threads with it. *)
DropBroker(l) ==
  /\ srv' = [srv EXCEPT ![l] = NoServer]
  /\ conn' = [c \in Conns |-> IF conn[c].at = l THEN NoConn ELSE conn[c]]

=============================================================================
