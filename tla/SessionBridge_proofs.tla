----------------------- MODULE SessionBridge_proofs -----------------------
(***************************************************************************)
(* What a session's proof speaks of, and what it leaves behind, for every  *)
(* set of calls and every bound. The vendor may say anything in between,   *)
(* so the invariant says what its words amount to: each is true of the     *)
(* child it names, and remains so; and when the prompt is answered, the    *)
(* beginning of every child there is precedes the answer on the wire, or   *)
(* has been read.                                                          *)
(***************************************************************************)
EXTENDS SessionBridge, FiniteSetTheorems, TLAPS

-----------------------------------------------------------------------------
(* The inductive invariant *)

\* Where the bridge is before there is a vendor, and before it reads from one.
Early == {"none", "begin", "armed", "home", "checked", "spawn"}
Quietly == Early \cup {"bind", "bound", "send"}
Attached == {"bound", "send", "recv", "check", "close", "term", "reap"}

\* The worker and the bridge it starts, and where the bridge knows what.
Places ==
  /\ mode = "direct" <=> w.pc = "none"
  /\ w.pc = "prep" => b.pc = "none"
  /\ b.pc = "report" => mode = "contained" /\ b.proof
  /\ b.proof => b.pc \notin Early \cup Body
  /\ b.pc \in Early => group = {}
  /\ mode = "contained" => ~b.bound
  /\ b.pc \in Early \cup {"bind", "bound"} => b.req = 0
  /\ b.pc = "send" => b.req < Requests
  /\ b.pc = "check" => b.req = Requests
  /\ late <= IF b.pc \in {"remove", "restore", "report", "over", "dead"}
             THEN signals + 1 ELSE signals

\* A direct session that lets its group go has ended it, and a cleanup that is
\* cut short was cut short by as many exceptions.
Directly ==
  mode = "direct" =>
    /\ b.pc # "none"
    /\ group # {} => b.pc \in Attached \cup {"bind"}
    /\ b.pc \in Attached => b.bound
    /\ b.pc \in Early \cup {"bind"} => ~b.bound
    /\ b.pc \in {"begin", "armed", "home"} => ~home
    /\ b.pc = "remove" /\ b.bound => late >= 1
    /\ b.pc \in {"restore", "report", "over", "dead"} /\ home => late >= 2

Proved == \E c \in Calls : v.kids = {c} /\ call[c].at = "done" /\ call[c].nonce

\* What the worker reads it reads of a bridge that is over.
Working ==
  /\ w.pc \in {"read", "prove"} \/ receipt => Exited /\ group = {}
  /\ receipt => w.pc = "over"
  /\ w.pc = "prove" \/ receipt => pipe
  /\ pipe => Exited /\ Proved
  /\ b.proof => Proved

\* What the vendor says of a child is true of it, and remains so.
Truth(msg) ==
  /\ msg.t \in {"agent", "input", "end"} => msg.c \in Calls
  /\ msg.t = "agent" => msg = Msg("agent", msg.c, TRUE) /\ call[msg.c].at # "none"
  /\ msg.t = "input" /\ msg.ok => call[msg.c].nonce
  /\ msg.t = "end" /\ msg.ok => call[msg.c].at = "done"

Replies == {i \in 1..Len(wire) : wire[i].t = "reply"}
Ahead(i) == \A j \in 1..i : wire[j].t # "reply"
Begun(c) == Msg("agent", c, TRUE)

\* The answer to the prompt has on the wire before it, or already read, the
\* beginning of every child there was at that time, and of no other.
Told ==
  /\ IsFiniteSet(seen)
  /\ \A msg \in seen : Truth(msg)
  /\ \A i \in 1..Len(wire) : Truth(wire[i])
  /\ b.pc \in Quietly => v.replies = b.req /\ Replies = {}
  /\ b.pc \in Quietly \cup {"recv"} /\ b.req < Requests =>
       seen = {} /\ \A c \in Calls : call[c] = Fresh
  /\ b.pc = "recv" =>
       \/ v.replies + 1 = b.req /\ Replies = {}
       \/ v.replies = b.req /\ Replies # {} /\ \A i, j \in Replies : i = j
  /\ b.pc = "recv" /\ b.req = Requests /\ v.replies < Requests =>
       \A c \in Calls : call[c] # Fresh =>
         Begun(c) \in seen \/ \E i \in 1..Len(wire) : wire[i] = Begun(c)
  /\ b.pc = "recv" /\ v.replies = Requests =>
       /\ \A c \in v.kids :
            Begun(c) \in seen \/ \E i \in 1..Len(wire) : wire[i] = Begun(c) /\ Ahead(i)
       /\ \A i \in 1..Len(wire) : wire[i].t = "agent" /\ Ahead(i) => wire[i].c \in v.kids
       /\ \A msg \in seen : msg.t = "agent" => msg.c \in v.kids
  /\ b.pc = "check" =>
       /\ \A c \in v.kids : Begun(c) \in seen
       /\ \A msg \in seen : msg.t = "agent" => msg.c \in v.kids

IInv == TypeOK /\ Places /\ Directly /\ Working /\ Told

-----------------------------------------------------------------------------
(* What a step does to the bridge, and what it leaves alone *)

Session == [pc : BridgePCs, req : 0..Requests, read : 0..MaxEvents,
            bound : BOOLEAN, pending : BOOLEAN, proof : BOOLEAN]

Is(s, pc, req, bound, proof) ==
  /\ s \in Session /\ s.pc = pc /\ s.req = req
  /\ s.bound = bound /\ s.proof = proof

LEMMA GotoIs ==
  ASSUME b \in Session, NEW pc \in BridgePCs, Goto(pc)
  PROVE  Is(b', pc, b.req, b.bound, b.proof)
BY DEF Goto, Is, Session

LEMMA RaiseIs ==
  ASSUME b \in Session, NEW pc \in BridgePCs, Raise(pc)
  PROVE  Is(b', pc, b.req, b.bound, FALSE)
BY DEF Raise, Is, Session

LEMMA PCs ==
  /\ Body \subseteq BridgePCs /\ Leaving \subseteq BridgePCs /\ Early \subseteq BridgePCs
  /\ Quietly \subseteq BridgePCs /\ BridgeOver \subseteq BridgePCs /\ "report" \in BridgePCs
BY DEF Body, Leaving, Early, Quietly, BridgeOver, BridgePCs, Handled

\* What the vendor says and the bridge reads is all that Told speaks of.
LEMMA ToldStays ==
  ASSUME Told, UNCHANGED <<seen, wire, v, call>>, b'.req = b.req,
         b'.pc \in Quietly => b.pc \in Quietly,
         b'.pc \in {"recv", "check"} => b'.pc = b.pc
  PROVE  Told'
<1>1. Replies' = Replies /\ \A i : Ahead(i)' = Ahead(i)
  BY DEF Replies, Ahead
<1>2. \A msg : Truth(msg)' = Truth(msg)
  BY DEF Truth
<1> QED
  BY <1>1, <1>2 DEF Told

\* A session that does not go back, and a group that does not, keep the worker right.
LEMMA WorkingStays ==
  ASSUME Working, UNCHANGED <<w, receipt, pipe, v, call>>, b'.proof => b.proof,
         Exited => b'.pc \in BridgeOver, Exited /\ group = {} => group' = {}
  PROVE  Working'
<1>1. Proved' = Proved
  BY DEF Proved
<1>2. Exited => Exited'
  BY DEF Exited
<1> QED
  BY <1>1, <1>2 DEF Working

\* The steps of the bridge by itself change nothing of the vendor or the worker.
LEMMA Outer ==
  ASSUME BridgeStep
  PROVE  /\ UNCHANGED <<mode, wire, v, call, w, receipt, pipe, signals>>
         /\ late' = IF At("reap") /\ b'.pc = "remove" THEN late + 1 ELSE late
BY DEF BridgeStep, vendor, worker

LEMMA Parts ==
  ASSUME TypeOK
  PROVE  /\ b \in Session /\ group \subseteq Members /\ home \in BOOLEAN
         /\ mode \in {"direct", "contained"}
         /\ late \in Nat /\ signals \in Nat
BY DEF TypeOK, Session

\* A step of the bridge that proves nothing and reads nothing has only its place
\* and its group to answer for.
LEMMA BridgeMoves ==
  ASSUME IInv, UNCHANGED <<mode, seen, wire, v, call, w, receipt, pipe, signals>>,
         ~Exited, b' \in Session, group' \subseteq Members, home' \in BOOLEAN,
         b'.req = b.req, late' \in Nat, b'.proof => b.proof,
         b'.pc \in Quietly => b.pc \in Quietly,
         b'.pc \in {"recv", "check"} => b'.pc = b.pc,
         Places', Directly'
  PROVE  IInv'
<1>1. late' \in 0..(MaxSignals + 1)
  BY MaxAssumption DEF IInv, TypeOK, Places
<1>2. TypeOK'
  BY <1>1 DEF IInv, TypeOK, Session
<1>3. Working'
  BY WorkingStays DEF IInv, Exited
<1>4. Told'
  BY ToldStays DEF IInv
<1> QED
  BY <1>2, <1>3, <1>4 DEF IInv

LEMMA RefuseSessionKeeps ==
  ASSUME IInv, BridgeStep, RefuseSession
  PROVE  IInv'
<1>1. TypeOK /\ b \in Session
  BY Parts DEF IInv
<1>2. UNCHANGED <<mode, seen, wire, v, call, w, receipt, pipe, signals>>
  BY Outer DEF RefuseSession
<1>3. /\ b.pc = "begin" /\ mode = "contained" /\ UNCHANGED <<group, home>>
      /\ Is(b', "over", b.req, b.bound, FALSE)
  BY <1>1, GotoIs, RaiseIs DEF RefuseSession, At, BridgePCs, Handled, Body, Leaving, BridgeOver
<1>4. late' = IF b.pc = "reap" /\ b'.pc = "remove" THEN late + 1 ELSE late
  BY Outer DEF At
<1>5. Places'
  BY <1>1, <1>2, <1>3, <1>4, Parts DEF IInv, Places, Is, Early, Body, Requests
<1>6. Directly'
  BY <1>1, <1>2, <1>3, <1>4, Parts DEF IInv, Directly, Is, Attached, Early
<1>7. /\ ~Exited /\ b' \in Session /\ group' \subseteq Members /\ home' \in BOOLEAN
      /\ b'.req = b.req /\ late' \in Nat
      /\ b'.proof => b.proof
      /\ b'.pc \in Quietly => b.pc \in Quietly
      /\ b'.pc \in {"recv", "check"} => b'.pc = b.pc
  BY <1>1, <1>3, <1>4, Parts DEF Is, Quietly, Early, Members, Exited, BridgeOver
<1> QED
  BY <1>2, <1>5, <1>6, <1>7, BridgeMoves

LEMMA InstallHandlersKeeps ==
  ASSUME IInv, BridgeStep, InstallHandlers
  PROVE  IInv'
<1>1. TypeOK /\ b \in Session
  BY Parts DEF IInv
<1>2. UNCHANGED <<mode, seen, wire, v, call, w, receipt, pipe, signals>>
  BY Outer DEF InstallHandlers
<1>3. /\ b.pc = "begin" /\ UNCHANGED <<group, home>>
      /\ Is(b', "armed", b.req, b.bound, b.proof)
  BY <1>1, GotoIs, RaiseIs DEF InstallHandlers, At, BridgePCs, Handled, Body, Leaving, BridgeOver
<1>4. late' = IF b.pc = "reap" /\ b'.pc = "remove" THEN late + 1 ELSE late
  BY Outer DEF At
<1>5. Places'
  BY <1>1, <1>2, <1>3, <1>4, Parts DEF IInv, Places, Is, Early, Body, Requests
<1>6. Directly'
  BY <1>1, <1>2, <1>3, <1>4, Parts DEF IInv, Directly, Is, Attached, Early
<1>7. /\ ~Exited /\ b' \in Session /\ group' \subseteq Members /\ home' \in BOOLEAN
      /\ b'.req = b.req /\ late' \in Nat
      /\ b'.proof => b.proof
      /\ b'.pc \in Quietly => b.pc \in Quietly
      /\ b'.pc \in {"recv", "check"} => b'.pc = b.pc
  BY <1>1, <1>3, <1>4, Parts DEF Is, Quietly, Early, Members, Exited, BridgeOver
<1> QED
  BY <1>2, <1>5, <1>6, <1>7, BridgeMoves

LEMMA CheckInterruptKeeps ==
  ASSUME IInv, BridgeStep, CheckInterrupt
  PROVE  IInv'
<1>1. TypeOK /\ b \in Session
  BY Parts DEF IInv
<1>2. UNCHANGED <<mode, seen, wire, v, call, w, receipt, pipe, signals>>
  BY Outer DEF CheckInterrupt
<1>3. /\ UNCHANGED home /\ group' \in {{}, group}
      /\ ~b.bound => UNCHANGED group
      /\ \/ /\ b.pc = "armed"
            /\ \/ Is(b', "home", b.req, b.bound, b.proof)
               \/ Is(b', "remove", b.req, b.bound, FALSE)
         \/ /\ b.pc = "checked"
            /\ \/ Is(b', "spawn", b.req, b.bound, b.proof)
               \/ Is(b', "remove", b.req, b.bound, FALSE)
         \/ /\ b.pc = "bound"
            /\ \/ Is(b', "send", b.req, b.bound, b.proof)
               \/ Is(b', "close", b.req, b.bound, FALSE)
  BY <1>1, GotoIs, RaiseIs DEF CheckInterrupt, At, BridgePCs, Handled, Body, Leaving,
                               BridgeOver, Interrupted
<1>4. late' = IF b.pc = "reap" /\ b'.pc = "remove" THEN late + 1 ELSE late
  BY Outer DEF At
<1>5. Places'
  BY <1>1, <1>2, <1>3, <1>4, Parts DEF IInv, Places, Is, Early, Body, Requests
<1>6. Directly'
  BY <1>1, <1>2, <1>3, <1>4, Parts DEF IInv, Directly, Is, Attached, Early
<1>7. /\ ~Exited /\ b' \in Session /\ group' \subseteq Members /\ home' \in BOOLEAN
      /\ b'.req = b.req /\ late' \in Nat
      /\ b'.proof => b.proof
      /\ b'.pc \in Quietly => b.pc \in Quietly
      /\ b'.pc \in {"recv", "check"} => b'.pc = b.pc
  BY <1>1, <1>3, <1>4, Parts DEF Is, Quietly, Early, Members, Exited, BridgeOver
<1> QED
  BY <1>2, <1>5, <1>6, <1>7, BridgeMoves

LEMMA MakeHomeKeeps ==
  ASSUME IInv, BridgeStep, MakeHome
  PROVE  IInv'
<1>1. TypeOK /\ b \in Session
  BY Parts DEF IInv
<1>2. UNCHANGED <<mode, seen, wire, v, call, w, receipt, pipe, signals>>
  BY Outer DEF MakeHome
<1>3. /\ b.pc = "home" /\ UNCHANGED group
      /\ \/ home' = TRUE /\ Is(b', "checked", b.req, b.bound, b.proof)
         \/ UNCHANGED home /\ Is(b', "remove", b.req, b.bound, FALSE)
  BY <1>1, GotoIs, RaiseIs DEF MakeHome, At, BridgePCs, Handled, Body, Leaving, BridgeOver
<1>4. late' = IF b.pc = "reap" /\ b'.pc = "remove" THEN late + 1 ELSE late
  BY Outer DEF At
<1>5. Places'
  BY <1>1, <1>2, <1>3, <1>4, Parts DEF IInv, Places, Is, Early, Body, Requests
<1>6. Directly'
  BY <1>1, <1>2, <1>3, <1>4, Parts DEF IInv, Directly, Is, Attached, Early
<1>7. /\ ~Exited /\ b' \in Session /\ group' \subseteq Members /\ home' \in BOOLEAN
      /\ b'.req = b.req /\ late' \in Nat
      /\ b'.proof => b.proof
      /\ b'.pc \in Quietly => b.pc \in Quietly
      /\ b'.pc \in {"recv", "check"} => b'.pc = b.pc
  BY <1>1, <1>3, <1>4, Parts DEF Is, Quietly, Early, Members, Exited, BridgeOver
<1> QED
  BY <1>2, <1>5, <1>6, <1>7, BridgeMoves

LEMMA PopenKeeps ==
  ASSUME IInv, BridgeStep, Popen
  PROVE  IInv'
<1>1. TypeOK /\ b \in Session
  BY Parts DEF IInv
<1>2. UNCHANGED <<mode, seen, wire, v, call, w, receipt, pipe, signals>>
  BY Outer DEF Popen
<1>3. /\ b.pc = "spawn" /\ UNCHANGED home
      /\ \/ group' = {"leader"} /\ Is(b', "bind", b.req, b.bound, b.proof)
         \/ UNCHANGED group /\ Is(b', "remove", b.req, b.bound, FALSE)
  BY <1>1, GotoIs, RaiseIs DEF Popen, At, BridgePCs, Handled, Body, Leaving, BridgeOver
<1>4. late' = IF b.pc = "reap" /\ b'.pc = "remove" THEN late + 1 ELSE late
  BY Outer DEF At
<1>5. Places'
  BY <1>1, <1>2, <1>3, <1>4, Parts DEF IInv, Places, Is, Early, Body, Requests
<1>6. Directly'
  BY <1>1, <1>2, <1>3, <1>4, Parts DEF IInv, Directly, Is, Attached, Early
<1>7. /\ ~Exited /\ b' \in Session /\ group' \subseteq Members /\ home' \in BOOLEAN
      /\ b'.req = b.req /\ late' \in Nat
      /\ b'.proof => b.proof
      /\ b'.pc \in Quietly => b.pc \in Quietly
      /\ b'.pc \in {"recv", "check"} => b'.pc = b.pc
  BY <1>1, <1>3, <1>4, Parts DEF Is, Quietly, Early, Members, Exited, BridgeOver
<1> QED
  BY <1>2, <1>5, <1>6, <1>7, BridgeMoves

LEMMA BindGroupKeeps ==
  ASSUME IInv, BridgeStep, BindGroup
  PROVE  IInv'
<1>1. TypeOK /\ b \in Session
  BY Parts DEF IInv
<1>2. UNCHANGED <<mode, seen, wire, v, call, w, receipt, pipe, signals>>
  BY Outer DEF BindGroup
<1>3. /\ b.pc = "bind" /\ UNCHANGED <<group, home>>
      /\ Is(b', "bound", b.req, mode = "direct", b.proof)
  BY <1>1, GotoIs, RaiseIs DEF BindGroup, At, BridgePCs, Handled, Body, Leaving, BridgeOver, Is,
                               Session
<1>4. late' = IF b.pc = "reap" /\ b'.pc = "remove" THEN late + 1 ELSE late
  BY Outer DEF At
<1>5. Places'
  BY <1>1, <1>2, <1>3, <1>4, Parts DEF IInv, Places, Is, Early, Body, Requests
<1>6. Directly'
  BY <1>1, <1>2, <1>3, <1>4, Parts DEF IInv, Directly, Is, Attached, Early
<1>7. /\ ~Exited /\ b' \in Session /\ group' \subseteq Members /\ home' \in BOOLEAN
      /\ b'.req = b.req /\ late' \in Nat
      /\ b'.proof => b.proof
      /\ b'.pc \in Quietly => b.pc \in Quietly
      /\ b'.pc \in {"recv", "check"} => b'.pc = b.pc
  BY <1>1, <1>3, <1>4, Parts DEF Is, Quietly, Early, Members, Exited, BridgeOver
<1> QED
  BY <1>2, <1>5, <1>6, <1>7, BridgeMoves

LEMMA StopReceivingKeeps ==
  ASSUME IInv, BridgeStep, StopReceiving
  PROVE  IInv'
<1>1. TypeOK /\ b \in Session
  BY Parts DEF IInv
<1>2. UNCHANGED <<mode, seen, wire, v, call, w, receipt, pipe, signals>>
  BY Outer DEF StopReceiving
<1>3. /\ b.pc = "recv" /\ UNCHANGED <<group, home>>
      /\ Is(b', "close", b.req, b.bound, FALSE)
  BY <1>1, GotoIs, RaiseIs DEF StopReceiving, At, BridgePCs, Handled, Body, Leaving, BridgeOver
<1>4. late' = IF b.pc = "reap" /\ b'.pc = "remove" THEN late + 1 ELSE late
  BY Outer DEF At
<1>5. Places'
  BY <1>1, <1>2, <1>3, <1>4, Parts DEF IInv, Places, Is, Early, Body, Requests
<1>6. Directly'
  BY <1>1, <1>2, <1>3, <1>4, Parts DEF IInv, Directly, Is, Attached, Early
<1>7. /\ ~Exited /\ b' \in Session /\ group' \subseteq Members /\ home' \in BOOLEAN
      /\ b'.req = b.req /\ late' \in Nat
      /\ b'.proof => b.proof
      /\ b'.pc \in Quietly => b.pc \in Quietly
      /\ b'.pc \in {"recv", "check"} => b'.pc = b.pc
  BY <1>1, <1>3, <1>4, Parts DEF Is, Quietly, Early, Members, Exited, BridgeOver
<1> QED
  BY <1>2, <1>5, <1>6, <1>7, BridgeMoves

LEMMA TerminateProcessKeeps ==
  ASSUME IInv, BridgeStep, TerminateProcess
  PROVE  IInv'
<1>1. TypeOK /\ b \in Session
  BY Parts DEF IInv
<1>2. UNCHANGED <<mode, seen, wire, v, call, w, receipt, pipe, signals>>
  BY Outer DEF TerminateProcess
<1>3. /\ b.pc = "term" /\ UNCHANGED home /\ group' \subseteq group
      /\ Is(b', "reap", b.req, b.bound, b.proof)
  BY <1>1, GotoIs, RaiseIs DEF TerminateProcess, At, BridgePCs, Handled, Body, Leaving, BridgeOver
<1>4. late' = IF b.pc = "reap" /\ b'.pc = "remove" THEN late + 1 ELSE late
  BY Outer DEF At
<1>5. Places'
  BY <1>1, <1>2, <1>3, <1>4, Parts DEF IInv, Places, Is, Early, Body, Requests
<1>6. Directly'
  BY <1>1, <1>2, <1>3, <1>4, Parts DEF IInv, Directly, Is, Attached, Early
<1>7. /\ ~Exited /\ b' \in Session /\ group' \subseteq Members /\ home' \in BOOLEAN
      /\ b'.req = b.req /\ late' \in Nat
      /\ b'.proof => b.proof
      /\ b'.pc \in Quietly => b.pc \in Quietly
      /\ b'.pc \in {"recv", "check"} => b'.pc = b.pc
  BY <1>1, <1>3, <1>4, Parts DEF Is, Quietly, Early, Members, Exited, BridgeOver
<1> QED
  BY <1>2, <1>5, <1>6, <1>7, BridgeMoves

LEMMA ReapGroupKeeps ==
  ASSUME IInv, BridgeStep, ReapGroup
  PROVE  IInv'
<1>1. TypeOK /\ b \in Session
  BY Parts DEF IInv
<1>2. UNCHANGED <<mode, seen, wire, v, call, w, receipt, pipe, signals>>
  BY Outer DEF ReapGroup
<1>3. /\ b.pc = "reap" /\ UNCHANGED home
      /\ group' = (IF mode = "direct" THEN {} ELSE group)
      /\ \/ Is(b', "unbind", b.req, b.bound, b.proof)
         \/ mode = "direct" /\ Is(b', "remove", b.req, b.bound, FALSE)
  BY <1>1, GotoIs, RaiseIs DEF ReapGroup, At, BridgePCs, Handled, Body, Leaving, BridgeOver
<1>4. late' = IF b.pc = "reap" /\ b'.pc = "remove" THEN late + 1 ELSE late
  BY Outer DEF At
<1>5. Places'
  BY <1>1, <1>2, <1>3, <1>4, Parts DEF IInv, Places, Is, Early, Body, Requests
<1>6. Directly'
  BY <1>1, <1>2, <1>3, <1>4, Parts DEF IInv, Directly, Is, Attached, Early
<1>7. /\ ~Exited /\ b' \in Session /\ group' \subseteq Members /\ home' \in BOOLEAN
      /\ b'.req = b.req /\ late' \in Nat
      /\ b'.proof => b.proof
      /\ b'.pc \in Quietly => b.pc \in Quietly
      /\ b'.pc \in {"recv", "check"} => b'.pc = b.pc
  BY <1>1, <1>3, <1>4, Parts DEF Is, Quietly, Early, Members, Exited, BridgeOver
<1> QED
  BY <1>2, <1>5, <1>6, <1>7, BridgeMoves

LEMMA UnbindGroupKeeps ==
  ASSUME IInv, BridgeStep, UnbindGroup
  PROVE  IInv'
<1>1. TypeOK /\ b \in Session
  BY Parts DEF IInv
<1>2. UNCHANGED <<mode, seen, wire, v, call, w, receipt, pipe, signals>>
  BY Outer DEF UnbindGroup
<1>3. /\ b.pc = "unbind" /\ UNCHANGED <<group, home>>
      /\ Is(b', "remove", b.req, FALSE, b.proof)
  BY <1>1, GotoIs, RaiseIs DEF UnbindGroup, At, BridgePCs, Handled, Body, Leaving, BridgeOver,
                               Is, Session
<1>4. late' = IF b.pc = "reap" /\ b'.pc = "remove" THEN late + 1 ELSE late
  BY Outer DEF At
<1>5. Places'
  BY <1>1, <1>2, <1>3, <1>4, Parts DEF IInv, Places, Is, Early, Body, Requests
<1>6. Directly'
  BY <1>1, <1>2, <1>3, <1>4, Parts DEF IInv, Directly, Is, Attached, Early
<1>7. /\ ~Exited /\ b' \in Session /\ group' \subseteq Members /\ home' \in BOOLEAN
      /\ b'.req = b.req /\ late' \in Nat
      /\ b'.proof => b.proof
      /\ b'.pc \in Quietly => b.pc \in Quietly
      /\ b'.pc \in {"recv", "check"} => b'.pc = b.pc
  BY <1>1, <1>3, <1>4, Parts DEF Is, Quietly, Early, Members, Exited, BridgeOver
<1> QED
  BY <1>2, <1>5, <1>6, <1>7, BridgeMoves

LEMMA RemoveHomeKeeps ==
  ASSUME IInv, BridgeStep, RemoveHome
  PROVE  IInv'
<1>1. TypeOK /\ b \in Session
  BY Parts DEF IInv
<1>2. UNCHANGED <<mode, seen, wire, v, call, w, receipt, pipe, signals>>
  BY Outer DEF RemoveHome
<1>3. /\ b.pc = "remove" /\ UNCHANGED group /\ home' \in {FALSE, home}
      /\ group = {} => home' = FALSE
      /\ Is(b', "restore", b.req, b.bound, b.proof) \/ Is(b', "restore", b.req, b.bound, FALSE)
  BY <1>1, GotoIs, RaiseIs DEF RemoveHome, At, BridgePCs, Handled, Body, Leaving, BridgeOver
<1>4. late' = IF b.pc = "reap" /\ b'.pc = "remove" THEN late + 1 ELSE late
  BY Outer DEF At
<1>5. Places'
  BY <1>1, <1>2, <1>3, <1>4, Parts DEF IInv, Places, Is, Early, Body, Requests
<1>6. Directly'
  BY <1>1, <1>2, <1>3, <1>4, Parts DEF IInv, Directly, Is, Attached, Early
<1>7. /\ ~Exited /\ b' \in Session /\ group' \subseteq Members /\ home' \in BOOLEAN
      /\ b'.req = b.req /\ late' \in Nat
      /\ b'.proof => b.proof
      /\ b'.pc \in Quietly => b.pc \in Quietly
      /\ b'.pc \in {"recv", "check"} => b'.pc = b.pc
  BY <1>1, <1>3, <1>4, Parts DEF Is, Quietly, Early, Members, Exited, BridgeOver
<1> QED
  BY <1>2, <1>5, <1>6, <1>7, BridgeMoves

LEMMA RestoreHandlersKeeps ==
  ASSUME IInv, BridgeStep, RestoreHandlers
  PROVE  IInv'
<1>1. TypeOK /\ b \in Session
  BY Parts DEF IInv
<1>2. UNCHANGED <<mode, seen, wire, v, call, w, receipt, pipe, signals>>
  BY Outer DEF RestoreHandlers
<1>3. /\ b.pc = "restore" /\ UNCHANGED <<group, home>>
      /\ \/ mode = "contained" /\ b.proof /\ Is(b', "report", b.req, FALSE, b.proof)
         \/ ~(mode = "contained" /\ b.proof) /\ Is(b', "over", b.req, FALSE, b.proof)
  BY <1>1, GotoIs, RaiseIs DEF RestoreHandlers, At, BridgePCs, Handled, Body, Leaving,
                               BridgeOver, Is, Session
<1>4. late' = IF b.pc = "reap" /\ b'.pc = "remove" THEN late + 1 ELSE late
  BY Outer DEF At
<1>5. Places'
  BY <1>1, <1>2, <1>3, <1>4, Parts DEF IInv, Places, Is, Early, Body, Requests
<1>6. Directly'
  BY <1>1, <1>2, <1>3, <1>4, Parts DEF IInv, Directly, Is, Attached, Early
<1>7. /\ ~Exited /\ b' \in Session /\ group' \subseteq Members /\ home' \in BOOLEAN
      /\ b'.req = b.req /\ late' \in Nat
      /\ b'.proof => b.proof
      /\ b'.pc \in Quietly => b.pc \in Quietly
      /\ b'.pc \in {"recv", "check"} => b'.pc = b.pc
  BY <1>1, <1>3, <1>4, Parts DEF Is, Quietly, Early, Members, Exited, BridgeOver
<1> QED
  BY <1>2, <1>5, <1>6, <1>7, BridgeMoves

\* The one Agent call that was seen is the one child there was.
LEMMA ChildIsProved ==
  ASSUME TypeOK, Told, b.pc = "check", ChildProved
  PROVE  Proved
<1> DEFINE spoken == {u \in seen : u.t = "agent"}
           agents == {msg.c : msg \in spoken}
<1>1. agents = v.kids
  <2>1. \A c \in agents : c \in v.kids
    BY DEF Told
  <2>2. ASSUME NEW c \in v.kids
        PROVE  c \in agents
    <3>1. Begun(c) \in seen
      BY DEF Told
    <3>2. Begun(c).t = "agent" /\ Begun(c).c = c
      BY DEF Begun, Msg
    <3> QED
      BY <3>1, <3>2
  <2> QED
    BY <2>1, <2>2
<1>2. IsFiniteSet(agents)
  <2>1. IsFiniteSet(seen)
    BY DEF Told
  <2>2. IsFiniteSet(spoken)
    BY <2>1, FS_Subset
  <2>3. [u \in spoken |-> u.c] \in Surjection(spoken, agents)
    BY DEF Surjection
  <2> HIDE DEF spoken, agents
  <2> QED
    BY <2>2, <2>3, FS_Surjection
<1>3. Cardinality(agents) = 1
  BY DEF ChildProved
<1>4. PICK c : v.kids = {c}
  <2> HIDE DEF agents
  <2> QED
    BY <1>1, <1>2, <1>3, FS_Singleton
<1>5. c \in Calls
  BY <1>4 DEF TypeOK
<1>6. /\ \E given \in seen : given.t = "input" /\ given.c = c /\ given.ok
      /\ \E done \in seen : done.t = "end" /\ done.c = c /\ done.ok
  BY <1>1, <1>4 DEF ChildProved
<1>7. call[c].nonce /\ call[c].at = "done"
  BY <1>6 DEF Told, Truth
<1> QED
  BY <1>4, <1>5, <1>7 DEF Proved

LEMMA CheckUpdatesKeeps ==
  ASSUME IInv, BridgeStep, CheckUpdates
  PROVE  IInv'
<1>1. TypeOK /\ b \in Session
  BY Parts DEF IInv
<1>2. UNCHANGED <<mode, seen, wire, v, call, w, receipt, pipe, signals>>
  BY Outer DEF CheckUpdates
<1>3. /\ b.pc = "check" /\ UNCHANGED <<group, home>>
      /\ \/ ChildProved /\ Is(b', "close", b.req, b.bound, TRUE)
         \/ Is(b', "close", b.req, b.bound, FALSE)
  BY <1>1, GotoIs, RaiseIs DEF CheckUpdates, At, Is, Session, BridgePCs, Handled, Body, Leaving,
                               BridgeOver
<1>4. late' = late
  BY <1>3, Outer DEF At
<1>5. Places'
  BY <1>1, <1>2, <1>3, <1>4, Parts DEF IInv, Places, Is, Early, Body, Requests
<1>6. Directly'
  BY <1>1, <1>2, <1>3, <1>4, Parts DEF IInv, Directly, Is, Attached, Early
<1>7. TypeOK'
  BY <1>1, <1>2, <1>3, <1>4 DEF TypeOK, Is, Session
<1>8. Working'
  <2>1. b'.proof => Proved
    BY <1>1, <1>3, ChildIsProved DEF IInv, Is
  <2>2. Proved' = Proved
    BY <1>2 DEF Proved
  <2>3. ~Exited
    BY <1>3 DEF Exited, BridgeOver
  <2> QED
    BY <1>2, <2>1, <2>2, <2>3 DEF IInv, Working
<1>9. Told'
  BY <1>1, <1>2, <1>3, ToldStays DEF IInv, Is, Quietly, Early
<1> QED
  BY <1>5, <1>6, <1>7, <1>8, <1>9 DEF IInv

LEMMA ClosesKeeps ==
  ASSUME IInv, Closes
  PROVE  IInv'
<1>1. TypeOK /\ b \in Session
  BY Parts DEF IInv
<1>2. UNCHANGED <<mode, home, group, v, call, w, receipt, pipe, signals, late>>
  BY DEF Closes, CloseInput, worker
<1>3. b.pc = "close" /\ Is(b', "term", 0, b.bound, b.proof) /\ seen' = {} /\ wire' = <<>>
  <2>1. 0 \in 0..Requests /\ 0 \in 0..MaxEvents /\ "term" \in BridgePCs
    BY MaxAssumption, PCs DEF Requests, Leaving
  <2>2. b.pc = "close" /\ seen' = {} /\ wire' = <<>>
        /\ b' = [b EXCEPT !.pc = "term", !.req = 0, !.read = 0]
    BY DEF Closes, CloseInput, At
  <2> QED
    BY <1>1, <2>1, <2>2 DEF Is, Session
<1>4. Places'
  BY <1>1, <1>2, <1>3, Parts DEF IInv, Places, Is, Early, Body
<1>5. Directly'
  BY <1>1, <1>2, <1>3, Parts DEF IInv, Directly, Is, Attached, Early
<1>6. TypeOK'
  BY <1>1, <1>2, <1>3 DEF TypeOK, Is, Session
<1>7. Working'
  BY <1>1, <1>2, <1>3, WorkingStays DEF IInv, Is, Exited, BridgeOver
<1>8. Told'
  BY <1>2, <1>3, FS_EmptySet DEF Is, Told, Quietly, Early
<1> QED
  BY <1>4, <1>5, <1>6, <1>7, <1>8 DEF IInv

LEMMA SendsKeeps ==
  ASSUME IInv, Sends
  PROVE  IInv'
<1>1. TypeOK /\ b \in Session
  BY Parts DEF IInv
<1>2. UNCHANGED <<mode, seen, home, group, wire, v, call, w, receipt, pipe, signals, late>>
  BY DEF Sends, SendRequest, worker, vendor
<1>3. /\ b.pc = "send"
      /\ \/ Is(b', "recv", b.req + 1, b.bound, b.proof)
         \/ Is(b', "close", b.req, b.bound, FALSE)
  <2>1. b.pc = "send" /\ b.req + 1 \in 0..Requests
    BY <1>1 DEF Sends, SendRequest, At, IInv, Places, Session, Requests
  <2> QED
    BY <1>1, <2>1, RaiseIs DEF Sends, SendRequest, Is, Session, BridgePCs, Handled, Body, Leaving,
                               BridgeOver
<1>4. Places'
  BY <1>1, <1>2, <1>3, Parts DEF IInv, Places, Is, Early, Body
<1>5. Directly'
  BY <1>1, <1>2, <1>3, Parts DEF IInv, Directly, Is, Attached, Early
<1>6. TypeOK'
  BY <1>1, <1>2, <1>3 DEF TypeOK, Is, Session
<1>7. Working'
  BY <1>1, <1>2, <1>3, WorkingStays DEF IInv, Is, Exited, BridgeOver
<1>8. Told'
  <2>1. CASE b'.pc = "close"
    BY <1>1, <1>2, <1>3, <2>1, ToldStays DEF IInv, Is, Quietly, Early
  <2>2. CASE Is(b', "recv", b.req + 1, b.bound, b.proof)
    <3>1. /\ v.replies = b.req /\ Replies = {} /\ b.req < Requests /\ b.req \in Nat
          /\ seen = {} /\ \A c \in Calls : call[c] = Fresh
      BY <1>1, <1>3 DEF IInv, Told, Places, Quietly, Session
    <3>2. Replies' = Replies /\ \A msg : Truth(msg)' = Truth(msg)
      BY <1>2 DEF Replies, Truth
    <3>3. b'.pc = "recv" /\ b'.req = v.replies + 1
      BY <2>2, <3>1 DEF Is
    <3> QED
      BY <1>2, <3>1, <3>2, <3>3 DEF IInv, Told, Quietly, Early, Requests
  <2> QED
    BY <1>3, <2>1, <2>2 DEF Is
<1> QED
  BY <1>4, <1>5, <1>6, <1>7, <1>8 DEF IInv

LEMMA ReportsKeeps ==
  ASSUME IInv, Reports
  PROVE  IInv'
<1>1. TypeOK /\ b \in Session
  BY Parts DEF IInv
<1>2. UNCHANGED <<mode, seen, home, group, wire, v, call, w, receipt, signals, late>>
  BY DEF Reports, Report, worker, vendor
<1>3. /\ b.pc = "report"
      /\ \/ Is(b', "over", b.req, b.bound, b.proof) /\ pipe' = TRUE
         \/ Is(b', "over", b.req, b.bound, FALSE) /\ UNCHANGED pipe
  BY <1>1, GotoIs, RaiseIs DEF Reports, Report, At, BridgePCs, Handled, Body, Leaving, BridgeOver
<1>4. Places'
  BY <1>1, <1>2, <1>3, Parts DEF IInv, Places, Is, Early, Body
<1>5. Directly'
  BY <1>1, <1>2, <1>3, Parts DEF IInv, Directly, Is, Attached, Early, Places
<1>6. TypeOK'
  BY <1>1, <1>2, <1>3 DEF TypeOK, Is, Session
<1>7. Working'
  <2>1. Proved' = Proved /\ Proved /\ Exited' /\ ~Exited
    BY <1>2, <1>3 DEF Proved, IInv, Places, Working, Is, Exited, BridgeOver
  <2> QED
    BY <1>2, <1>3, <2>1 DEF IInv, Working
<1>8. Told'
  BY <1>1, <1>2, <1>3, ToldStays DEF IInv, Is, Quietly, Early
<1> QED
  BY <1>4, <1>5, <1>6, <1>7, <1>8 DEF IInv

-----------------------------------------------------------------------------
(* The wire *)

LEMMA TailIs ==
  ASSUME NEW S, NEW s \in Seq(S), s # <<>>
  PROVE  /\ Head(s) = s[1] /\ Len(s) \in Nat \ {0} /\ s[1] \in S
         /\ Tail(s) \in Seq(S) /\ Len(Tail(s)) = Len(s) - 1
         /\ \A i \in 1..Len(Tail(s)) : Tail(s)[i] = s[i + 1] /\ i + 1 \in 1..Len(s)
OBVIOUS

LEMMA AppendIs ==
  ASSUME NEW S, NEW s \in Seq(S), NEW x \in S
  PROVE  /\ Len(s) \in Nat /\ Append(s, x) \in Seq(S) /\ Len(Append(s, x)) = Len(s) + 1
         /\ Append(s, x)[Len(s) + 1] = x
         /\ \A i \in 1..Len(s) : Append(s, x)[i] = s[i]
OBVIOUS

\* The answer to the prompt is read after all that was said before it.
LEMMA ReceivesKeeps ==
  ASSUME IInv, Receives
  PROVE  IInv'
<1>1. TypeOK /\ b \in Session /\ wire \in Seq(Messages)
  BY Parts DEF IInv, TypeOK
<1>2. UNCHANGED <<mode, home, group, v, call, w, receipt, pipe, signals, late>>
  BY DEF Receives, ReceiveMessage, worker
<1> DEFINE msg == Head(wire)
<1>3. /\ b.pc = "recv" /\ wire # <<>> /\ wire' = Tail(wire)
      /\ \/ Is(b', "close", b.req, b.bound, FALSE) /\ seen' = seen
         \/ /\ msg.t = "reply" /\ seen' = seen
            /\ Is(b', IF b.req = Requests THEN "check" ELSE "send", b.req, b.bound, b.proof)
         \/ /\ msg.t \notin {"reply", "ask"} /\ Is(b', "recv", b.req, b.bound, b.proof)
            /\ seen' = IF b.req = Requests THEN seen \cup {msg} ELSE seen
  <2>1. /\ b.pc = "recv" /\ wire # <<>> /\ wire' = Tail(wire)
        /\ \/ Raise("close") /\ seen' = seen
           \/ /\ b.read # MaxEvents /\ msg.t = "reply" /\ seen' = seen
              /\ b' = [b EXCEPT !.pc = IF b.req = Requests THEN "check" ELSE "send",
                                !.read = @ + 1]
           \/ /\ b.read # MaxEvents /\ msg.t \notin {"reply", "ask"}
              /\ b' = [b EXCEPT !.read = @ + 1]
              /\ seen' = IF b.req = Requests THEN seen \cup {msg} ELSE seen
    <3>1. /\ b.pc = "recv" /\ wire # <<>> /\ wire' = Tail(wire)
          /\ CASE b.read = MaxEvents \/ msg.t = "ask" -> Raise("close") /\ seen' = seen
               [] ~(b.read = MaxEvents) /\ msg.t = "reply" ->
                    /\ IF ~Answered(msg) THEN Raise("close")
                       ELSE b' = [b EXCEPT !.pc = IF b.req = Requests THEN "check" ELSE "send",
                                           !.read = @ + 1]
                    /\ seen' = seen
               [] OTHER -> /\ b' = [b EXCEPT !.read = @ + 1]
                           /\ seen' = IF b.req = Requests THEN seen \cup {msg} ELSE seen
      BY Zenon DEF Receives, ReceiveMessage, At, OverBudget
    <3> HIDE DEF msg
    <3>2. CASE b.read = MaxEvents
      BY <3>1, <3>2
    <3>3. CASE msg.t = "ask"
      BY <3>1, <3>3
    <3>4. CASE b.read # MaxEvents /\ msg.t = "reply"
      BY <3>1, <3>4
    <3>5. CASE b.read # MaxEvents /\ msg.t \notin {"ask", "reply"}
      BY <3>1, <3>5
    <3> QED
      BY <3>2, <3>3, <3>4, <3>5
  <2>2. b.read # MaxEvents => b.read + 1 \in 0..MaxEvents
    BY <1>1, MaxAssumption DEF Session
  <2>3. {"close", "check", "send"} \subseteq BridgePCs
    BY DEF BridgePCs, Handled, Body, Leaving
  <2> HIDE DEF msg
  <2>4. CASE Raise("close") /\ seen' = seen
    BY <1>1, <2>1, <2>3, <2>4, RaiseIs
  <2>5. CASE /\ b.read # MaxEvents /\ msg.t = "reply" /\ seen' = seen
             /\ b' = [b EXCEPT !.pc = IF b.req = Requests THEN "check" ELSE "send",
                               !.read = @ + 1]
    BY <1>1, <2>1, <2>2, <2>3, <2>5 DEF Is, Session
  <2>6. CASE /\ b.read # MaxEvents /\ msg.t \notin {"reply", "ask"}
             /\ b' = [b EXCEPT !.read = @ + 1]
             /\ seen' = IF b.req = Requests THEN seen \cup {msg} ELSE seen
    BY <1>1, <2>1, <2>2, <2>3, <2>6 DEF Is, Session
  <2> QED
    BY <2>1, <2>4, <2>5, <2>6
<1>4. /\ msg = wire[1] /\ Len(wire) \in Nat \ {0} /\ msg \in Messages
      /\ wire' \in Seq(Messages) /\ Len(wire') = Len(wire) - 1
      /\ \A i \in 1..Len(wire') : wire'[i] = wire[i + 1] /\ i + 1 \in 1..Len(wire)
  BY <1>1, <1>3, TailIs
<1> HIDE DEF msg
<1>5. Places'
  BY <1>1, <1>2, <1>3, Parts DEF IInv, Places, Is, Early, Body, Requests, Session
<1>6. Directly'
  BY <1>1, <1>2, <1>3, Parts DEF IInv, Directly, Is, Attached, Early
<1>7. TypeOK'
  BY <1>1, <1>2, <1>3, <1>4 DEF TypeOK, Is, Session
<1>8. Working'
  BY <1>1, <1>2, <1>3, WorkingStays DEF IInv, Is, Exited, BridgeOver
<1>9. Told'
  <2>1. Truth(msg) /\ 1 \in 1..Len(wire)
    BY <1>4 DEF IInv, Told
  <2>2. IsFiniteSet(seen') /\ \A m \in seen' : Truth(m)
    <3>1. IsFiniteSet(seen) /\ \A m \in seen : Truth(m)
      BY DEF IInv, Told
    <3>2. IsFiniteSet(seen \cup {msg})
      BY <3>1, FS_AddElement
    <3>3. seen' = seen \/ seen' = seen \cup {msg}
      BY <1>3
    <3> QED
      BY <2>1, <3>1, <3>2, <3>3
  <2>3. \A i \in 1..Len(wire') : Truth(wire'[i])
    BY <1>4 DEF IInv, Told
  <2>4. \A m : Truth(m)' = Truth(m)
    BY <1>2 DEF Truth
  <2>5. CASE Is(b', "close", b.req, b.bound, FALSE)
    BY <2>2, <2>3, <2>4, <2>5 DEF Told, Is, Quietly, Early
  <2>6. CASE /\ msg.t = "reply" /\ seen' = seen
             /\ Is(b', IF b.req = Requests THEN "check" ELSE "send", b.req, b.bound, b.proof)
    <3>1. 1 \in Replies
      BY <1>4, <2>6 DEF Replies
    <3>2. v.replies = b.req /\ \A i \in Replies : i = 1
      BY <1>3, <3>1 DEF IInv, Told
    <3>3. Replies' = {}
      BY <1>4, <3>2 DEF Replies
    <3>4. CASE b.req = Requests
      <4>1. \A i \in 1..Len(wire) : ~Ahead(i)
        BY <1>4, <2>6 DEF Ahead
      <4>2. /\ \A c \in v.kids : Begun(c) \in seen
            /\ \A m \in seen : m.t = "agent" => m.c \in v.kids
        BY <1>3, <3>2, <3>4, <4>1 DEF IInv, Told
      <4> QED
        BY <1>2, <2>2, <2>3, <2>4, <2>6, <3>4, <4>2 DEF Told, Is, Quietly, Early, Begun, Msg
    <3>5. CASE b.req # Requests
      <4>1. b.req < Requests
        BY <1>1, <3>5 DEF Session, Requests
      <4>2. seen = {} /\ \A c \in Calls : call[c] = Fresh
        BY <1>3, <4>1 DEF IInv, Told
      <4> QED
        BY <1>2, <2>2, <2>3, <2>4, <2>6, <3>2, <3>3, <3>5, <4>2 DEF Told, Is, Quietly, Early
    <3> QED
      BY <3>4, <3>5
  <2>7. CASE /\ msg.t \notin {"reply", "ask"} /\ Is(b', "recv", b.req, b.bound, b.proof)
             /\ seen' = IF b.req = Requests THEN seen \cup {msg} ELSE seen
    <3>1. /\ \A i \in Replies' : i + 1 \in Replies /\ i \in Nat
          /\ Replies # {} => Replies' # {}
      <4>1. \A i \in Replies : i # 1 /\ i - 1 \in 1..Len(wire') /\ (i - 1) + 1 = i
        BY <1>4, <2>7 DEF Replies
      <4>2. \A i \in Replies : i - 1 \in Replies'
        BY <1>4, <4>1 DEF Replies
      <4>3. \A i \in Replies' : i + 1 \in Replies /\ i \in Nat
        BY <1>4 DEF Replies
      <4> QED
        BY <4>2, <4>3
    <3>2. \/ v.replies + 1 = b.req /\ Replies' = {}
          \/ v.replies = b.req /\ Replies' # {} /\ \A i, j \in Replies' : i = j
      BY <1>3, <3>1 DEF IInv, Told
    <3>3. ASSUME NEW i \in 1..Len(wire')
          PROVE  /\ i + 1 \in 1..Len(wire) /\ wire'[i] = wire[i + 1]
                 /\ Ahead(i)' <=> Ahead(i + 1)
      <4>1. \A j \in 1..i : wire'[j] = wire[j + 1] /\ j + 1 \in 1..(i + 1)
        BY <1>4
      <4>2. \A j \in 1..(i + 1) : j = 1 \/ (j - 1 \in 1..i /\ wire'[j - 1] = wire[j])
        BY <1>4
      <4> QED
        BY <1>4, <2>7, <4>1, <4>2 DEF Ahead
    <3>4. \A i \in 1..Len(wire) : i = 1 \/ (i - 1 \in 1..Len(wire') /\ wire'[i - 1] = wire[i])
      BY <1>4
    <3>5. b.req = Requests /\ v.replies < Requests =>
            \A c \in Calls : call[c] # Fresh =>
              Begun(c) \in seen' \/ \E i \in 1..Len(wire') : wire'[i] = Begun(c)
      <4> SUFFICES ASSUME b.req = Requests, v.replies < Requests,
                          NEW c \in Calls, call[c] # Fresh
                   PROVE  Begun(c) \in seen' \/ \E i \in 1..Len(wire') : wire'[i] = Begun(c)
        OBVIOUS
      <4>1. Begun(c) \in seen \/ \E i \in 1..Len(wire) : wire[i] = Begun(c)
        BY <1>3 DEF IInv, Told
      <4>2. seen' = seen \cup {msg}
        BY <2>7
      <4> QED
        BY <1>4, <3>4, <4>1, <4>2
    <3>6. ASSUME v.replies = Requests
          PROVE  /\ \A c \in v.kids :
                      \/ Begun(c) \in seen'
                      \/ \E i \in 1..Len(wire') : wire'[i] = Begun(c) /\ Ahead(i)'
                 /\ \A i \in 1..Len(wire') :
                      wire'[i].t = "agent" /\ Ahead(i)' => wire'[i].c \in v.kids
                 /\ \A m \in seen' : m.t = "agent" => m.c \in v.kids
      <4>1. b.req = Requests
        BY <1>1, <1>3, <3>6 DEF IInv, Told, Session, Requests
      <4>2. /\ \A c \in v.kids :
                 Begun(c) \in seen \/ \E i \in 1..Len(wire) : wire[i] = Begun(c) /\ Ahead(i)
            /\ \A i \in 1..Len(wire) : wire[i].t = "agent" /\ Ahead(i) => wire[i].c \in v.kids
            /\ \A m \in seen : m.t = "agent" => m.c \in v.kids
        BY <1>3, <3>6 DEF IInv, Told
      <4>3. Ahead(1) /\ 1 \in 1..Len(wire)
        BY <1>4, <2>7 DEF Ahead
      <4>4. ASSUME NEW c \in v.kids
            PROVE  \/ Begun(c) \in seen'
                   \/ \E i \in 1..Len(wire') : wire'[i] = Begun(c) /\ Ahead(i)'
        <5>1. CASE Begun(c) \in seen
          BY <2>7, <5>1
        <5>2. CASE \E i \in 1..Len(wire) : wire[i] = Begun(c) /\ Ahead(i)
          <6>1. PICK i \in 1..Len(wire) : wire[i] = Begun(c) /\ Ahead(i)
            BY <5>2
          <6>2. CASE i = 1
            BY <1>4, <2>7, <4>1, <6>1, <6>2
          <6>3. CASE i # 1
            <7>1. i - 1 \in 1..Len(wire') /\ wire'[i - 1] = Begun(c) /\ (i - 1) + 1 = i
              BY <1>4, <3>4, <6>1, <6>3
            <7>2. Ahead(i - 1)'
              BY <3>3, <6>1, <7>1
            <7> QED
              BY <7>1, <7>2
          <6> QED
            BY <6>2, <6>3
        <5> QED
          BY <4>2, <5>1, <5>2
      <4>5. \A i \in 1..Len(wire') : wire'[i].t = "agent" /\ Ahead(i)' => wire'[i].c \in v.kids
        BY <3>3, <4>2
      <4>6. \A m \in seen' : m.t = "agent" => m.c \in v.kids
        BY <1>4, <2>7, <4>2, <4>3
      <4> QED
        BY <4>4, <4>5, <4>6
    <3>7. b.req < Requests => seen' = {} /\ \A c \in Calls : call[c] = Fresh
      BY <1>1, <1>3, <2>7 DEF IInv, Told, Session, Requests
    <3>8. b'.pc = "recv" /\ b'.req = b.req
      BY <2>7 DEF Is
    <3> QED
      BY <1>2, <2>2, <2>3, <2>4, <3>2, <3>5, <3>6, <3>7, <3>8
         DEF Told, Quietly, Early, Begun, Msg
  <2> QED
    BY <1>3, <2>5, <2>6, <2>7
<1> QED
  BY <1>5, <1>6, <1>7, <1>8, <1>9 DEF IInv

-----------------------------------------------------------------------------
(* The worker *)

\* A worker that moves on by itself leaves the session as it is.
LEMMA WorkerMoves ==
  ASSUME IInv, UNCHANGED <<mode, b, seen, home, group, wire, v, call, pipe, signals, late>>,
         w' \in [pc : WorkerPCs, ok : BOOLEAN], receipt' \in BOOLEAN,
         w.pc = "none" <=> w'.pc = "none", w'.pc # "prep", Working'
  PROVE  IInv'
<1>1. TypeOK'
  BY DEF IInv, TypeOK
<1>2. Places'
  BY DEF IInv, Places
<1>3. Directly'
  BY DEF IInv, Directly
<1>4. Told'
  BY ToldStays DEF IInv
<1> QED
  BY <1>1, <1>2, <1>3, <1>4 DEF IInv

LEMMA WorkerIs ==
  ASSUME TypeOK, NEW pc \in WorkerPCs, WorkerTo(pc) \/ w' = [pc |-> pc, ok |-> FALSE]
  PROVE  w' \in [pc : WorkerPCs, ok : BOOLEAN] /\ w'.pc = pc
<1>1. CASE WorkerTo(pc)
  BY <1>1 DEF TypeOK, WorkerTo
<1>2. CASE w' = [pc |-> pc, ok |-> FALSE]
  BY <1>2
<1> QED
  BY <1>1, <1>2

LEMMA WorkerAlone ==
  ASSUME IInv, RefuseRun \/ GuardBridge \/ AwaitBridge \/ CancelWorker \/ ReadResult \/ WriteReceipt
  PROVE  IInv'
<1>1. TypeOK /\ Working
  BY DEF IInv
<1>2. UNCHANGED <<mode, b, seen, home, group, wire, v, call, pipe, signals, late>>
  BY DEF RefuseRun, GuardBridge, AwaitBridge, CancelWorker, ReadResult, WriteReceipt, Others,
         vendor, bridge
<1>3. /\ w' \in [pc : WorkerPCs, ok : BOOLEAN] /\ w.pc # "none" /\ w'.pc \notin {"none", "prep"}
      /\ w'.pc = "read" => w.pc = "read"
      /\ w'.pc = "prove" => w.pc = "prove" \/ (w.pc = "read" /\ pipe)
      /\ receipt' # receipt => w.pc = "prove" /\ w'.pc = "over"
      /\ receipt' = receipt => w.pc # "over"
      /\ receipt' \in BOOLEAN
  <2>1. CASE RefuseRun
    BY <1>1, <2>1 DEF TypeOK, RefuseRun, WorkerPCs
  <2>2. CASE GuardBridge
    <3>1. /\ w.pc = "started" /\ receipt' = receipt
          /\ WorkerTo("wait") \/ w' = [pc |-> "over", ok |-> FALSE]
      BY <2>2, Zenon DEF GuardBridge
    <3>2. w' \in [pc : WorkerPCs, ok : BOOLEAN] /\ w'.pc \in {"wait", "over"}
      BY <1>1, <3>1, WorkerIs DEF WorkerPCs
    <3> QED
      BY <1>1, <3>1, <3>2 DEF TypeOK
  <2>3. CASE AwaitBridge
    BY <1>1, <2>3 DEF TypeOK, AwaitBridge, WorkerPCs
  <2>4. CASE CancelWorker
    BY <1>1, <2>4 DEF TypeOK, CancelWorker, WorkerPCs, Guarding
  <2>5. CASE ReadResult
    <3>1. (pipe /\ WorkerTo("prove")) \/ w' = [pc |-> "over", ok |-> FALSE]
      BY <2>5, Zenon DEF ReadResult
    <3>2. w.pc = "read" /\ receipt' = receipt
      BY <2>5 DEF ReadResult
    <3>3. /\ w' \in [pc : WorkerPCs, ok : BOOLEAN]
          /\ (w'.pc = "prove" /\ pipe) \/ w'.pc = "over"
      BY <1>1, <3>1, WorkerIs DEF WorkerPCs
    <3> QED
      BY <1>1, <3>2, <3>3 DEF TypeOK
  <2>6. CASE WriteReceipt
    <3>1. /\ w.pc = "prove" /\ receipt' \in {TRUE, receipt}
          /\ WorkerTo("over") \/ w' = [pc |-> "over", ok |-> FALSE]
      BY <2>6, Zenon DEF WriteReceipt
    <3>2. w' \in [pc : WorkerPCs, ok : BOOLEAN] /\ w'.pc = "over"
      BY <1>1, <3>1, WorkerIs DEF WorkerPCs
    <3> QED
      BY <1>1, <3>1, <3>2 DEF TypeOK
  <2> QED
    BY <2>1, <2>2, <2>3, <2>4, <2>5, <2>6
<1>4. Working'
  <2>1. Proved' = Proved /\ Exited' = Exited
    BY <1>2 DEF Proved, Exited
  <2> QED
    BY <1>1, <1>2, <1>3, <2>1 DEF Working
<1> QED
  BY <1>2, <1>3, <1>4, WorkerMoves

LEMMA StartBridgeKeeps ==
  ASSUME IInv, StartBridge
  PROVE  IInv'
<1>1. TypeOK /\ b \in Session /\ mode = "contained" /\ b.pc = "none" /\ w.pc = "prep"
  BY Parts DEF IInv, Places, StartBridge, TypeOK
<1>2. UNCHANGED <<mode, seen, home, group, wire, v, call, pipe, receipt, signals, late>>
  BY DEF StartBridge, Others, vendor
<1>3. /\ Is(b', "begin", b.req, b.bound, b.proof)
      /\ w' \in [pc : WorkerPCs, ok : BOOLEAN] /\ w'.pc = "started"
  BY <1>1, PCs, GotoIs, WorkerIs DEF StartBridge, WorkerPCs, Early
<1>4. Places'
  BY <1>1, <1>2, <1>3 DEF IInv, Places, Is, Early, Body
<1>5. Directly'
  BY <1>1, <1>2 DEF Directly
<1>6. TypeOK'
  BY <1>1, <1>2, <1>3 DEF TypeOK, Is, Session
<1>7. Working'
  <2>1. Proved' = Proved /\ ~Exited
    BY <1>1, <1>2 DEF Proved, Exited, BridgeOver
  <2> QED
    BY <1>1, <1>2, <1>3, <2>1 DEF IInv, Working, Is
<1>8. Told'
  BY <1>1, <1>2, <1>3, ToldStays DEF IInv, Is, Quietly, Early
<1> QED
  BY <1>4, <1>5, <1>6, <1>7, <1>8 DEF IInv

\* What a signal does to the bridge.
LEMMA SignalledIs ==
  ASSUME b \in Session, BridgeSignalled
  PROVE  \/ b.pc \in BridgeOver /\ Is(b', b.pc, b.req, b.bound, FALSE)
         \/ b.pc \notin Handled \cup BridgeOver /\ Is(b', "dead", b.req, b.bound, FALSE)
         \/ b.pc \in Handled /\ ~b.bound /\ Is(b', b.pc, b.req, b.bound, b.proof)
         \/ /\ b.pc \in Body /\ b.bound
            /\ Is(b', "close", b.req, b.bound, FALSE)
         \/ /\ b.pc \in {"close", "term", "reap", "unbind"} /\ b.bound
            /\ Is(b', "remove", b.req, b.bound, FALSE)
         \/ b.pc = "remove" /\ b.bound /\ Is(b', "restore", b.req, b.bound, FALSE)
         \/ b.pc = "restore" /\ b.bound /\ Is(b', "over", b.req, b.bound, FALSE)
<1>1. CASE b.pc \notin Handled
  <2>1. b' = [b EXCEPT !.pc = IF b.pc \in BridgeOver THEN b.pc ELSE "dead", !.proof = FALSE]
    BY <1>1 DEF BridgeSignalled
  <2> QED
    BY <1>1, <2>1, PCs DEF Is, Session, BridgeOver
<1>2. CASE b.pc \in Handled /\ ~b.bound
  BY <1>2 DEF BridgeSignalled, Is, Session
<1>3. CASE b.pc \in Handled /\ b.bound
  <2>1. b' = [b EXCEPT !.pending = TRUE, !.proof = FALSE,
                       !.pc = CASE b.pc \in Body -> "close"
                                [] b.pc \in {"close", "term", "reap", "unbind"} -> "remove"
                                [] b.pc = "remove" -> "restore"
                                [] OTHER -> "over"]
    BY <1>3 DEF BridgeSignalled
  <2>2. {"close", "remove", "restore", "over"} \subseteq BridgePCs
    BY PCs DEF Leaving, BridgeOver
  <2>3. CASE b.pc \in Body
    BY <1>3, <2>1, <2>2, <2>3 DEF Is, Session, Body
  <2>4. CASE b.pc \in {"close", "term", "reap", "unbind"}
    BY <1>3, <2>1, <2>2, <2>4 DEF Is, Session, Body
  <2>5. CASE b.pc = "remove"
    BY <1>3, <2>1, <2>2, <2>5 DEF Is, Session, Body
  <2>6. CASE b.pc = "restore"
    BY <1>3, <2>1, <2>2, <2>6 DEF Is, Session, Body
  <2> QED
    BY <1>3, <2>3, <2>4, <2>5, <2>6 DEF Handled, Leaving
<1> QED
  BY <1>1, <1>2, <1>3

LEMMA SignalKeeps ==
  ASSUME IInv, Signal
  PROVE  IInv'
<1>1. /\ TypeOK /\ b \in Session /\ mode = "direct" /\ w.pc = "none"
      /\ signals < MaxSignals /\ BridgeSignalled
  BY Parts DEF IInv, Places, Signal
<1>2. /\ UNCHANGED <<mode, seen, home, wire, v, call, w, receipt, pipe>>
      /\ group' = IF b.bound THEN {} ELSE group
      /\ signals' = signals + 1
      /\ late' = IF b.pc \in Leaving /\ b.bound THEN late + 1 ELSE late
  BY DEF Signal, worker, vendor
<1>3. b.pc # "report" /\ b.pc # "none"
  BY <1>1 DEF IInv, Places, Directly
<1>4. Places'
  <2>1. UNCHANGED <<mode, w>> /\ mode = "direct" /\ w.pc = "none"
    BY <1>1, <1>2
  <2>2. /\ b'.pc = "report" => mode = "contained" /\ b'.proof
        /\ b'.proof => b'.pc \notin Early \cup Body
    BY <1>1, <1>3, SignalledIs DEF IInv, Places, Is, Early, Body, Handled, Leaving, BridgeOver
  <2>3. b'.pc \in Early => group' = {}
    BY <1>1, <1>2, SignalledIs DEF IInv, Places, Is, Early, Handled, Body, Leaving, BridgeOver
  <2>4. /\ b'.pc \in Early \cup {"bind", "bound"} => b'.req = 0
        /\ b'.pc = "send" => b'.req < Requests
        /\ b'.pc = "check" => b'.req = Requests
    BY <1>1, SignalledIs DEF IInv, Places, Is, Early, BridgeOver
  <2>5. late' <= IF b'.pc \in {"remove", "restore", "report", "over", "dead"}
                 THEN signals' + 1 ELSE signals'
    <3>1. late <= IF b.pc \in {"remove", "restore", "report", "over", "dead"}
                  THEN signals + 1 ELSE signals
      BY DEF IInv, Places
    <3>2. late \in Nat /\ signals \in Nat /\ signals' = signals + 1 /\ late' \in {late, late + 1}
      BY <1>1, <1>2, Parts
    <3>3. CASE b.pc \notin {"remove", "restore", "report", "over", "dead"}
      BY <3>1, <3>2, <3>3
    <3>4. CASE b.pc \in {"remove", "restore"} /\ ~b.bound
      BY <1>2, <3>1, <3>2, <3>4, <1>1, SignalledIs DEF Is, Handled, Leaving, Body, BridgeOver
    <3>5. CASE b.pc \in {"remove", "restore"} /\ b.bound
      <4>1. b'.pc \in {"restore", "over"}
        BY <3>5, <1>1, SignalledIs DEF Is, Handled, Leaving, Body, BridgeOver
      <4> QED
        BY <3>1, <3>2, <3>5, <4>1
    <3>6. CASE b.pc \in {"over", "dead"}
      BY <3>1, <3>2, <3>6, <1>1, <1>2, SignalledIs DEF Is, Handled, Leaving, Body, BridgeOver
    <3> QED
      BY <1>1, <1>3, <3>3, <3>4, <3>5, <3>6 DEF Session
  <2> QED
    BY <2>1, <2>2, <2>3, <2>4, <2>5 DEF Places
<1>5. Directly'
  <2>1. b.bound => group' = {}
    BY <1>2
  <2>2. group' # {} => b.pc = "bind" /\ ~b.bound
    BY <1>1, <1>2 DEF IInv, Directly
  <2>3. \/ b.pc \in Handled /\ ~b.bound /\ Is(b', b.pc, b.req, b.bound, b.proof)
        \/ b.pc \in Body /\ b.bound /\ Is(b', "close", b.req, b.bound, FALSE)
        \/ /\ b.pc \in {"close", "term", "reap", "unbind"} /\ b.bound
           /\ Is(b', "remove", b.req, b.bound, FALSE)
        \/ b.pc = "remove" /\ b.bound /\ Is(b', "restore", b.req, b.bound, FALSE)
        \/ b.pc = "restore" /\ b.bound /\ Is(b', "over", b.req, b.bound, FALSE)
        \/ b.pc \in BridgeOver /\ Is(b', b.pc, b.req, b.bound, FALSE)
        \/ b.pc = "begin" /\ Is(b', "dead", b.req, b.bound, FALSE)
    BY <1>1, <1>3, SignalledIs DEF Session, BridgePCs
  <2>4. late \in Nat /\ UNCHANGED <<mode, home>>
    BY <1>1, <1>2, Parts
  <2> QED
    BY <1>1, <1>2, <2>1, <2>2, <2>3, <2>4
       DEF IInv, Directly, Is, Attached, Early, Body, Handled, Leaving, BridgeOver
<1>6. TypeOK'
  <2>1. late' \in 0..(MaxSignals + 1) /\ signals' \in 0..MaxSignals
    BY <1>1, <1>2, <1>4, Parts, MaxAssumption DEF TypeOK, Places
  <2>2. b' \in Session /\ group' \subseteq Members
    BY <1>1, <1>2, SignalledIs, Parts DEF Is
  <2> QED
    BY <1>1, <1>2, <2>1, <2>2 DEF TypeOK, Session
<1>7. Working'
  <2>1. b'.proof => b.proof
    BY <1>1, SignalledIs DEF Is
  <2>2. Exited => b'.pc \in BridgeOver
    BY <1>1, SignalledIs DEF Is, Exited, Handled, Body, Leaving, BridgeOver
  <2> QED
    BY <1>2, <2>1, <2>2, WorkingStays DEF IInv
<1>8. Told'
  <2>1. /\ b'.req = b.req
        /\ b'.pc \in Quietly => b.pc \in Quietly
        /\ b'.pc \in {"recv", "check"} => b'.pc = b.pc
    BY <1>1, SignalledIs DEF Is, Quietly, Early, BridgeOver
  <2> QED
    BY <1>2, <2>1, ToldStays DEF IInv
<1> QED
  BY <1>4, <1>5, <1>6, <1>7, <1>8 DEF IInv

LEMMA TermGroupKeeps ==
  ASSUME IInv, TermGroup
  PROVE  IInv'
<1>1. /\ TypeOK /\ b \in Session /\ mode = "contained" /\ ~b.bound /\ w.pc = "reap"
      /\ BridgeSignalled
  BY Parts DEF IInv, Places, TermGroup, TypeOK
<1>2. /\ UNCHANGED <<mode, seen, home, wire, v, call, receipt, pipe, signals, late>>
      /\ group' \subseteq group
  BY DEF TermGroup, Others, vendor
<1>3. w' \in [pc : WorkerPCs, ok : BOOLEAN] /\ w'.pc = "gone"
  BY <1>1, WorkerIs DEF TermGroup, WorkerPCs
<1>4. \/ b'.pc \in BridgeOver /\ Is(b', b'.pc, b.req, b.bound, FALSE)
      \/ b.pc \in Handled /\ Is(b', b.pc, b.req, b.bound, b.proof)
  BY <1>1, SignalledIs DEF Is, BridgeOver
<1>5. Places'
  BY <1>1, <1>2, <1>3, <1>4, Parts
     DEF IInv, Places, Is, Early, Body, Handled, Leaving, BridgeOver
<1>6. Directly'
  BY <1>1, <1>2 DEF Directly
<1>7. TypeOK'
  BY <1>1, <1>2, <1>3, <1>4 DEF TypeOK, Is, Session
<1>8. Working'
  <2>1. Proved' = Proved /\ (b'.proof => b.proof)
    BY <1>2, <1>4 DEF Proved, Is
  <2>2. Exited => Exited'
    BY <1>4 DEF Is, Exited, Handled, Body, Leaving, BridgeOver
  <2> QED
    BY <1>1, <1>2, <1>3, <2>1, <2>2 DEF IInv, Working
<1>9. Told'
  <2>1. /\ b'.req = b.req
        /\ b'.pc \in Quietly => b.pc \in Quietly
        /\ b'.pc \in {"recv", "check"} => b'.pc = b.pc
    BY <1>4 DEF Is, Quietly, Early, BridgeOver
  <2> QED
    BY <1>2, <2>1, ToldStays DEF IInv
<1> QED
  BY <1>5, <1>6, <1>7, <1>8, <1>9 DEF IInv

LEMMA AwaitGroupKeeps ==
  ASSUME IInv, AwaitGroup
  PROVE  IInv'
<1>1. TypeOK /\ b \in Session /\ mode = "contained" /\ ~b.bound /\ w.pc = "gone"
  BY Parts DEF IInv, Places, AwaitGroup, TypeOK
<1>2. UNCHANGED <<mode, seen, home, wire, v, call, receipt, pipe, signals, late>> /\ group' = {}
  BY DEF AwaitGroup, Others, vendor
<1>3. w' \in [pc : WorkerPCs, ok : BOOLEAN] /\ w'.pc \in {"read", "over"}
  <2>1. WorkerTo("read") \/ WorkerTo("over") \/ w' = [pc |-> "over", ok |-> FALSE]
    BY Zenon DEF AwaitGroup
  <2> QED
    BY <1>1, <2>1, WorkerIs DEF WorkerPCs
<1>4. /\ b'.pc \in BridgeOver /\ Is(b', b'.pc, b.req, b.bound, b.proof)
      /\ Exited => b'.pc = b.pc
  BY <1>1, PCs DEF AwaitGroup, Is, Session, Exited, BridgeOver
<1>5. Places'
  BY <1>1, <1>2, <1>3, <1>4, Parts DEF IInv, Places, Is, Early, Body, BridgeOver
<1>6. Directly'
  BY <1>1, <1>2 DEF Directly
<1>7. TypeOK'
  BY <1>1, <1>2, <1>3, <1>4 DEF TypeOK, Is, Session
<1>8. Working'
  <2>1. Proved' = Proved /\ Exited'
    BY <1>2, <1>4 DEF Proved, Exited
  <2> QED
    BY <1>1, <1>2, <1>3, <1>4, <2>1 DEF IInv, Working, Is
<1>9. Told'
  BY <1>2, <1>4, ToldStays DEF IInv, Is, Quietly, Early, BridgeOver
<1> QED
  BY <1>5, <1>6, <1>7, <1>8, <1>9 DEF IInv

-----------------------------------------------------------------------------
(* The vendor *)

\* Where the vendor speaks, and what is then on the wire.
LEMMA SaysIs ==
  ASSUME IInv, NEW msg \in Messages, Says(msg)
  PROVE  /\ UNCHANGED <<mode, b, seen, home, group, w, receipt, pipe, signals, late>>
         /\ b.pc = "recv" /\ Len(wire) \in Nat
         /\ wire' \in Seq(Messages) /\ Len(wire') = Len(wire) + 1
         /\ wire'[Len(wire) + 1] = msg
         /\ \A i \in 1..Len(wire) : wire'[i] = wire[i]
<1>1. wire \in Seq(Messages) /\ wire' = Append(wire, msg)
  BY DEF IInv, TypeOK, Says
<1>2. UNCHANGED <<mode, b, seen, home, group, w, receipt, pipe, signals, late>> /\ b.pc = "recv"
  BY DEF Says, Program, bridge, worker, At
<1> QED
  BY <1>1, <1>2, AppendIs

\* A vendor that speaks disturbs neither the bridge nor the worker.
LEMMA SaysKeeps ==
  ASSUME IInv, NEW msg \in Messages, Says(msg), Told',
         v' \in [replies : 0..Requests, kids : SUBSET Calls, told : SUBSET Kinds],
         call' \in [Calls -> [at : {"none", "started", "given", "done", "failed"}, nonce : BOOLEAN]]
  PROVE  IInv'
<1>1. /\ UNCHANGED <<mode, b, seen, home, group, w, receipt, pipe, signals, late>>
      /\ b.pc = "recv" /\ wire' \in Seq(Messages)
  BY SaysIs
<1>2. TypeOK' /\ Places' /\ Directly'
  BY <1>1 DEF IInv, TypeOK, Places, Directly
<1>3. Working'
  <2>1. ~b.proof /\ ~Exited
    BY <1>1 DEF IInv, Places, Body, Exited, BridgeOver
  <2>2. Exited' = Exited
    BY <1>1 DEF Exited
  <2> QED
    BY <1>1, <2>1, <2>2 DEF IInv, Working
<1> QED
  BY <1>2, <1>3 DEF IInv

\* The wire before the last message is what it was.
LEMMA SaysMore ==
  ASSUME IInv, NEW msg \in Messages, Says(msg)
  PROVE  /\ \A i \in 1..Len(wire) : Ahead(i)' <=> Ahead(i)
         /\ msg.t # "reply" => Replies' = Replies
         /\ msg.t = "reply" => Replies' = Replies \cup {Len(wire) + 1}
         /\ 1..Len(wire') = 1..Len(wire) \cup {Len(wire) + 1}
<1>1. /\ Len(wire) \in Nat /\ Len(wire') = Len(wire) + 1 /\ wire'[Len(wire) + 1] = msg
      /\ \A i \in 1..Len(wire) : wire'[i] = wire[i]
  BY SaysIs
<1>2. 1..Len(wire') = 1..Len(wire) \cup {Len(wire) + 1}
  BY <1>1
<1>3. ASSUME NEW i \in 1..Len(wire)
      PROVE  Ahead(i)' <=> Ahead(i)
  <2>1. \A j \in 1..i : j \in 1..Len(wire)
    BY <1>1
  <2> QED
    BY <1>1, <2>1 DEF Ahead
<1> QED
  BY <1>1, <1>2, <1>3 DEF Replies

\* Whatever else it says keeps its account true, when it is true of itself, takes
\* nothing back, and begins no child it does not announce.
LEMMA SpeaksOn ==
  ASSUME IInv, NEW msg \in Messages, Says(msg), msg.t # "reply",
         v'.replies = v.replies, v'.kids = v.kids,
         Truth(msg)', \A m : Truth(m) => Truth(m)',
         \A c \in Calls :
           call'[c] = call[c] \/ (b.req = Requests /\ (call[c] # Fresh \/ msg = Begun(c)))
  PROVE  Told'
<1>1. /\ UNCHANGED <<mode, b, seen, home, group, w, receipt, pipe, signals, late>>
      /\ b.pc = "recv" /\ Len(wire) \in Nat
      /\ wire' \in Seq(Messages) /\ Len(wire') = Len(wire) + 1
      /\ wire'[Len(wire) + 1] = msg
      /\ \A i \in 1..Len(wire) : wire'[i] = wire[i]
  BY SaysIs
<1>2. /\ \A i \in 1..Len(wire) : Ahead(i)' <=> Ahead(i)
      /\ Replies' = Replies
      /\ 1..Len(wire') = 1..Len(wire) \cup {Len(wire) + 1}
  BY SaysMore
<1>3. TypeOK /\ Told
  BY DEF IInv
<1>4. /\ IsFiniteSet(seen') /\ \A m \in seen' : Truth(m)'
      /\ \A i \in 1..Len(wire') : Truth(wire[i])'
  BY <1>1, <1>2, <1>3 DEF Told
<1>5. b.req < Requests => seen' = {} /\ \A c \in Calls : call'[c] = Fresh
  BY <1>1, <1>3 DEF Told, TypeOK
<1>6. \/ v'.replies + 1 = b.req /\ Replies' = {}
      \/ v'.replies = b.req /\ Replies' # {} /\ \A i, j \in Replies' : i = j
  BY <1>1, <1>2, <1>3 DEF Told
<1>7. ASSUME b.req = Requests, v'.replies < Requests,
             NEW c \in Calls, call'[c] # Fresh
      PROVE  Begun(c) \in seen' \/ \E i \in 1..Len(wire') : wire'[i] = Begun(c)
  <2>1. CASE call[c] # Fresh
    <3>1. Begun(c) \in seen \/ \E i \in 1..Len(wire) : wire[i] = Begun(c)
      BY <1>1, <1>3, <1>7, <2>1 DEF Told
    <3> QED
      BY <1>1, <1>2, <3>1
  <2>2. CASE msg = Begun(c)
    BY <1>1, <1>2, <2>2
  <2> QED
    BY <1>7, <2>1, <2>2
<1>8. ASSUME v'.replies = Requests
      PROVE  /\ \A c \in v'.kids :
                  \/ Begun(c) \in seen'
                  \/ \E i \in 1..Len(wire') : wire'[i] = Begun(c) /\ Ahead(i)'
             /\ \A i \in 1..Len(wire') :
                  wire'[i].t = "agent" /\ Ahead(i)' => wire'[i].c \in v'.kids
             /\ \A m \in seen' : m.t = "agent" => m.c \in v'.kids
  <2>1. /\ \A c \in v.kids :
             Begun(c) \in seen \/ \E i \in 1..Len(wire) : wire[i] = Begun(c) /\ Ahead(i)
        /\ \A i \in 1..Len(wire) : wire[i].t = "agent" /\ Ahead(i) => wire[i].c \in v.kids
        /\ \A m \in seen : m.t = "agent" => m.c \in v.kids
    BY <1>1, <1>3, <1>8 DEF Told
  <2>2. PICK r \in 1..Len(wire) : wire[r].t = "reply"
    <3>1. v.replies = b.req /\ Replies # {}
      BY <1>1, <1>3, <1>6, <1>8, <1>2 DEF TypeOK, Requests
    <3> QED
      BY <3>1 DEF Replies
  <2>3. \A i : i = Len(wire) + 1 => ~Ahead(i)'
    BY <1>1, <2>2 DEF Ahead
  <2>4. \A c \in v'.kids :
          \/ Begun(c) \in seen'
          \/ \E i \in 1..Len(wire') : wire'[i] = Begun(c) /\ Ahead(i)'
    BY <1>1, <1>2, <2>1
  <2>5. \A i \in 1..Len(wire') : wire'[i].t = "agent" /\ Ahead(i)' => wire'[i].c \in v'.kids
    <3> TAKE i \in 1..Len(wire')
    <3>1. i \in 1..Len(wire) \/ i = Len(wire) + 1
      BY <1>2
    <3>2. CASE i \in 1..Len(wire)
      BY <1>1, <1>2, <2>1, <3>2
    <3>3. CASE i = Len(wire) + 1
      BY <2>3, <3>3
    <3> QED
      BY <3>1, <3>2, <3>3
  <2> QED
    BY <1>1, <2>1, <2>4, <2>5
<1>9. \A c : Begun(c)' = Begun(c)
  BY DEF Begun, Msg
<1> QED
  BY <1>1, <1>4, <1>5, <1>6, <1>7, <1>8, <1>9 DEF Told, Quietly, Early

\* The vendor answers what it was asked, and no more.
LEMMA AnswerKeeps ==
  ASSUME IInv, NEW ok \in BOOLEAN, Answer(ok)
  PROVE  IInv'
<1> DEFINE msg == Msg("reply", NoCall, ok)
           begun == {c \in Calls : call[c] # Fresh}
<1>1. msg \in Messages /\ msg.t = "reply"
  BY DEF Messages, Msg, Kinds
<1>2. /\ Says(msg) /\ UNCHANGED call /\ v.replies < b.req
      /\ v' = [v EXCEPT !.replies = @ + 1,
                        !.kids = IF v.replies + 1 = Requests THEN begun ELSE @]
  BY DEF Answer
<1> HIDE DEF msg
<1>3. TypeOK /\ Told
  BY DEF IInv
<1>4. /\ UNCHANGED <<mode, b, seen, home, group, w, receipt, pipe, signals, late>>
      /\ b.pc = "recv" /\ Len(wire) \in Nat
      /\ wire' \in Seq(Messages) /\ Len(wire') = Len(wire) + 1
      /\ wire'[Len(wire) + 1] = msg
      /\ \A i \in 1..Len(wire) : wire'[i] = wire[i]
  BY <1>1, <1>2, SaysIs
<1>5. v.replies + 1 = b.req /\ Replies = {}
  BY <1>2, <1>3, <1>4 DEF Told, TypeOK
<1>6. /\ v' \in [replies : 0..Requests, kids : SUBSET Calls, told : SUBSET Kinds]
      /\ v'.replies = b.req
      /\ b.req = Requests => v'.kids = begun
  <2>1. v.replies + 1 \in 0..Requests /\ begun \subseteq Calls
    BY <1>3, <1>5 DEF TypeOK
  <2> HIDE DEF begun
  <2> QED
    BY <1>2, <1>3, <1>5, <2>1 DEF TypeOK
<1>7. /\ \A i \in 1..Len(wire) : Ahead(i)' <=> Ahead(i)
      /\ Replies' = {Len(wire) + 1}
      /\ 1..Len(wire') = 1..Len(wire) \cup {Len(wire) + 1}
  BY <1>1, <1>2, <1>5, SaysMore
<1>8. \A i \in 1..Len(wire) : Ahead(i)
  BY <1>4, <1>5 DEF Ahead, Replies
<1>9. \A m : Truth(m)' <=> Truth(m)
  BY <1>2 DEF Truth
<1>10. /\ \A m \in seen' : Truth(m)'
       /\ \A i \in 1..Len(wire') : Truth(wire[i])'
  <2>1. Truth(msg)
    BY <1>1 DEF Truth
  <2> QED
    BY <1>3, <1>4, <1>7, <1>9, <2>1 DEF Told
<1>11. ASSUME b.req = Requests
       PROVE  /\ \A c \in v'.kids :
                   \/ Begun(c) \in seen'
                   \/ \E i \in 1..Len(wire') : wire'[i] = Begun(c) /\ Ahead(i)'
              /\ \A i \in 1..Len(wire') :
                   wire'[i].t = "agent" /\ Ahead(i)' => wire'[i].c \in v'.kids
              /\ \A m \in seen' : m.t = "agent" => m.c \in v'.kids
  <2>1. \A c \in begun : Begun(c) \in seen \/ \E i \in 1..Len(wire) : wire[i] = Begun(c)
    BY <1>3, <1>4, <1>5, <1>11 DEF Told, TypeOK
  <2>2. \A m : Truth(m) /\ m.t = "agent" => m.c \in begun
    <3> TAKE m
    <3> HAVE Truth(m) /\ m.t = "agent"
    <3>1. m.c \in Calls /\ call[m.c].at # "none"
      BY DEF Truth
    <3> QED
      BY <3>1 DEF Fresh
  <2> HIDE DEF begun
  <2>3. \A c \in v'.kids :
          \/ Begun(c) \in seen'
          \/ \E i \in 1..Len(wire') : wire'[i] = Begun(c) /\ Ahead(i)'
    BY <1>4, <1>6, <1>7, <1>8, <1>11, <2>1
  <2>4. \A i \in 1..Len(wire') : wire'[i].t = "agent" => wire'[i].c \in v'.kids
    BY <1>1, <1>3, <1>4, <1>6, <1>7, <1>11, <2>2 DEF Told
  <2>5. \A m \in seen' : m.t = "agent" => m.c \in v'.kids
    BY <1>3, <1>4, <1>6, <1>11, <2>2 DEF Told
  <2> QED
    BY <2>3, <2>4, <2>5
<1>12. Told'
  <2>1. b.req < Requests => seen' = {} /\ \A c \in Calls : call'[c] = Fresh
    BY <1>2, <1>3, <1>4 DEF Told
  <2>2. b.req \in 0..Requests
    BY <1>3 DEF TypeOK
  <2>3. IsFiniteSet(seen')
    BY <1>3, <1>4 DEF Told
  <2>4. \A c : Begun(c)' = Begun(c)
    BY DEF Begun, Msg
  <2> HIDE DEF begun
  <2> QED
    BY <1>4, <1>6, <1>7, <1>10, <1>11, <2>1, <2>2, <2>3, <2>4 DEF Told, Quietly, Early, Requests
<1> QED
  BY <1>1, <1>2, <1>3, <1>6, <1>12, SaysKeeps DEF TypeOK

\* A reverse request or a swarm says nothing of a child.
LEMMA MisbehaveKeeps ==
  ASSUME IInv, NEW t \in {"ask", "swarm"}, Misbehave(t)
  PROVE  IInv'
<1> DEFINE msg == Msg(t, NoCall, FALSE)
<1>1. msg \in Messages /\ msg.t = t
  BY DEF Messages, Msg, Kinds
<1>2. /\ Says(msg) /\ UNCHANGED call
      /\ v' = [v EXCEPT !.told = @ \cup {t}]
  BY DEF Misbehave
<1> HIDE DEF msg
<1>3. TypeOK /\ Told
  BY DEF IInv
<1>4. /\ UNCHANGED <<mode, b, seen, home, group, w, receipt, pipe, signals, late>>
      /\ b.pc = "recv" /\ Len(wire) \in Nat
      /\ wire' \in Seq(Messages) /\ Len(wire') = Len(wire) + 1
      /\ wire'[Len(wire) + 1] = msg
      /\ \A i \in 1..Len(wire) : wire'[i] = wire[i]
  BY <1>1, <1>2, SaysIs
<1>5. /\ v' \in [replies : 0..Requests, kids : SUBSET Calls, told : SUBSET Kinds]
      /\ v'.replies = v.replies /\ v'.kids = v.kids
  BY <1>2, <1>3 DEF TypeOK, Kinds
<1>6. Truth(msg)
  BY <1>1 DEF Truth
<1>7. \A m : Truth(m)' <=> Truth(m)
  BY <1>2 DEF Truth
<1>8. Told'
  BY <1>1, <1>2, <1>3, <1>4, <1>5, <1>6, <1>7, SpeaksOn
<1> QED
  BY <1>1, <1>2, <1>3, <1>5, <1>8, SaysKeeps DEF TypeOK

\* A child is announced when it begins, and ends once.
LEMMA ChildKeeps ==
  ASSUME IInv, NEW c \in Calls, Child(c)
  PROVE  IInv'
<1>1. TypeOK /\ Told
  BY DEF IInv
<1>2. PICK from \in SUBSET {"none", "started", "given"},
           to \in {"started", "given", "done", "failed"},
           t \in {"agent", "input", "end"}, ok \in BOOLEAN :
        /\ CallStep(c, from, to, Msg(t, c, ok))
        /\ t = "agent" => ok = TRUE
        /\ t = "agent" <=> from = {"none"}
        /\ t # "agent" => "none" \notin from
        /\ t = "agent" => b.req = Requests
        /\ t = "end" /\ ok => to = "done"
  <2>1. CASE b.req = Requests /\ CallStep(c, {"none"}, "started", Msg("agent", c, TRUE))
    BY <2>1
  <2>2. CASE \E ok \in BOOLEAN : CallStep(c, {"started"}, "given", Msg("input", c, ok))
    <3>1. PICK ok \in BOOLEAN : CallStep(c, {"started"}, "given", Msg("input", c, ok))
      BY <2>2
    <3> QED
      BY <3>1
  <2>3. CASE \E ok \in BOOLEAN :
               CallStep(c, {"started", "given"}, IF ok THEN "done" ELSE "failed", Msg("end", c, ok))
    <3>1. PICK ok \in BOOLEAN :
            CallStep(c, {"started", "given"}, IF ok THEN "done" ELSE "failed", Msg("end", c, ok))
      BY <2>3
    <3> QED
      BY <3>1
  <2> QED
    BY <2>1, <2>2, <2>3 DEF Child
<1> DEFINE msg == Msg(t, c, ok)
           given == call[c].nonce \/ (t = "input" /\ ok)
<1>3. msg \in Messages /\ msg.t = t /\ msg.c = c /\ msg.ok = ok
  BY DEF Messages, Msg, Kinds
<1>4. /\ call[c].at \in from /\ Says(msg) /\ UNCHANGED v
      /\ call' = [call EXCEPT ![c] = [at |-> to, nonce |-> given]]
  <2>1. call \in [Calls -> [at : {"none", "started", "given", "done", "failed"}, nonce : BOOLEAN]]
    BY <1>1 DEF TypeOK
  <2>2. call' = [call EXCEPT ![c].at = to,
                             ![c].nonce = @ \/ (msg.t = "input" /\ msg.ok)]
    BY <1>2 DEF CallStep
  <2>3. call' = [call EXCEPT ![c] = [at |-> to, nonce |-> given]]
    <3> DEFINE heard == msg.t = "input" /\ msg.ok
               there == call[c]
    <3>1. there \in [at : {"none", "started", "given", "done", "failed"}, nonce : BOOLEAN]
      BY <2>1
    <3>2. call' = [call EXCEPT ![c] = [[there EXCEPT !.at = to] EXCEPT !.nonce = @ \/ heard]]
      BY <2>1, <2>2, Zenon
    <3>3. heard = (t = "input" /\ ok)
      BY <1>3
    <3> HIDE DEF heard, there
    <3>4. [there EXCEPT !.at = to].nonce = there.nonce
      BY <3>1
    <3>5. ([there EXCEPT !.at = to].nonce \/ heard) = given
      BY <3>3, <3>4 DEF there
    <3> HIDE DEF given
    <3>6. [[there EXCEPT !.at = to] EXCEPT !.nonce = given] = [at |-> to, nonce |-> given]
      <4> DEFINE moved == [there EXCEPT !.at = to]
                 done == [moved EXCEPT !.nonce = given]
      <4>1. moved \in [at : {"none", "started", "given", "done", "failed"}, nonce : BOOLEAN]
            /\ moved.at = to
        BY <3>1
      <4> HIDE DEF moved
      <4>2. DOMAIN done = {"at", "nonce"} /\ done.at = to /\ done.nonce = given
            /\ done = [i \in DOMAIN done |-> done[i]]
        BY <4>1
      <4> HIDE DEF done
      <4>3. done = [at |-> to, nonce |-> given]
        BY <4>2
      <4> QED
        BY <4>3 DEF done, moved
    <3>7. [[there EXCEPT !.at = to] EXCEPT !.nonce = @ \/ heard]
            = [[there EXCEPT !.at = to] EXCEPT !.nonce = given]
      BY <3>5, Zenon
    <3> QED
      BY <3>2, <3>6, <3>7
  <2> QED
    BY <1>2, <2>3 DEF CallStep
<1> HIDE DEF msg
<1>5. /\ call \in [Calls -> [at : {"none", "started", "given", "done", "failed"}, nonce : BOOLEAN]]
      /\ given \in BOOLEAN
  BY <1>1 DEF TypeOK
<1> HIDE DEF given
<1>6. /\ call' \in [Calls -> [at : {"none", "started", "given", "done", "failed"}, nonce : BOOLEAN]]
      /\ call'[c].at = to /\ call'[c].nonce = given
      /\ \A d \in Calls \ {c} : call'[d] = call[d]
  BY <1>4, <1>5
<1>7. given <=> call[c].nonce \/ (t = "input" /\ ok)
  BY DEF given
<1>8. \A m : Truth(m) => Truth(m)'
  <2> TAKE m
  <2> HAVE Truth(m)
  <2>1. m.t \in {"agent", "input", "end"} => m.c \in Calls
    BY DEF Truth
  <2>2. m.t = "agent" => m = Msg("agent", m.c, TRUE) /\ call'[m.c].at # "none"
    BY <1>6, <2>1 DEF Truth
  <2>3. m.t = "input" /\ m.ok => call'[m.c].nonce
    <3>1. CASE m.c = c
      BY <1>6, <1>7, <3>1 DEF Truth
    <3>2. CASE m.c # c
      BY <1>6, <2>1, <3>2 DEF Truth
    <3> QED
      BY <3>1, <3>2
  <2>4. m.t = "end" /\ m.ok => call'[m.c].at = "done"
    <3>1. CASE m.c = c
      BY <1>4, <3>1 DEF Truth
    <3>2. CASE m.c # c
      BY <1>6, <2>1, <3>2 DEF Truth
    <3> QED
      BY <3>1, <3>2
  <2> QED
    BY <2>1, <2>2, <2>3, <2>4 DEF Truth, Msg
<1>9. Truth(msg)'
  <2>1. t = "agent" => msg = Msg("agent", c, TRUE)
    BY <1>2 DEF msg
  <2>2. t = "input" /\ ok => call'[c].nonce
    BY <1>6, <1>7
  <2>3. t = "end" /\ ok => call'[c].at = "done"
    BY <1>2, <1>6
  <2> QED
    BY <1>3, <1>6, <2>1, <2>2, <2>3 DEF Truth, Msg
<1>10. b.req = Requests /\ (call[c] # Fresh \/ msg = Begun(c))
  <2>1. CASE t = "agent"
    BY <1>2, <2>1 DEF msg, Begun
  <2>2. CASE t # "agent"
    <3>1. call[c] # Fresh
      BY <1>2, <1>4, <2>2 DEF Fresh
    <3>2. b.pc = "recv" /\ b.req \in 0..Requests
      BY <1>1, <1>4 DEF Says, At, TypeOK
    <3> QED
      BY <1>1, <3>1, <3>2 DEF Told, Requests
  <2> QED
    BY <2>1, <2>2
<1>11. Told'
  <2>1. msg.t # "reply"
    BY <1>3
  <2>2. \A d \in Calls :
          call'[d] = call[d] \/ (b.req = Requests /\ (call[d] # Fresh \/ msg = Begun(d)))
    BY <1>6, <1>10
  <2>3. v'.replies = v.replies /\ v'.kids = v.kids
    BY <1>4
  <2> QED
    BY <1>3, <1>4, <1>8, <1>9, <2>1, <2>2, <2>3, SpeaksOn
<1> QED
  BY <1>1, <1>3, <1>4, <1>6, <1>11, SaysKeeps DEF TypeOK

LEMMA GroupChangesKeeps ==
  ASSUME IInv, GroupChanges
  PROVE  IInv'
<1>1. /\ UNCHANGED <<mode, b, seen, home, wire, v, call, w, receipt, pipe, signals, late>>
      /\ group # {} /\ group' \subseteq group \cup {"helper"}
  BY DEF GroupChanges, Program, vendor, bridge, worker
<1>2. TypeOK'
  BY <1>1 DEF IInv, TypeOK, Members
<1>5. Places' /\ Directly'
  BY <1>1 DEF IInv, Places, Directly
<1>3. Working'
  <2>1. Proved' = Proved /\ Exited' = Exited
    BY <1>1 DEF Proved, Exited
  <2> QED
    BY <1>1, <2>1 DEF IInv, Working
<1>4. Told'
  BY <1>1, ToldStays DEF IInv
<1> QED
  BY <1>2, <1>3, <1>4, <1>5 DEF IInv

-----------------------------------------------------------------------------
(* The theorems *)

\* It holds when a session begins, and no step of any of the three breaks it.
LEMMA Start == Init => IInv
<1> SUFFICES ASSUME Init PROVE IInv
  OBVIOUS
<1>1. /\ b.pc \in {"begin", "none"} /\ b.req = 0 /\ b.read = 0
      /\ b.bound = FALSE /\ b.pending = FALSE /\ b.proof = FALSE
      /\ b.pc = "begin" <=> mode = "direct"
      /\ b \in Session
  BY MaxAssumption DEF Init, Session, BridgePCs, Requests
<1>2. TypeOK
  <2>1. /\ 0 \in 0..MaxSignals /\ 0 \in 0..(MaxSignals + 1)
        /\ w \in [pc : WorkerPCs, ok : BOOLEAN]
        /\ v \in [replies : 0..Requests, kids : SUBSET Calls, told : SUBSET Kinds]
    BY MaxAssumption DEF Init, WorkerPCs, Requests
  <2>2. call \in [Calls -> [at : {"none", "started", "given", "done", "failed"}, nonce : BOOLEAN]]
    BY DEF Init, Fresh
  <2>3. wire \in Seq(Messages)
    BY DEF Init
  <2> QED
    BY <1>1, <2>1, <2>2, <2>3 DEF Init, TypeOK, Session
<1>3. Places
  BY <1>1 DEF Init, Places, Early, Body
<1>4. Directly
  BY <1>1 DEF Init, Directly, Early, Attached
<1>5. Working
  BY <1>1 DEF Init, Working
<1>6. Told
  BY <1>1, FS_EmptySet DEF Init, Told, Replies, Quietly, Early
<1> QED
  BY <1>2, <1>3, <1>4, <1>5, <1>6 DEF IInv

LEMMA Stutter == IInv /\ UNCHANGED vars => IInv'
<1> SUFFICES ASSUME IInv, UNCHANGED vars PROVE IInv'
  OBVIOUS
<1>1. UNCHANGED <<mode, b, seen, home, group, wire, v, call, w, receipt, pipe, signals, late>>
  BY DEF vars, bridge, vendor, worker
<1>2. TypeOK'
  BY <1>1 DEF IInv, TypeOK
<1>5. Places' /\ Directly'
  BY <1>1 DEF IInv, Places, Directly
<1>3. Working'
  BY <1>1, WorkingStays DEF IInv, Exited
<1>4. Told'
  BY <1>1, ToldStays DEF IInv
<1> QED
  BY <1>2, <1>3, <1>4, <1>5 DEF IInv

LEMMA Step == IInv /\ [Next]_vars => IInv'
<1> SUFFICES ASSUME IInv, [Next]_vars PROVE IInv'
  OBVIOUS
<1>1. CASE BridgeStep
  <2>1. \/ RefuseSession \/ InstallHandlers \/ CheckInterrupt \/ MakeHome \/ Popen \/ BindGroup
        \/ StopReceiving \/ CheckUpdates
        \/ TerminateProcess \/ ReapGroup \/ UnbindGroup \/ RemoveHome \/ RestoreHandlers
    BY <1>1 DEF BridgeStep
  <2> QED
    BY <1>1, <2>1, RefuseSessionKeeps, InstallHandlersKeeps, CheckInterruptKeeps, MakeHomeKeeps,
       PopenKeeps, BindGroupKeeps, StopReceivingKeeps, CheckUpdatesKeeps, TerminateProcessKeeps,
       ReapGroupKeeps, UnbindGroupKeeps, RemoveHomeKeeps, RestoreHandlersKeeps
<1>2. CASE Closes \/ Sends \/ Receives \/ Reports \/ Signal
  BY <1>2, ClosesKeeps, SendsKeeps, ReceivesKeeps, ReportsKeeps, SignalKeeps
<1>3. CASE WorkerStep \/ CancelWorker
  BY <1>3, WorkerAlone, StartBridgeKeeps, TermGroupKeeps, AwaitGroupKeeps DEF WorkerStep
<1>4. CASE VendorStep
  BY <1>4, AnswerKeeps, MisbehaveKeeps, ChildKeeps, GroupChangesKeeps DEF VendorStep
<1>5. CASE UNCHANGED vars
  BY <1>5, Stutter
<1> QED
  BY <1>1, <1>2, <1>3, <1>4, <1>5 DEF Next

\* The invariant the theorems rest on.
THEOREM Invariance == Spec => []IInv
BY Start, Step, PTL DEF Spec

\* The shape of the state, for every set of calls and every bound.
THEOREM TypeCorrect == Spec => []TypeOK
<1>1. IInv => TypeOK
  BY DEF IInv
<1> QED
  BY <1>1, Invariance, PTL

\* A proof, and the receipt made from it, speaks of the one child its vendor had
\* when it answered the prompt: the updates that run_acp_native_agent counts are
\* all there were, in whatever order and with whatever noise they came.
THEOREM ProofIsOfOneChild == Spec => []OneChildProved
<1>1. IInv => OneChildProved
  BY DEF IInv, Working, Proved, OneChildProved
<1> QED
  BY <1>1, Invariance, PTL

\* However signals fall on a direct session, its group is gone when it is over,
\* and a worker reads a result only of a group that is gone.
THEOREM GroupIsGone == Spec => []NothingLeftBehind
<1>1. IInv => NothingLeftBehind
  <2> SUFFICES ASSUME IInv PROVE NothingLeftBehind
    OBVIOUS
  <2>1. ASSUME mode = "direct", Exited
        PROVE  group = {} /\ (late <= 1 => ~home)
    BY <2>1 DEF IInv, TypeOK, Directly, Exited, BridgeOver, Attached
  <2>2. w.pc \in {"read", "prove"} \/ receipt => Exited /\ group = {}
    BY DEF IInv, Working
  <2> QED
    BY <2>1, <2>2 DEF NothingLeftBehind
<1> QED
  BY <1>1, Invariance, PTL

=============================================================================
