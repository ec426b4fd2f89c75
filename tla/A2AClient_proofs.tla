--------------------------- MODULE A2AClient_proofs ---------------------------
(***************************************************************************)
(* What one client knows of its task is true: the events it has seen are   *)
(* those of the log, in order and without a gap, again only after a broken *)
(* stream, and its receipt is of the record, for any number of             *)
(* reconnects, restarts and client processes and any --resume-from. The    *)
(* argument: the log only grows and a final state stays, so what is on     *)
(* the wire or in a variable of the client ages well.                      *)
(***************************************************************************)
EXTENDS A2AClient, TLAPS

-----------------------------------------------------------------------------
(* The inductive invariant *)

\* What the files of a task say of it. A runner that serves has no torn record of a
\* task that is not final, so that an artifact is the third event.
StoreOf(d, a, serves) ==
  /\ d.state = "NONE" => Len(d.log) = 0 /\ ~d.complete
  /\ d.complete => d.state \in Final
  /\ serves /\ d.state = "SUBMITTED" => Len(d.log) = 1
  /\ serves /\ d.state = "WORKING" => Len(d.log) = 2
  /\ \A i \in 1..Len(d.log) :
       /\ d.log[i] \in Final => d.state = d.log[i]
       /\ d.log[i] = "COMPLETED" => i = 4 /\ d.log[3] = "artifact"
  /\ d.state = "COMPLETED" => a

Store == StoreOf(disk, inline, up)

\* What is on its way to the client: the events after the last it has, without a gap,
\* and after them "done", if the log is over and nothing of it is missing.
Follows(i) ==
  IF conn.wire[i].event = "done"
    THEN /\ i = Len(conn.wire) /\ conn.srv = "closed"
         /\ disk.complete /\ Len(disk.log) <= last + i - 1
    ELSE /\ conn.wire[i].seq = last + i /\ last + i <= Len(disk.log)
         /\ conn.wire[i].event = disk.log[last + i]

Streaming ==
  pc = "stream" =>
    /\ \A i \in 1..Len(conn.wire) : Follows(i)
    /\ conn.srv # "closed" => conn.last = last + Len(conn.wire)
    /\ conn.srv = "flush" => disk.complete

\* What the client has seen reaches up to its place, without a gap; what it has seen
\* beyond the place it would fall back to came over this stream, or over a broken one.
Whole ==
  \A j \in 1..Len(seen) : \A n \in resume+1 .. seen[j].seq - 1 :
    \E i \in 1..j-1 : seen[i].seq = n
Reaches == \A n \in resume+1 .. last : \E i \in 1..Len(seen) : seen[i].seq = n
Again ==
  \A i, j \in 1..Len(seen) : i < j /\ seen[j].seq <= seen[i].seq => seen[i].try \in broken
Unbroken ==
  \A i \in 1..Len(seen) :
    seen[i].try \in broken \/ seen[i].seq <= since \/ (seen[i].try = tries /\ seen[i].seq <= last)

Seeing ==
  /\ resume <= since /\ since <= last
  /\ pc # "stream" => since = last
  /\ Whole /\ Reaches /\ Again /\ Unbroken
  /\ pc = "done" => last >= Len(disk.log) /\ disk.complete

\* The record put together from the stream.
Advisory ==
  /\ adv.reason = "remote_terminal"
  /\ adv.state \in Final => adv.state = disk.state
  /\ adv.state = "COMPLETED" => adv.art \/ resume >= 3
  /\ resume < 3 /\ last >= 3 => Len(disk.log) >= 3 /\ (disk.log[3] = "artifact" => adv.art)

\* The record the client settles on, and its deadline.
Settled ==
  /\ pc \in {"confirm", "stage", "meta"} => got.state \in Final /\ got.state = disk.state
  /\ pc \in {"stage", "meta"} /\ got.state = "COMPLETED" => got.art \/ resume >= 3
  /\ pc \in {"cancel", "asked", "confirm"} => late
  /\ pc \in {"stage", "meta"} /\ got.reason = "client_deadline" => late
  /\ pc = "meta" /\ got.art => staged /\ meta.outcome # "RETURNED"
  /\ pc # "off" => code = "none"

Received ==
  /\ meta.outcome = "RETURNED" => disk.state = "COMPLETED" /\ staged
  /\ meta.outcome \in {"TIMEOUT", "CANCELED"} => disk.state = "CANCELED"
  /\ code = "deadline" => late /\ disk.state = "CANCELED" /\ meta.outcome = "TIMEOUT"

IInv == TypeOK /\ Store /\ Streaming /\ Seeing /\ Advisory /\ Settled /\ Received

-----------------------------------------------------------------------------
(* The store: whatever is done to the files, a crash in the middle of it   *)
(* included, the log grows and what is final stays.                        *)

Grown(d, x) ==
  /\ x \in Disk
  /\ Len(d.log) <= Len(x.log) /\ \A i \in 1..Len(d.log) : x.log[i] = d.log[i]
  /\ d.state \in Final => x.state = d.state
  /\ d.complete => x = d

LEMMA States ==
  /\ "NONE" \notin Final /\ "NONE" \notin Active /\ "artifact" \notin Final
  /\ \A s \in Active : s \notin Final
  /\ "SUBMITTED" \in Active /\ "WORKING" \in Active
  /\ "COMPLETED" \in Final /\ "CANCELED" \in Final /\ "FAILED" \in Final
  /\ "done" \notin Events /\ "artifact" \in Events
  /\ "SUBMITTED" \in Events /\ "WORKING" \in Events
  /\ \A s \in Final : s \in Events
BY DEF Active, Final, Events

Adds(d, e, x) ==
  /\ x \in Disk /\ x.state = d.state /\ ~x.complete
  /\ Len(x.log) = Len(d.log) + 1 /\ x.log[Len(d.log) + 1] = e
  /\ \A i \in 1..Len(d.log) : x.log[i] = d.log[i]
  /\ \A i \in 1..Len(x.log) : i \in 1..Len(d.log) \/ i = Len(d.log) + 1

LEMMA LoggedIs ==
  ASSUME NEW d \in Disk, NEW e \in Events, ~d.complete
  PROVE  Adds(d, e, Logged(d, e))
<1> DEFINE x == Logged(d, e)
<1>1. d.log \in Seq(Events) /\ Append(d.log, e) \in Seq(Events)
  BY DEF Disk
<1>2. x \in Disk /\ x.log = Append(d.log, e) /\ x.state = d.state /\ ~x.complete
  BY <1>1 DEF Disk, Logged
<1> HIDE DEF x
<1>3. Adds(d, e, x)
  BY <1>1, <1>2 DEF Adds
<1> QED
  BY <1>3 DEF x

LEMMA SameGrows ==
  ASSUME NEW d \in Disk
  PROVE  Grown(d, d)
<1>1. d.log \in Seq(Events)
  BY DEF Disk
<1> QED
  BY <1>1 DEF Grown

LEMMA CreateGrows ==
  ASSUME NEW d \in Disk, NEW a \in BOOLEAN, StoreOf(d, a, TRUE)
  PROVE  /\ Grown(d, Created(d)) /\ StoreOf(Created(d), a, TRUE)
         /\ \A x \in TornCreate(d) : Grown(d, x) /\ StoreOf(x, a, FALSE)
<1>1. CASE ~CanCreate(d)
  BY <1>1, SameGrows DEF Created, TornCreate
<1>2. CASE CanCreate(d)
  <2> DEFINE r == [d EXCEPT !.state = "SUBMITTED"]
             e == [r EXCEPT !.log = <<>>]
             s == Logged(e, "SUBMITTED")
  <2>1. d.state = "NONE" /\ Len(d.log) = 0 /\ ~d.complete
    BY <1>2 DEF CanCreate, StoreOf
  <2>2. r \in Disk /\ r.state = "SUBMITTED" /\ Len(r.log) = 0 /\ ~r.complete
    BY <2>1 DEF Disk, Active
  <2> HIDE DEF r
  <2>3. <<>> \in Seq(Events) /\ Len(<<>>) = 0
    OBVIOUS
  <2>4. e \in Disk /\ e.state = "SUBMITTED" /\ Len(e.log) = 0 /\ ~e.complete
    BY <2>2, <2>3 DEF Disk
  <2> HIDE DEF e
  <2>5. /\ s \in Disk /\ s.state = "SUBMITTED" /\ ~s.complete
        /\ Len(s.log) = 1 /\ s.log[1] = "SUBMITTED"
    <3>1. Adds(e, "SUBMITTED", s)
      BY <2>4, LoggedIs, States
    <3> HIDE DEF s
    <3> QED
      BY <2>4, <3>1 DEF Adds
  <2> HIDE DEF s
  <2>6. CreateImages(d)[1] = r /\ CreateImages(d)[2] = e /\ CreateImages(d)[3] = s
    BY DEF CreateImages, r, e, s
  <2>7. \A x \in TornCreate(d) : x = r \/ x = e
    <3>1. \A i \in 1..2 : i = 1 \/ i = 2
      OBVIOUS
    <3> QED
      BY <1>2, <2>6, <3>1 DEF TornCreate
  <2>8. Created(d) = s
    BY <1>2, <2>6 DEF Created
  <2>9. Grown(d, r) /\ StoreOf(r, a, FALSE)
    BY <2>1, <2>2, States DEF Grown, StoreOf
  <2>10. Grown(d, e) /\ StoreOf(e, a, FALSE)
    BY <2>1, <2>4, States DEF Grown, StoreOf
  <2>11. Grown(d, s) /\ StoreOf(s, a, TRUE)
    BY <2>1, <2>5, States DEF Grown, StoreOf
  <2> QED
    BY <2>7, <2>8, <2>9, <2>10, <2>11
<1> QED
  BY <1>1, <1>2

LEMMA ClaimGrows ==
  ASSUME NEW d \in Disk, NEW a \in BOOLEAN, StoreOf(d, a, TRUE)
  PROVE  /\ Grown(d, Claimed(d)) /\ StoreOf(Claimed(d), a, TRUE)
         /\ \A x \in TornClaim(d) : Grown(d, x) /\ StoreOf(x, a, FALSE)
<1>1. CASE ~CanClaim(d)
  BY <1>1, SameGrows DEF Claimed, TornClaim
<1>2. CASE CanClaim(d)
  <2> DEFINE r == [d EXCEPT !.state = "WORKING"]
             s == Logged(r, "WORKING")
  <2>1. d.state = "SUBMITTED" /\ Len(d.log) = 1 /\ ~d.complete
    BY <1>2 DEF CanClaim, StoreOf
  <2>2. r \in Disk /\ r.state = "WORKING" /\ r.log = d.log /\ ~r.complete
    BY <2>1 DEF Disk, Active
  <2>3. \A i \in 1..Len(d.log) : d.log[i] \notin Final
    BY <2>1, States DEF StoreOf
  <2> HIDE DEF r
  <2>4. /\ s \in Disk /\ s.state = "WORKING" /\ ~s.complete
        /\ Len(s.log) = 2 /\ s.log[2] = "WORKING"
        /\ \A i \in 1..Len(d.log) : s.log[i] = d.log[i]
        /\ \A i \in 1..Len(s.log) : i \in 1..Len(d.log) \/ i = 2
    <3>1. Adds(r, "WORKING", s)
      BY <2>2, LoggedIs, States
    <3> HIDE DEF s
    <3> QED
      BY <2>1, <2>2, <3>1 DEF Adds
  <2> HIDE DEF s
  <2>5. ClaimImages(d)[1] = r /\ ClaimImages(d)[2] = s
    BY DEF ClaimImages, r, s
  <2>6. \A x \in TornClaim(d) : x = r
    BY <1>2, <2>5 DEF TornClaim
  <2>7. Claimed(d) = s
    BY <1>2, <2>5 DEF Claimed
  <2>8. Grown(d, r) /\ StoreOf(r, a, FALSE)
    BY <2>1, <2>2, <2>3, States DEF Grown, StoreOf
  <2>9. Grown(d, s) /\ StoreOf(s, a, TRUE)
    BY <2>1, <2>3, <2>4, States DEF Grown, StoreOf
  <2> QED
    BY <2>6, <2>7, <2>8, <2>9
<1> QED
  BY <1>1, <1>2

\* A verdict is written over what is active only; a completion brings its artifact.
LEMMA FinalizeGrows ==
  ASSUME NEW d \in Disk, NEW a, NEW u \in BOOLEAN, StoreOf(d, a, u), CanFinalize(d),
         NEW v \in Verdict, NEW b \in BOOLEAN, NEW w \in BOOLEAN,
         v.state = "COMPLETED" => v.art /\ b /\ u /\ d.state = "WORKING",
         NEW x, x = Finalized(d, v) \/ x \in TornFinalize(d, v)
  PROVE  Grown(d, x) /\ StoreOf(x, b, w)
<1> DEFINE r == [d EXCEPT !.state = v.state, !.reason = v.reason, !.error = v.error]
           m == IF v.art THEN Logged(r, "artifact") ELSE r
           s == Logged(m, v.state)
           c == [s EXCEPT !.complete = TRUE]
<1>1. /\ d.state \in Active /\ ~d.complete /\ d.log \in Seq(Events) /\ v.state \in Final
      /\ v.art \in BOOLEAN
  BY DEF CanFinalize, Disk, Verdict
<1>2. \A i \in 1..Len(d.log) : d.log[i] \notin Final
  BY <1>1, States DEF StoreOf
<1>3. r \in Disk /\ r.state = v.state /\ r.log = d.log /\ ~r.complete
  BY <1>1 DEF Disk, Verdict
<1> HIDE DEF r
<1>4. v.state = "COMPLETED" => v.art /\ Len(d.log) = 2
  BY DEF StoreOf
<1>5. /\ m \in Disk /\ m.state = v.state /\ ~m.complete
      /\ Len(d.log) <= Len(m.log)
      /\ \A i \in 1..Len(d.log) : m.log[i] = d.log[i]
      /\ \A i \in 1..Len(m.log) : m.log[i] \notin Final
      /\ v.state = "COMPLETED" => Len(m.log) = 3 /\ m.log[3] = "artifact"
  <2>1. CASE v.art
    <3> DEFINE l == Logged(r, "artifact")
    <3>1. Adds(r, "artifact", l)
      BY <1>3, LoggedIs, States
    <3>2. m = l
      BY <2>1
    <3> HIDE DEF l, m
    <3>3. Len(d.log) \in Nat
      BY <1>1
    <3>4. /\ m \in Disk /\ m.state = v.state /\ ~m.complete
          /\ Len(m.log) = Len(d.log) + 1 /\ m.log[Len(d.log) + 1] = "artifact"
          /\ \A i \in 1..Len(d.log) : m.log[i] = d.log[i]
          /\ \A i \in 1..Len(m.log) : i \in 1..Len(d.log) \/ i = Len(d.log) + 1
      BY <1>3, <3>1, <3>2 DEF Adds
    <3>5. \A i \in 1..Len(m.log) : m.log[i] \notin Final
      BY <1>2, <3>4, States
    <3>6. ASSUME v.state = "COMPLETED"
          PROVE  Len(m.log) = 3 /\ m.log[3] = "artifact"
      <4>1. Len(d.log) = 2
        BY <1>4, <3>6
      <4>2. Len(d.log) + 1 = 3
        BY <4>1
      <4> QED
        BY <3>4, <4>2
    <3> QED
      BY <3>3, <3>4, <3>5, <3>6
  <2>2. CASE ~v.art
    <3>1. m = r
      BY <2>2
    <3> HIDE DEF m
    <3> QED
      BY <1>1, <1>2, <1>3, <1>4, <2>2, <3>1
  <2> QED
    BY <1>1, <2>1, <2>2
<1> HIDE DEF m
<1>6. /\ s \in Disk /\ s.state = v.state /\ ~s.complete
      /\ Len(s.log) = Len(m.log) + 1 /\ s.log[Len(m.log) + 1] = v.state
      /\ \A i \in 1..Len(m.log) : s.log[i] = m.log[i]
      /\ \A i \in 1..Len(s.log) : i \in 1..Len(m.log) \/ i = Len(m.log) + 1
  <2>1. v.state \in Events
    BY <1>1, States
  <2>2. Adds(m, v.state, s)
    BY <1>5, <2>1, LoggedIs
  <2> HIDE DEF s
  <2> QED
    BY <1>5, <2>2 DEF Adds
<1> HIDE DEF s
<1>7. c \in Disk /\ c.state = v.state /\ c.complete /\ c.log = s.log
  BY <1>6 DEF Disk
<1> HIDE DEF c
<1>8. /\ FinalizeImages(d, v)[1] = r /\ FinalizeImages(d, v)[2] = m
      /\ FinalizeImages(d, v)[3] = s /\ FinalizeImages(d, v)[4] = c
  BY DEF FinalizeImages, r, m, s, c
<1>9. x \in {r, m, s, c}
  <2>1. \A i \in 1..3 : i = 1 \/ i = 2 \/ i = 3
    OBVIOUS
  <2> QED
    BY <1>8, <2>1 DEF Finalized, TornFinalize
<1>10. Len(d.log) \in Nat /\ Len(m.log) \in Nat
  BY <1>1, <1>5 DEF Disk
<1>11. /\ Len(d.log) <= Len(s.log)
       /\ \A i \in 1..Len(d.log) : s.log[i] = d.log[i]
  BY <1>5, <1>6, <1>10
<1>12. \A i \in 1..Len(s.log) :
         /\ s.log[i] \in Final => v.state = s.log[i]
         /\ s.log[i] = "COMPLETED" => i = 4 /\ s.log[3] = "artifact"
  <2>1. SUFFICES ASSUME NEW i \in 1..Len(s.log)
        PROVE  /\ s.log[i] \in Final => v.state = s.log[i]
               /\ s.log[i] = "COMPLETED" => i = 4 /\ s.log[3] = "artifact"
    OBVIOUS
  <2>2. CASE i \in 1..Len(m.log)
    BY <1>5, <1>6, <2>2, States
  <2>3. CASE i = Len(m.log) + 1
    BY <1>5, <1>6, <2>3
  <2> QED
    BY <1>6, <2>2, <2>3
<1>13. v.state # "NONE" /\ v.state # "SUBMITTED" /\ v.state # "WORKING" /\ d.state \notin Final
  BY <1>1, States
<1>14. ASSUME NEW y \in {r, m, s, c}
       PROVE  Grown(d, y) /\ StoreOf(y, b, w)
  <2>1. CASE y = r
    BY <1>1, <1>2, <1>3, <1>13, <2>1, States DEF Grown, StoreOf
  <2>2. CASE y = m
    BY <1>1, <1>5, <1>13, <2>2, States DEF Grown, StoreOf
  <2>3. CASE y = s
    BY <1>1, <1>6, <1>11, <1>12, <1>13, <2>3 DEF Grown, StoreOf
  <2>4. CASE y = c
    BY <1>1, <1>7, <1>11, <1>12, <1>13, <2>4 DEF Grown, StoreOf
  <2> QED
    BY <2>1, <2>2, <2>3, <2>4
<1> QED
  BY <1>9, <1>14

-----------------------------------------------------------------------------
(* What the client knows ages well *)

LEMMA SeeingStays ==
  ASSUME IInv, Grown(disk, disk'), UNCHANGED <<resume, last, since, seen, broken, tries>>,
         pc' = "done" => pc = "done", pc = "stream" => pc' = "stream"
  PROVE  Seeing'
BY DEF IInv, Seeing, Whole, Reaches, Again, Unbroken, Grown

LEMMA AdvisoryStays ==
  ASSUME IInv, Grown(disk, disk'), UNCHANGED <<resume, last, adv>>
  PROVE  Advisory'
<1>1. Advisory
  BY DEF IInv
<1>2. Len(disk.log) >= 3 => Len(disk'.log) >= 3 /\ disk'.log[3] = disk.log[3]
  <2>1. Len(disk.log) \in Nat /\ Len(disk'.log) \in Nat
    BY DEF IInv, TypeOK, Disk, Grown
  <2> QED
    BY <2>1 DEF Grown
<1> QED
  BY <1>1, <1>2 DEF Advisory, Grown

\* What wait_for_terminal keeps is what it should be.
Waiting ==
  /\ last \in Nat /\ since \in Nat /\ seen \in Seq([seq : Nat, try : Nat]) /\ broken \subseteq Nat
  /\ adv \in Record /\ tries \in Nat
  /\ Seeing /\ Advisory

LEMMA WaitingStays ==
  ASSUME IInv, Grown(disk, disk'), UNCHANGED <<resume, last, since, seen, broken, adv, tries>>,
         pc' = "done" => pc = "done", pc = "stream" => pc' = "stream"
  PROVE  Waiting'
BY SeeingStays, AdvisoryStays DEF IInv, TypeOK, Waiting

LEMMA ReceivedStays ==
  ASSUME IInv, Grown(disk, disk'), UNCHANGED place, UNCHANGED <<code, late>> \/ code' # "deadline"
  PROVE  Received'
BY States DEF IInv, Received, Grown, place

\* A step that is none of reading an event, starting a command and leaving a receipt.
LEMMA StaysInvariant ==
  ASSUME IInv, TypeOK', Grown(disk, disk'), Store',
         UNCHANGED <<resume, last, since, seen, broken, adv, tries>>,
         UNCHANGED place, UNCHANGED <<code, late>> \/ code' # "deadline",
         pc' = "done" => pc = "done", pc = "stream" => pc' = "stream", Streaming', Settled'
  PROVE  IInv'
BY SeeingStays, AdvisoryStays, ReceivedStays DEF IInv

LEMMA StreamingStays ==
  ASSUME IInv, Grown(disk, disk'), UNCHANGED <<last, pc>>,
         conn' \in Conn, conn'.wire = conn.wire, conn'.last = conn.last, conn'.srv = conn.srv
  PROVE  Streaming'
<1>1. SUFFICES ASSUME pc = "stream"
      PROVE  /\ \A i \in 1..Len(conn'.wire) : Follows(i)'
             /\ conn'.srv # "closed" => conn'.last = last + Len(conn'.wire)
             /\ conn'.srv = "flush" => disk'.complete
  BY DEF Streaming
<1>2. /\ \A i \in 1..Len(conn.wire) : Follows(i)
      /\ conn.srv # "closed" => conn.last = last + Len(conn.wire)
      /\ conn.srv = "flush" => disk.complete
  BY <1>1 DEF IInv, Streaming
<1>3. /\ last \in Nat /\ Len(disk.log) \in Nat /\ Len(disk'.log) \in Nat
      /\ Len(conn.wire) \in Nat
  BY DEF IInv, TypeOK, Disk, Grown, Conn
<1>4. ASSUME NEW i \in 1..Len(conn.wire)
      PROVE  Follows(i)'
  <2>1. Follows(i)
    BY <1>2
  <2>2. CASE conn.wire[i].event = "done"
    BY <2>1, <2>2 DEF Follows, Grown
  <2>3. CASE conn.wire[i].event # "done"
    <3>1. /\ conn.wire[i].seq = last + i /\ last + i <= Len(disk.log)
          /\ conn.wire[i].event = disk.log[last + i]
      BY <2>1, <2>3 DEF Follows
    <3>2. last + i \in 1..Len(disk.log) /\ last + i <= Len(disk'.log)
      BY <1>3, <3>1 DEF Grown
    <3>3. disk'.log[last + i] = disk.log[last + i]
      BY <3>2 DEF Grown
    <3> QED
      BY <2>3, <3>1, <3>2, <3>3 DEF Follows
  <2> QED
    BY <2>2, <2>3
<1> QED
  BY <1>2, <1>4 DEF Grown

LEMMA SettledStays ==
  ASSUME IInv, Grown(disk, disk'), UNCHANGED <<pc, got, resume, staged, meta, code>>, late => late'
  PROVE  Settled'
BY DEF IInv, Settled, Grown

-----------------------------------------------------------------------------
(* The runner *)

LEMMA ClosedIs == Closed \in Conn /\ Closed.srv = "closed" /\ Len(Closed.wire) = 0
<1>1. <<>> \in Seq(Frame) /\ Len(<<>>) = 0
  OBVIOUS
<1> QED
  BY <1>1 DEF Closed, Conn

LEMMA RunnerInvariant ==
  ASSUME IInv, Grown(disk, disk'), Store', UNCHANGED Client, inline' \in BOOLEAN, up' \in BOOLEAN,
         restarts' \in Nat, conn' \in {conn, [conn EXCEPT !.woken = TRUE], Closed}
  PROVE  IInv'
<1>1. /\ UNCHANGED <<pc, cmd, runs, resume, last, since, seen, broken, adv, tries>>
      /\ UNCHANGED <<late, before, got, code, staged, meta>> /\ UNCHANGED place
  BY DEF Client, waiting, heard, ending, place
<1>2. conn \in Conn
  BY DEF IInv, TypeOK
<1>3. conn' \in Conn
  BY <1>2, ClosedIs DEF Conn
<1>4. TypeOK'
  BY <1>1, <1>3 DEF IInv, TypeOK, Grown
<1>5. Streaming'
  <2>1. CASE conn' = Closed
    <3>1. \A i \in 1..Len(conn'.wire) : Follows(i)'
      BY <2>1, ClosedIs
    <3>2. conn'.srv = "closed"
      BY <2>1, ClosedIs
    <3> QED
      BY <3>1, <3>2 DEF Streaming
  <2>2. CASE conn' # Closed
    <3>1. conn'.wire = conn.wire /\ conn'.last = conn.last /\ conn'.srv = conn.srv
      BY <1>2, <2>2 DEF Conn
    <3> QED
      BY <1>1, <1>3, <3>1, StreamingStays
  <2> QED
    BY <2>1, <2>2
<1>6. Settled'
  BY <1>1, SettledStays
<1> QED
  BY <1>1, <1>4, <1>5, <1>6, StaysInvariant

LEMMA StoredIs ==
  ASSUME NEW d, Stored(d)
  PROVE  disk' = d /\ conn' \in {conn, [conn EXCEPT !.woken = TRUE], Closed}
BY DEF Stored

LEMMA VerdictIs ==
  /\ \A v \in Settlements : v \in Verdict /\ (v.state = "COMPLETED" => v.art)
  /\ [state |-> "FAILED", reason |-> "runner_restart", error |-> "none", art |-> FALSE] \in Verdict
  /\ [state |-> "CANCELED", reason |-> "cancel_task", error |-> "cleaned", art |-> FALSE] \in Verdict
<1>1. ASSUME NEW s \in {"COMPLETED", "INPUT_REQUIRED"},
             NEW v, v = [state |-> s, reason |-> "process_exit", error |-> "none", art |-> TRUE]
      PROVE  v \in Verdict /\ v.art
  BY <1>1 DEF Verdict, Final, Reasons, Errors
<1>2. ASSUME NEW a \in BOOLEAN, NEW v,
             v = [state |-> "FAILED", reason |-> "process_exit", error |-> "none", art |-> a]
      PROVE  v \in Verdict /\ v.state # "COMPLETED"
  BY <1>2 DEF Verdict, Final, Reasons, Errors
<1>3. ASSUME NEW why \in {"deadline", "runner_stop", "cancel_task"}, NEW v,
             v = [state |-> "CANCELED", reason |-> why, error |-> "terminated", art |-> FALSE]
      PROVE  v \in Verdict /\ v.state # "COMPLETED"
  BY <1>3 DEF Verdict, Final, Reasons, Errors
<1>4. ASSUME NEW v \in Settlements
      PROVE  v \in Verdict /\ (v.state = "COMPLETED" => v.art)
  <2>1. \/ \E s \in {"COMPLETED", "INPUT_REQUIRED"} :
             v = [state |-> s, reason |-> "process_exit", error |-> "none", art |-> TRUE]
        \/ \E a \in BOOLEAN :
             v = [state |-> "FAILED", reason |-> "process_exit", error |-> "none", art |-> a]
        \/ \E why \in {"deadline", "runner_stop", "cancel_task"} :
             v = [state |-> "CANCELED", reason |-> why, error |-> "terminated", art |-> FALSE]
    BY Zenon DEF Settlements
  <2> QED
    BY <1>1, <1>2, <1>3, <2>1
<1>5. /\ [state |-> "FAILED", reason |-> "runner_restart", error |-> "none", art |-> FALSE] \in Verdict
      /\ [state |-> "CANCELED", reason |-> "cancel_task", error |-> "cleaned", art |-> FALSE] \in Verdict
  BY DEF Verdict, Final, Reasons, Errors
<1> QED
  BY <1>4, <1>5

\* What a finalization does, all of it or, in a crash, a part.
LEMMA FinalInvariant ==
  ASSUME IInv, NEW v \in Verdict, CanFinalize(disk),
         disk' = Finalized(disk, v) \/ disk' \in TornFinalize(disk, v),
         v.state = "COMPLETED" => v.art /\ inline' /\ up /\ disk.state = "WORKING",
         UNCHANGED Client, inline' \in BOOLEAN, up' \in BOOLEAN, restarts' \in Nat,
         conn' \in {conn, [conn EXCEPT !.woken = TRUE], Closed}
  PROVE  IInv'
<1>1. disk \in Disk /\ inline \in BOOLEAN /\ up \in BOOLEAN /\ StoreOf(disk, inline, up)
  BY DEF IInv, TypeOK, Store
<1>2. Grown(disk, disk') /\ StoreOf(disk', inline', up')
  BY <1>1, FinalizeGrows
<1> QED
  BY <1>2, RunnerInvariant DEF Store

LEMMA RunnerClaimInvariant ==
  ASSUME IInv, RunnerClaim
  PROVE  IInv'
<1>1. /\ up /\ disk' = Claimed(disk) /\ UNCHANGED <<inline, up, restarts>> /\ UNCHANGED Client
      /\ conn' \in {conn, [conn EXCEPT !.woken = TRUE], Closed}
  BY StoredIs DEF RunnerClaim, Client
<1>2. /\ disk \in Disk /\ inline \in BOOLEAN /\ up = TRUE /\ StoreOf(disk, inline, TRUE)
      /\ restarts \in Nat
  BY <1>1 DEF IInv, TypeOK, Store
<1>3. Grown(disk, disk') /\ StoreOf(disk', inline', up')
  BY <1>1, <1>2, ClaimGrows
<1> QED
  BY <1>1, <1>2, <1>3, RunnerInvariant DEF Store

LEMMA RunnerSettleInvariant ==
  ASSUME IInv, RunnerSettle
  PROVE  IInv'
<1>1. PICK v \in Settlements :
        /\ disk.state = "SUBMITTED" => ~v.art /\ v.state # "COMPLETED"
        /\ Stored(Finalized(disk, v))
        /\ inline' = v.art
  BY DEF RunnerSettle
<1>2. up /\ CanFinalize(disk) /\ UNCHANGED <<up, restarts>> /\ UNCHANGED Client
  BY DEF RunnerSettle, Client
<1>3. disk' = Finalized(disk, v) /\ conn' \in {conn, [conn EXCEPT !.woken = TRUE], Closed}
  BY <1>1, StoredIs
<1>4. v \in Verdict /\ v.art \in BOOLEAN /\ up \in BOOLEAN /\ restarts \in Nat
  BY VerdictIs DEF Verdict, IInv, TypeOK
<1>5. v.state = "COMPLETED" => v.art /\ inline' /\ disk.state = "WORKING"
  <2>1. v.state = "COMPLETED" => v.art
    BY VerdictIs
  <2>2. disk.state = "SUBMITTED" \/ disk.state = "WORKING"
    BY <1>2 DEF CanFinalize, Active
  <2> QED
    BY <1>1, <2>1, <2>2
<1> QED
  BY <1>1, <1>2, <1>3, <1>4, <1>5, FinalInvariant

LEMMA CancelSettlesInvariant ==
  ASSUME IInv, CancelSettles
  PROVE  IInv'
<1> DEFINE v == [state |-> "CANCELED", reason |-> "cancel_task", error |-> "cleaned", art |-> FALSE]
<1>1. /\ CanFinalize(disk) /\ UNCHANGED <<inline, up, restarts>> /\ UNCHANGED Client
      /\ Stored(Finalized(disk, v))
  BY DEF CancelSettles, Client
<1>2. disk' = Finalized(disk, v) /\ conn' \in {conn, [conn EXCEPT !.woken = TRUE], Closed}
  BY <1>1, StoredIs
<1>3. v \in Verdict /\ v.state # "COMPLETED"
  BY VerdictIs
<1>4. inline \in BOOLEAN /\ up \in BOOLEAN /\ restarts \in Nat
  BY DEF IInv, TypeOK
<1> HIDE DEF v
<1> QED
  BY <1>1, <1>2, <1>3, <1>4, FinalInvariant

LEMMA RunnerRecoverInvariant ==
  ASSUME IInv, RunnerRecover
  PROVE  IInv'
<1> DEFINE v == [state |-> "FAILED", reason |-> "runner_restart", error |-> "none", art |-> FALSE]
<1>1. /\ up' = TRUE /\ UNCHANGED <<inline, restarts, conn>> /\ UNCHANGED Client
      /\ disk' = Finalized(disk, v)
  BY DEF RunnerRecover, Client
<1>2. v \in Verdict /\ v.state # "COMPLETED"
  BY VerdictIs
<1>3. inline \in BOOLEAN /\ restarts \in Nat /\ disk \in Disk /\ Store
  BY DEF IInv, TypeOK
<1> HIDE DEF v
<1>4. CASE CanFinalize(disk)
  BY <1>1, <1>2, <1>3, <1>4, FinalInvariant
<1>5. CASE ~CanFinalize(disk)
  <2>1. disk' = disk
    BY <1>1, <1>5 DEF Finalized
  <2>2. Grown(disk, disk')
    BY <1>3, <2>1, SameGrows
  <2>3. disk.state \notin Active
    BY <1>3, <1>5, States DEF CanFinalize, Store, StoreOf
  <2>4. StoreOf(disk', inline', up')
    BY <1>1, <1>3, <2>1, <2>3, States DEF Store, StoreOf
  <2> QED
    BY <1>1, <1>3, <2>2, <2>4, RunnerInvariant DEF Store
<1> QED
  BY <1>4, <1>5

LEMMA RunnerCrashInvariant ==
  ASSUME IInv, RunnerCrash
  PROVE  IInv'
<1>1. /\ up /\ up' = FALSE /\ restarts' = restarts + 1 /\ conn' = Closed /\ UNCHANGED Client
  BY DEF RunnerCrash, Client
<1>2. /\ disk \in Disk /\ inline \in BOOLEAN /\ restarts' \in Nat /\ StoreOf(disk, inline, TRUE)
      /\ up \in BOOLEAN
  <2>1. /\ disk \in Disk /\ inline \in BOOLEAN /\ restarts \in Nat /\ up \in BOOLEAN
        /\ StoreOf(disk, inline, up)
    BY DEF IInv, TypeOK, Store
  <2>2. up = TRUE
    BY <1>1, <2>1
  <2>3. StoreOf(disk, inline, TRUE)
    BY <2>1, <2>2, Zenon
  <2>4. restarts' \in Nat
    BY <1>1, <2>1
  <2> QED
    BY <2>1, <2>3, <2>4
<1>3. CASE UNCHANGED <<disk, inline>>
  <2>1. Grown(disk, disk')
    BY <1>2, <1>3, SameGrows
  <2>2. StoreOf(disk', inline', up')
    BY <1>1, <1>2, <1>3 DEF StoreOf
  <2> QED
    BY <1>1, <1>2, <1>3, <2>1, <2>2, RunnerInvariant DEF Store
<1>4. CASE disk' \in TornCreate(disk) \cup TornClaim(disk) /\ UNCHANGED inline
  <2>1. Grown(disk, disk') /\ StoreOf(disk', inline, FALSE)
    BY <1>2, <1>4, CreateGrows, ClaimGrows
  <2> QED
    BY <1>1, <1>2, <1>4, <2>1, RunnerInvariant DEF Store
<1>5. ASSUME NEW v \in Settlements, disk.state = "WORKING", disk' \in TornFinalize(disk, v),
             inline' = v.art
      PROVE  IInv'
  <2>1. /\ v \in Verdict /\ v.art \in BOOLEAN /\ (v.state = "COMPLETED" => v.art)
    BY VerdictIs DEF Verdict
  <2>2. CanFinalize(disk)
    BY <1>5 DEF TornFinalize
  <2> QED
    BY <1>1, <1>2, <1>5, <2>1, <2>2, FinalInvariant
<1> QED
  BY <1>3, <1>4, <1>5 DEF RunnerCrash

-----------------------------------------------------------------------------
(* The stream handler *)

LEMMA HandlerInvariant ==
  ASSUME IInv, UNCHANGED remote, UNCHANGED Client, conn' \in Conn, Streaming'
  PROVE  IInv'
<1>1. /\ UNCHANGED <<disk, inline, up, restarts>>
      /\ UNCHANGED <<pc, cmd, runs, resume, last, since, seen, broken, adv, tries>>
      /\ UNCHANGED <<late, before, got, code, staged, meta>> /\ UNCHANGED place
  BY DEF remote, Client, waiting, heard, ending, place
<1>2. TypeOK'
  BY <1>1 DEF IInv, TypeOK
<1>3. Grown(disk, disk')
  BY <1>1, SameGrows DEF IInv, TypeOK
<1>4. Store'
  BY <1>1 DEF IInv, Store, StoreOf
<1>5. Settled'
  BY <1>1, <1>3, SettledStays
<1> QED
  BY <1>1, <1>2, <1>3, <1>4, <1>5, StaysInvariant

\* A place behind the first x of x + n is a place of its own in the n, and in the l
\* of which a are done.
LEMMA PastThePrefix ==
  ASSUME NEW x \in Nat, NEW n \in Nat, NEW a \in Nat, NEW l \in Nat, n = l - a,
         NEW i \in 1..(x + n), i \notin 1..x
  PROVE  i - x \in 1..n /\ a + i - x \in 1..l /\ a + i - x = a + (i - x)
OBVIOUS

\* What a drained handler has written: the events the log has and it had not sent.
LEMMA DrainedIs ==
  ASSUME IInv, NEW c, c = Drained(conn)
  PROVE  /\ c \in Conn /\ c.srv = conn.srv
         /\ Len(disk.log) <= c.last
         /\ c.last - conn.last = Len(c.wire) - Len(conn.wire)
         /\ \A i \in 1..Len(conn.wire) : c.wire[i] = conn.wire[i]
         /\ \A i \in 1..Len(c.wire) :
              \/ i \in 1..Len(conn.wire)
              \/ LET k == conn.last + i - Len(conn.wire) IN
                   k \in 1..Len(disk.log) /\ c.wire[i].seq = k /\ c.wire[i].event = disk.log[k]
<1>1. conn \in Conn /\ disk.log \in Seq(Events) /\ Len(disk.log) \in Nat
  BY DEF IInv, TypeOK, Disk
<1>2. conn.wire \in Seq(Frame) /\ conn.last \in Nat /\ Len(conn.wire) \in Nat
  BY <1>1 DEF Conn
<1>3. CASE Len(disk.log) > conn.last
  <2> DEFINE n == Len(disk.log) - conn.last
             f == Frames(conn.last)
             w == conn.wire \o f
  <2>1. n \in Nat /\ n = Len(disk.log) - conn.last
    BY <1>1, <1>2, <1>3
  <2>2. ASSUME NEW i \in 1..n
        PROVE  [seq |-> conn.last + i, event |-> disk.log[conn.last + i]] \in Frame
    <3>1. conn.last + i \in 1..Len(disk.log)
      BY <1>1, <1>2, <2>1
    <3> QED
      BY <1>1, <3>1 DEF Frame
  <2>3. f = [i \in 1..n |-> [seq |-> conn.last + i, event |-> disk.log[conn.last + i]]]
    BY DEF Frames
  <2> HIDE DEF n, f
  <2>4. f \in Seq(Frame) /\ Len(f) = n
    BY <2>1, <2>2, <2>3
  <2>5. /\ w \in Seq(Frame) /\ Len(w) = Len(conn.wire) + n
        /\ \A i \in 1..Len(conn.wire) : w[i] = conn.wire[i]
        /\ \A i \in 1..Len(w) : i \notin 1..Len(conn.wire) => w[i] = f[i - Len(conn.wire)]
    BY <1>2, <2>1, <2>4
  <2>6. c = [conn EXCEPT !.wire = w, !.last = Len(disk.log)]
    BY <1>3 DEF Drained, f
  <2> HIDE DEF w
  <2>7. c \in Conn /\ c.srv = conn.srv /\ c.wire = w /\ c.last = Len(disk.log)
    BY <1>1, <2>5, <2>6 DEF Conn
  <2>8. ASSUME NEW i \in 1..Len(w), i \notin 1..Len(conn.wire),
               NEW k, k = conn.last + i - Len(conn.wire)
        PROVE  k \in 1..Len(disk.log) /\ w[i].seq = k /\ w[i].event = disk.log[k]
    <3>0. i \in 1..(Len(conn.wire) + n)
      BY <2>5, <2>8
    <3>1. /\ i - Len(conn.wire) \in 1..n
          /\ conn.last + i - Len(conn.wire) \in 1..Len(disk.log)
          /\ conn.last + i - Len(conn.wire) = conn.last + (i - Len(conn.wire))
      BY <1>1, <1>2, <2>1, <2>8, <3>0, PastThePrefix
    <3>2. w[i] = [seq |-> conn.last + (i - Len(conn.wire)),
                  event |-> disk.log[conn.last + (i - Len(conn.wire))]]
      BY <2>3, <2>5, <2>8, <3>1
    <3>3. k \in 1..Len(disk.log) /\ k = conn.last + (i - Len(conn.wire))
      BY <2>8, <3>1
    <3> QED
      BY <3>1, <3>2, <3>3
  <2>9. /\ Len(disk.log) <= c.last
        /\ c.last - conn.last = Len(c.wire) - Len(conn.wire)
    <3>1. Len(c.wire) = Len(conn.wire) + n /\ c.last = Len(disk.log)
      BY <2>5, <2>7
    <3> QED
      BY <1>1, <1>2, <2>1, <3>1
  <2>10. \A i \in 1..Len(c.wire) :
           \/ i \in 1..Len(conn.wire)
           \/ LET k == conn.last + i - Len(conn.wire) IN
                k \in 1..Len(disk.log) /\ c.wire[i].seq = k /\ c.wire[i].event = disk.log[k]
    BY <2>7, <2>8
  <2> QED
    BY <2>5, <2>7, <2>9, <2>10
<1>4. CASE ~(Len(disk.log) > conn.last)
  BY <1>1, <1>2, <1>4 DEF Drained
<1> QED
  BY <1>3, <1>4

LEMMA DrainedFollows ==
  ASSUME IInv, pc = "stream", conn.srv # "closed", NEW c, c = Drained(conn)
  PROVE  /\ c.last = last + Len(c.wire)
         /\ \A i \in 1..Len(c.wire) :
              /\ c.wire[i].event # "done"
              /\ c.wire[i].seq = last + i /\ last + i <= Len(disk.log)
              /\ c.wire[i].event = disk.log[last + i]
<1>1. /\ conn.last = last + Len(conn.wire)
      /\ \A i \in 1..Len(conn.wire) : Follows(i)
  BY DEF IInv, Streaming
<1>2. /\ last \in Nat /\ Len(conn.wire) \in Nat /\ c \in Conn /\ Len(c.wire) \in Nat
      /\ disk.log \in Seq(Events) /\ conn.last \in Nat /\ c.last \in Nat /\ Len(disk.log) \in Nat
  <2>1. last \in Nat /\ conn \in Conn /\ disk.log \in Seq(Events)
    BY DEF IInv, TypeOK, Disk
  <2>2. c \in Conn
    BY DrainedIs
  <2> QED
    BY <2>1, <2>2 DEF Conn
<1>3. c.last - conn.last = Len(c.wire) - Len(conn.wire)
  BY DrainedIs
<1> DEFINE n == Len(conn.wire)
<1>4. n \in Nat
  BY <1>2
<1> HIDE DEF n
<1>5. conn.last = last + n
  BY <1>1 DEF n
<1>6. ASSUME NEW i \in 1..Len(c.wire)
      PROVE  /\ c.wire[i].event # "done"
             /\ c.wire[i].seq = last + i /\ last + i <= Len(disk.log)
             /\ c.wire[i].event = disk.log[last + i]
  <2>1. CASE i \in 1..Len(conn.wire)
    <3>1. c.wire[i] = conn.wire[i] /\ Follows(i)
      BY <1>1, <2>1, DrainedIs
    <3> QED
      BY <3>1 DEF Follows
  <2>2. CASE i \notin 1..Len(conn.wire)
    <3> DEFINE k == conn.last + i - Len(conn.wire)
    <3>1. k \in 1..Len(disk.log) /\ c.wire[i].seq = k /\ c.wire[i].event = disk.log[k]
      BY <2>2, DrainedIs
    <3>2. k = last + n + i - n
      BY <1>5 DEF n
    <3>3. k = last + i
      BY <1>2, <1>6, <3>2, <1>4
    <3>4. disk.log[k] \in Events
      BY <1>2, <3>1
    <3> HIDE DEF k
    <3> QED
      BY <1>2, <3>1, <3>4, <3>3, States
  <2> QED
    BY <2>1, <2>2
<1>7. c.last = last + Len(c.wire)
  <2> DEFINE m == Len(c.wire)
  <2>1. m \in Nat /\ c.last - (last + n) = m - n
    BY <1>2, <1>3, <1>5 DEF n
  <2> HIDE DEF m
  <2>2. c.last = last + m
    BY <1>2, <1>4, <2>1
  <2> QED
    BY <2>2 DEF m
<1> QED
  BY <1>6, <1>7

LEMMA StreamEventsInvariant ==
  ASSUME IInv, StreamEvents
  PROVE  IInv'
<1> DEFINE c == Drained(conn)
<1>1. /\ conn.srv = "events" /\ UNCHANGED remote /\ UNCHANGED Client
      /\ conn' = [c EXCEPT !.srv = "check"]
      /\ UNCHANGED <<disk, pc, last>>
  BY DEF StreamEvents, StreamAt, remote, Client, waiting, heard
<1>2. c \in Conn
  BY DrainedIs
<1>3. ASSUME pc = "stream"
      PROVE  /\ c.last = last + Len(c.wire)
             /\ \A i \in 1..Len(c.wire) :
                  /\ c.wire[i].event # "done"
                  /\ c.wire[i].seq = last + i /\ last + i <= Len(disk.log)
                  /\ c.wire[i].event = disk.log[last + i]
  BY <1>1, <1>3, DrainedFollows
<1> HIDE DEF c
<1>4. conn' \in Conn /\ conn'.wire = c.wire /\ conn'.last = c.last /\ conn'.srv = "check"
  BY <1>1, <1>2 DEF Conn
<1>5. ASSUME pc = "stream", NEW i \in 1..Len(c.wire)
      PROVE  Follows(i)'
  BY <1>1, <1>3, <1>4, <1>5 DEF Follows
<1>6. Streaming'
  BY <1>1, <1>3, <1>4, <1>5 DEF Streaming
<1> QED
  BY <1>1, <1>4, <1>6, HandlerInvariant

LEMMA StreamDoneInvariant ==
  ASSUME IInv, StreamDone
  PROVE  IInv'
<1> DEFINE c == Drained(conn)
           f == [seq |-> 0, event |-> "done"]
           w == Append(c.wire, f)
           x == [c EXCEPT !.srv = "closed"]
<1>1. /\ conn.srv = "flush" /\ UNCHANGED remote /\ UNCHANGED Client
      /\ conn' = [c EXCEPT !.srv = "closed", !.wire = w]
      /\ UNCHANGED <<disk, pc, last>>
  BY DEF StreamDone, StreamAt, remote, Client, waiting, heard
<1>2. c \in Conn /\ Len(disk.log) <= c.last
  BY DrainedIs
<1>3. ASSUME pc = "stream"
      PROVE  /\ c.last = last + Len(c.wire)
             /\ \A i \in 1..Len(c.wire) :
                  /\ c.wire[i].event # "done"
                  /\ c.wire[i].seq = last + i /\ last + i <= Len(disk.log)
                  /\ c.wire[i].event = disk.log[last + i]
             /\ disk.complete
  BY <1>1, <1>3, DrainedFollows DEF IInv, Streaming
<1> HIDE DEF c
<1>4. f \in Frame /\ f.event = "done"
  BY DEF Frame
<1> HIDE DEF f
<1>5. /\ w \in Seq(Frame) /\ Len(w) = Len(c.wire) + 1 /\ w[Len(c.wire) + 1] = f
      /\ \A i \in 1..Len(c.wire) : w[i] = c.wire[i]
      /\ \A i \in 1..Len(w) : i \in 1..Len(c.wire) \/ i = Len(c.wire) + 1
      /\ Len(c.wire) \in Nat
  <2>1. c.wire \in Seq(Frame)
    BY <1>2 DEF Conn
  <2> QED
    BY <1>4, <2>1
<1> HIDE DEF w
<1>6. conn' \in Conn /\ conn'.wire = w /\ conn'.srv = "closed"
  BY <1>1, <1>2, <1>5 DEF Conn
<1>7. last \in Nat /\ Len(disk.log) \in Nat
  BY DEF IInv, TypeOK, Disk
<1>8. ASSUME pc = "stream", NEW i \in 1..Len(w)
      PROVE  Follows(i)'
  <2>1. CASE i \in 1..Len(c.wire)
    BY <1>1, <1>3, <1>5, <1>6, <1>8, <2>1 DEF Follows
  <2>2. CASE i = Len(c.wire) + 1
    <3>1. i = Len(w) /\ w[i].event = "done" /\ Len(disk.log) <= last + i - 1
      BY <1>2, <1>3, <1>4, <1>5, <1>7, <1>8, <2>2
    <3> QED
      BY <1>1, <1>3, <1>6, <1>8, <3>1 DEF Follows
  <2> QED
    BY <1>5, <2>1, <2>2
<1>9. Streaming'
  BY <1>1, <1>6, <1>8 DEF Streaming
<1> QED
  BY <1>1, <1>6, <1>9, HandlerInvariant

\* A handler that writes nothing.
LEMMA QuietInvariant ==
  ASSUME IInv, conn.srv # "closed", UNCHANGED remote, UNCHANGED Client, conn' \in Conn,
         conn'.wire = conn.wire, conn'.last = conn.last,
         conn'.srv = "flush" => disk.complete
  PROVE  IInv'
<1>1. UNCHANGED <<disk, pc, last>>
  BY DEF remote, Client, waiting, heard
<1>2. ASSUME pc = "stream", NEW i \in 1..Len(conn.wire)
      PROVE  Follows(i)'
  <2>1. Follows(i)
    BY <1>2 DEF IInv, Streaming
  <2>2. conn.wire[i].event # "done"
    BY <2>1 DEF Follows
  <2> QED
    BY <1>1, <2>1, <2>2 DEF Follows
<1>3. Streaming'
  BY <1>1, <1>2 DEF IInv, Streaming
<1> QED
  BY <1>3, HandlerInvariant

LEMMA StreamWaitsInvariant ==
  ASSUME IInv, StreamCheck \/ StreamClear \/ StreamWake \/ StreamExpires
  PROVE  IInv'
<1>1. conn \in Conn
  BY DEF IInv, TypeOK
<1>2. CASE StreamCheck
  BY <1>1, <1>2, QuietInvariant DEF StreamCheck, StreamAt, Conn
<1>3. CASE StreamClear
  BY <1>1, <1>3, QuietInvariant DEF StreamClear, StreamAt, Conn
<1>4. CASE StreamWake
  BY <1>1, <1>4, QuietInvariant DEF StreamWake, StreamAt, Conn
<1>5. CASE StreamExpires
  BY <1>1, <1>5, QuietInvariant DEF StreamExpires, StreamAt, Conn
<1> QED
  BY <1>2, <1>3, <1>4, <1>5

-----------------------------------------------------------------------------
(* The client: its commands and the waiting *)

LEMMA RecordIs ==
  /\ disk \in Disk /\ inline \in BOOLEAN =>
       /\ Remote \in Record /\ Remote.state = disk.state /\ Remote.reason = disk.reason
       /\ (Remote.art <=> inline) /\ Remote.reason # "client_deadline"
  /\ NoRecord \in Record /\ NoRecord.state = "NONE" /\ NoRecord.reason = "remote_terminal"
<1>1. NoRecord \in Record /\ NoRecord.state = "NONE" /\ NoRecord.reason = "remote_terminal"
  BY DEF NoRecord, Record
<1>2. ASSUME disk \in Disk, inline \in BOOLEAN
      PROVE  /\ Remote \in Record /\ Remote.state = disk.state /\ Remote.reason = disk.reason
             /\ (Remote.art <=> inline) /\ Remote.reason # "client_deadline"
  <2>1. disk.state \in {"NONE"} \cup Active \cup Final /\ disk.reason \in Reasons
    BY <1>2 DEF Disk
  <2>2. disk.reason # "client_deadline"
    BY <2>1 DEF Reasons
  <2> QED
    BY <1>2, <2>1, <2>2 DEF Remote, Local, Record
<1> QED
  BY <1>1, <1>2

\* The deadline of the client, put over the reason of a record, changes nothing else.
LEMMA AttributedIs ==
  ASSUME NEW r \in Record
  PROVE  /\ Attributed(r) \in Record /\ Attributed(r).state = r.state
         /\ (Attributed(r).art <=> r.art)
BY DEF Attributed, Record

\* A step of the client after which no stream is open.
LEMMA ClientInvariant ==
  ASSUME IInv, UNCHANGED remote, UNCHANGED <<cmd, runs, resume>>, UNCHANGED place,
         conn' \in Conn, pc' \in PCs, pc' # "stream", Waiting',
         late' \in BOOLEAN, before' \in BOOLEAN, got' \in Record,
         code' \in {"none", "ok", "error"}, Settled'
  PROVE  IInv'
<1>1. UNCHANGED <<disk, inline, up, restarts>> /\ UNCHANGED <<staged, meta>>
  BY DEF remote, place
<1>2. TypeOK'
  BY <1>1 DEF IInv, TypeOK, Waiting
<1>3. Grown(disk, disk') /\ Store'
  BY <1>1, SameGrows DEF IInv, TypeOK, Store, StoreOf
<1>4. Streaming' /\ code' # "deadline"
  BY DEF Streaming
<1>5. Received'
  BY <1>3, <1>4, ReceivedStays
<1> QED
  BY <1>2, <1>3, <1>4, <1>5 DEF IInv, Waiting

\* Nothing has been seen of a wait that starts, or is over.
LEMMA AfreshIs ==
  ASSUME NEW n \in Nat, Afresh(n), resume' = n, pc' # "done"
  PROVE  Waiting'
<1>1. /\ last' = n /\ since' = n /\ seen' = <<>> /\ broken' = {} /\ adv' = NoRecord /\ tries' = 0
  BY DEF Afresh
<1>2. seen' \in Seq([seq : Nat, try : Nat]) /\ Len(seen') = 0
  <2>1. <<>> \in Seq([seq : Nat, try : Nat]) /\ Len(<<>>) = 0
    OBVIOUS
  <2> QED
    BY <1>1, <2>1
<1>3. \A i \in 1..Len(seen') : FALSE
  BY <1>2
<1>4. (\A i \in n+1 .. n : FALSE) /\ n <= n
  OBVIOUS
<1>5. Whole' /\ Again' /\ Unbroken'
  BY <1>3, Zenon DEF Whole, Again, Unbroken
<1>6. Reaches'
  BY <1>1, <1>4 DEF Reaches
<1>7. Seeing'
  BY <1>1, <1>4, <1>5, <1>6 DEF Seeing
<1>8. Advisory'
  BY <1>1, RecordIs, States DEF Advisory
<1> QED
  BY <1>1, <1>2, <1>7, <1>8, RecordIs DEF Waiting

LEMMA ElementsOf ==
  ASSUME NEW S, NEW s \in Seq(S)
  PROVE  \A i \in 1..Len(s) : s[i] \in S
OBVIOUS

LEMMA SeenIs ==
  ASSUME NEW s \in Seq([seq : Nat, try : Nat])
  PROVE  \A i \in 1..Len(s) : s[i].seq \in Nat
<1>1. \A i \in 1..Len(s) : s[i] \in [seq : Nat, try : Nat]
  BY ElementsOf, Zenon
<1>2. \A e \in [seq : Nat, try : Nat] : e.seq \in Nat
  OBVIOUS
<1> QED
  BY <1>1, <1>2

\* A step of the client that does not touch the wait.
LEMMA WaitingSame ==
  ASSUME IInv, UNCHANGED disk, UNCHANGED <<resume, last, since, seen, broken, adv, tries>>,
         pc' = "done" => pc = "done", pc = "stream" => pc' = "stream"
  PROVE  Waiting'
BY SameGrows, WaitingStays DEF IInv, TypeOK

LEMMA ClientStartInvariant ==
  ASSUME IInv, ClientStart
  PROVE  IInv'
<1>1. /\ cmd' \in Commands /\ runs' = runs + 1 /\ resume' \in Nat /\ Afresh(resume')
      /\ late' = FALSE /\ before' = FALSE /\ got' = NoRecord /\ code' = "none"
      /\ UNCHANGED <<disk, inline, up, restarts, conn, staged, meta>>
  BY ResumesAssumption DEF ClientStart, remote, place
<1>2. pc' \in {"send", "get", "connect"}
  BY DEF ClientStart, Commands
<1>3. pc' \in PCs
  BY <1>2 DEF PCs
<1>4. Waiting'
  BY <1>1, <1>2, AfreshIs
<1>5. TypeOK'
  <2>1. got' \in Record
    BY <1>1, RecordIs
  <2>2. runs' \in Nat
    BY <1>1 DEF IInv, TypeOK
  <2>3. late' \in BOOLEAN /\ before' \in BOOLEAN
    BY <1>1
  <2> QED
    BY <1>1, <1>3, <1>4, <2>1, <2>2, <2>3 DEF IInv, TypeOK, Waiting
<1>6. Store'
  BY <1>1 DEF IInv, Store, StoreOf
<1>7. Streaming'
  BY <1>2 DEF Streaming
<1>8. Settled' /\ Received'
  BY <1>1, <1>2 DEF IInv, Settled, Received
<1> QED
  BY <1>4, <1>5, <1>6, <1>7, <1>8 DEF IInv, Waiting

LEMMA ClientDiesInvariant ==
  ASSUME IInv, ClientDies
  PROVE  IInv'
<1>1. /\ pc' = "off" /\ code' = "error" /\ conn' = Closed /\ UNCHANGED remote /\ UNCHANGED place
      /\ UNCHANGED <<cmd, runs, resume, late, before, got>> /\ Afresh(resume)
  BY DEF ClientDies, End
<1>2. Settled'
  BY <1>1 DEF Settled
<1>3. pc' \in PCs
  BY <1>1 DEF PCs
<1>4. Waiting'
  BY <1>1, AfreshIs DEF IInv, TypeOK
<1> QED
  BY <1>1, <1>2, <1>3, <1>4, ClosedIs, ClientInvariant DEF IInv, TypeOK

LEMMA DeadlineInvariant ==
  ASSUME IInv, Deadline
  PROVE  IInv'
<1>1. /\ pc # "off" /\ late' = TRUE
      /\ UNCHANGED <<disk, inline, up, restarts, conn, pc, cmd, runs>>
      /\ UNCHANGED <<resume, last, since, seen, broken, adv, tries>>
      /\ UNCHANGED <<before, got, code, staged, meta>> /\ UNCHANGED place
  BY DEF Deadline, remote, waiting, heard, ending, place
<1>2. TypeOK'
  BY <1>1 DEF IInv, TypeOK
<1>3. Grown(disk, disk') /\ Store' /\ conn' \in Conn
  BY <1>1, SameGrows DEF IInv, TypeOK, Store, StoreOf
<1>4. Streaming' /\ Settled'
  BY <1>1, <1>3, StreamingStays, SettledStays
<1>5. code' # "deadline"
  BY <1>1 DEF IInv, Settled
<1> QED
  BY <1>1, <1>2, <1>3, <1>4, <1>5, StaysInvariant

LEMMA RequestInvariant ==
  ASSUME IInv, SendMessage \/ SendLost
  PROVE  IInv'
<1>1. /\ IF up THEN disk' \in {disk, Created(disk)} ELSE disk' = disk
      /\ UNCHANGED <<inline, up, restarts, conn, cmd, runs, late, before, got, staged, meta>>
      /\ UNCHANGED <<resume, last, since, seen, broken, adv, tries>> /\ UNCHANGED place
      /\ pc = "send"
  BY DEF SendMessage, SendLost, Request, waiting, heard, place
<1>2. /\ pc' \in {"off", "connect"} /\ code' \in {code, "ok", "error"}
      /\ pc' = "connect" => code' = code
  BY DEF SendMessage, SendLost, End
<1>3. code = "none"
  BY <1>1 DEF IInv, Settled
<1>4. disk \in Disk /\ inline \in BOOLEAN /\ up \in BOOLEAN /\ Store
  BY DEF IInv, TypeOK
<1>5. CASE up /\ disk' = Created(disk)
  <2>1. up = TRUE
    BY <1>4, <1>5
  <2>2. StoreOf(disk, inline, TRUE)
    BY <1>4, <2>1, Zenon DEF Store
  <2>3. Grown(disk, disk') /\ StoreOf(disk', inline, TRUE)
    BY <1>4, <1>5, <2>2, CreateGrows
  <2>4. Store'
    BY <1>1, <2>1, <2>3, Zenon DEF Store
  <2>5. TypeOK'
    BY <1>1, <1>2, <1>3, <2>3 DEF IInv, TypeOK, Grown, PCs
  <2>6. Streaming' /\ Settled'
    BY <1>1, <1>2, <1>3 DEF Streaming, Settled
  <2> QED
    BY <1>1, <1>2, <1>3, <2>3, <2>4, <2>5, <2>6, StaysInvariant
<1>6. CASE disk' = disk
  <2>1. UNCHANGED remote
    BY <1>1, <1>6 DEF remote
  <2>2. Settled'
    BY <1>1, <1>2, <1>3 DEF Settled
  <2>3. pc' \in PCs /\ code' \in {"none", "ok", "error"}
    BY <1>2, <1>3 DEF PCs
  <2>4. Waiting'
    BY <1>1, <1>2, <1>6, WaitingSame
  <2> QED
    BY <1>1, <1>2, <2>1, <2>2, <2>3, <2>4, ClientInvariant DEF IInv, TypeOK
<1> QED
  BY <1>1, <1>5, <1>6

LEMMA SameIs ==
  ASSUME ClientSame
  PROVE  /\ UNCHANGED remote /\ UNCHANGED <<disk, inline, up, restarts>>
         /\ UNCHANGED <<cmd, runs, resume, late, code, before>> /\ UNCHANGED place
         /\ UNCHANGED <<staged, meta>>
BY DEF ClientSame, remote, place

LEMMA ConnectInvariant ==
  ASSUME IInv, Connect
  PROVE  IInv'
<1>1. /\ pc = "connect" /\ pc' = "stream"
      /\ conn' = [Closed EXCEPT !.srv = "events", !.last = last]
      /\ UNCHANGED <<last, since, seen, broken, adv, tries, got>>
  BY DEF Connect, heard
<1>2. /\ UNCHANGED <<disk, inline, up, restarts>>
      /\ UNCHANGED <<cmd, runs, resume, late, code, before>> /\ UNCHANGED place
      /\ UNCHANGED <<staged, meta>>
  BY SameIs DEF Connect
<1>3. last \in Nat /\ disk \in Disk /\ Store
  BY DEF IInv, TypeOK
<1>4. /\ conn' \in Conn /\ conn'.srv = "events" /\ conn'.last = last /\ Len(conn'.wire) = 0
  BY <1>1, <1>3, ClosedIs DEF Conn
<1>5. TypeOK'
  BY <1>1, <1>2, <1>4 DEF IInv, TypeOK, PCs
<1>6. Grown(disk, disk') /\ Store'
  BY <1>2, <1>3, SameGrows DEF Store, StoreOf
<1>7. Streaming'
  <2>1. \A i \in 1..Len(conn'.wire) : Follows(i)'
    BY <1>4
  <2>2. conn'.last = last' + Len(conn'.wire)
    BY <1>1, <1>3, <1>4
  <2> QED
    BY <1>4, <2>1, <2>2 DEF Streaming
<1>8. Settled'
  BY <1>1, <1>2 DEF IInv, Settled
<1> QED
  BY <1>1, <1>2, <1>5, <1>6, <1>7, <1>8, StaysInvariant

LEMMA ReconnectInvariant ==
  ASSUME IInv, pc \in {"connect", "stream", "done"}, Reconnect, Waiting'
  PROVE  IInv'
<1>1. /\ pc' = "connect" /\ conn' = Closed /\ UNCHANGED got
  BY DEF Reconnect
<1>2. /\ UNCHANGED remote /\ UNCHANGED <<cmd, runs, resume, late, code, before>>
      /\ UNCHANGED place
  BY SameIs DEF Reconnect
<1>3. code = "none"
  BY DEF IInv, Settled
<1>4. Settled'
  BY <1>1, <1>2, <1>3 DEF Settled
<1>5. pc' \in PCs /\ conn' \in Conn
  BY <1>1, ClosedIs DEF PCs
<1> QED
  BY <1>1, <1>2, <1>3, <1>4, <1>5, ClientInvariant DEF IInv, TypeOK

\* The next stream starts where the last one returned, or, if it broke, where that one
\* had started: what came over it may come again.
LEMMA ReconnectWaits ==
  ASSUME IInv, Reconnect, last' \in Nat, since' = last',
         \/ last' = last /\ UNCHANGED broken
         \/ last' = since /\ broken' = broken \cup {tries}
  PROVE  Waiting'
<1>1. pc' = "connect" /\ tries' = tries + 1 /\ UNCHANGED <<disk, resume, seen, adv>>
  BY SameIs DEF Reconnect
<1>2. /\ last \in Nat /\ since \in Nat /\ resume \in Nat /\ tries \in Nat
      /\ seen \in Seq([seq : Nat, try : Nat]) /\ broken \subseteq Nat /\ adv \in Record
  BY DEF IInv, TypeOK
<1>3. /\ resume <= since /\ since <= last /\ Whole /\ Reaches /\ Again /\ Unbroken
  BY DEF IInv, Seeing
<1>4. resume <= last' /\ since <= last' /\ last' <= last
  BY <1>2, <1>3
<1>5. broken' \subseteq Nat /\ broken \subseteq broken'
  BY <1>2
<1>6. Whole'
  BY <1>1, <1>3 DEF Whole
<1>7. Reaches'
  <2>1. \A n \in resume+1 .. last' : n \in resume+1 .. last
    BY <1>2, <1>4
  <2> QED
    BY <1>1, <1>3, <2>1 DEF Reaches
<1>8. Again'
  BY <1>1, <1>3, <1>5 DEF Again
<1>9. Unbroken'
  <2>1. SUFFICES ASSUME NEW i \in 1..Len(seen)
        PROVE  seen[i].try \in broken' \/ seen[i].seq <= since'
    BY <1>1 DEF Unbroken
  <2>2. seen[i].seq \in Nat
    BY <1>2, SeenIs
  <2>3. seen[i].try \in broken \/ seen[i].seq <= since \/ (seen[i].try = tries /\ seen[i].seq <= last)
    BY <1>3 DEF Unbroken
  <2> QED
    BY <1>2, <1>4, <1>5, <2>2, <2>3
<1>10. Seeing'
  BY <1>1, <1>2, <1>4, <1>6, <1>7, <1>8, <1>9 DEF Seeing
<1>11. Advisory'
  BY <1>1, <1>2, <1>4 DEF IInv, Advisory
<1> QED
  BY <1>1, <1>2, <1>5, <1>10, <1>11 DEF Waiting

LEMMA ReconnectsInvariant ==
  ASSUME IInv, ConnectFails \/ StreamCut \/ StreamEnds
  PROVE  IInv'
<1>1. last \in Nat /\ since \in Nat
  BY DEF IInv, TypeOK
<1>2. CASE ConnectFails
  <2>1. since = last
    BY <1>2 DEF ConnectFails, IInv, Seeing
  <2>2. Waiting'
    BY <1>1, <1>2, <2>1, ReconnectWaits DEF ConnectFails
  <2> QED
    BY <1>2, <2>2, ReconnectInvariant DEF ConnectFails
<1>3. CASE StreamCut
  <2>1. Waiting'
    BY <1>1, <1>3, ReconnectWaits DEF StreamCut
  <2> QED
    BY <1>3, <2>1, ReconnectInvariant DEF StreamCut
<1>4. CASE StreamEnds
  <2>1. Waiting'
    BY <1>1, <1>4, ReconnectWaits DEF StreamEnds
  <2> QED
    BY <1>4, <2>1, ReconnectInvariant DEF StreamEnds
<1> QED
  BY <1>2, <1>3, <1>4

\* From the end of a stream or of the polling on to a record.
LEMMA WaitedInvariant ==
  ASSUME IInv, ClientSame, Afresh(resume) \/ (pc = "poll" /\ UNCHANGED <<heard, tries>>), UNCHANGED conn,
         pc \in {"connect", "done", "poll"}, pc' \in {"poll", "cancel", "stage"},
         pc' = "cancel" => late,
         got' \in Record,
         pc' = "stage" => /\ got'.state \in Final /\ got'.state = disk.state
                          /\ got'.reason # "client_deadline"
                          /\ got'.state = "COMPLETED" => got'.art \/ resume >= 3
  PROVE  IInv'
<1>1. /\ UNCHANGED remote /\ UNCHANGED <<disk, cmd, runs, resume, late, code, before>>
      /\ UNCHANGED place
  BY SameIs
<1>2. code = "none"
  BY DEF IInv, Settled
<1>3. Settled'
  BY <1>1, <1>2 DEF Settled
<1>4. pc' \in PCs
  BY DEF PCs
<1>5. Waiting'
  <2>1. CASE Afresh(resume)
    BY <1>1, <2>1, AfreshIs DEF IInv, TypeOK
  <2>2. CASE pc = "poll" /\ UNCHANGED <<heard, tries>>
    BY <1>1, <2>2, WaitingSame DEF heard
  <2> QED
    BY <2>1, <2>2
<1> QED
  BY <1>1, <1>2, <1>3, <1>4, <1>5, ClientInvariant DEF IInv, TypeOK

LEMMA GotTaskInvariant ==
  ASSUME IInv, GotTask
  PROVE  IInv'
<1>1. disk \in Disk /\ inline \in BOOLEAN /\ Store /\ Seeing
  BY DEF IInv, TypeOK
<1>2. disk.state \in Final
  BY <1>1 DEF GotTask, Seeing, Store, StoreOf
<1>3. disk.state = "COMPLETED" => inline
  BY <1>1 DEF Store, StoreOf
<1> QED
  BY <1>1, <1>2, <1>3, RecordIs, WaitedInvariant DEF GotTask

LEMMA GetFailsInvariant ==
  ASSUME IInv, GetFails
  PROVE  IInv'
<1>1. CASE adv.state \in Final
  <2>1. /\ pc = "done" /\ pc' = "stage" /\ got' = adv /\ ClientSame
        /\ Afresh(resume) /\ UNCHANGED conn
    BY <1>1 DEF GetFails
  <2>2. adv \in Record
    BY DEF IInv, TypeOK
  <2>3. /\ adv.state = disk.state /\ adv.reason # "client_deadline"
        /\ adv.state = "COMPLETED" => adv.art \/ resume >= 3
    BY <1>1 DEF IInv, Advisory
  <2> QED
    BY <1>1, <2>1, <2>2, <2>3, WaitedInvariant
<1>2. CASE adv.state \notin Final
  <2>1. pc = "done" /\ Reconnect /\ UNCHANGED <<last, since, broken>>
    BY <1>2 DEF GetFails
  <2>2. since = last /\ last \in Nat
    BY <2>1 DEF IInv, TypeOK, Seeing
  <2> QED
    BY <2>1, <2>2, ReconnectWaits, ReconnectInvariant
<1> QED
  BY <1>1, <1>2

LEMMA PollInvariant ==
  ASSUME IInv, GiveUpStream \/ PollTerminal \/ PollExpires
  PROVE  IInv'
<1>1. disk \in Disk /\ inline \in BOOLEAN /\ got \in Record /\ Store
  BY DEF IInv, TypeOK
<1>2. CASE GiveUpStream
  BY <1>1, <1>2, WaitedInvariant DEF GiveUpStream
<1>3. CASE PollTerminal
  <2>1. disk.state = "COMPLETED" => inline
    BY <1>1 DEF Store, StoreOf
  <2> QED
    BY <1>1, <1>3, <2>1, RecordIs, WaitedInvariant DEF PollTerminal
<1>4. CASE PollExpires
  BY <1>1, <1>4, WaitedInvariant DEF PollExpires
<1> QED
  BY <1>2, <1>3, <1>4

LEMMA CancelInvariant ==
  ASSUME IInv, CancelSame, pc \in {"cancel", "asked", "confirm", "get"},
         pc' \in {"off", "asked", "confirm", "stage"},
         before' \in BOOLEAN, got' \in Record, code' \in {code, "ok", "error"},
         pc' # "off" => code' = code,
         pc' \in {"asked", "confirm"} => late,
         pc' \in {"confirm", "stage"} => got'.state \in Final /\ got'.state = disk.state,
         pc' = "stage" => /\ got'.state = "COMPLETED" => got'.art
                          /\ got'.reason = "client_deadline" => late
  PROVE  IInv'
<1>1. /\ UNCHANGED <<disk, conn, cmd, runs, resume, last, since, seen, broken, adv, tries, late>>
      /\ UNCHANGED remote /\ UNCHANGED place
  BY DEF CancelSame, remote, waiting, heard
<1>2. code = "none"
  BY DEF IInv, Settled
<1>3. Settled'
  BY <1>1, <1>2 DEF Settled
<1>4. pc' \in PCs /\ code' \in {"none", "ok", "error"}
  BY <1>2 DEF PCs
<1>5. Waiting'
  BY <1>1, WaitingSame
<1> QED
  BY <1>1, <1>3, <1>4, <1>5, ClientInvariant DEF IInv, TypeOK

LEMMA AskCancelInvariant ==
  ASSUME IInv, AskCancel
  PROVE  IInv'
<1>1. pc = "cancel" /\ pc' = "asked" /\ UNCHANGED <<got, code>> /\ CancelSame
  BY DEF AskCancel
<1>2. before' \in BOOLEAN
  BY DEF AskCancel
<1>3. late /\ got \in Record
  BY <1>1 DEF IInv, TypeOK, Settled
<1> QED
  BY <1>1, <1>2, <1>3, CancelInvariant

LEMMA CancelAnswerInvariant ==
  ASSUME IInv, CancelAnswer
  PROVE  IInv'
<1> DEFINE r == Local(disk.state, disk.reason, FALSE)
<1>1. /\ pc = "asked" /\ pc' = "confirm" /\ UNCHANGED <<before, code>> /\ CancelSame
      /\ got' = Attributed(r) /\ disk.state \in Final
  BY DEF CancelAnswer
<1>2. late /\ before \in BOOLEAN /\ disk \in Disk
  BY <1>1 DEF IInv, TypeOK, Settled
<1>3. r \in Record /\ r.state = disk.state
  BY <1>2 DEF Local, Record, Disk
<1> HIDE DEF r
<1>4. got' \in Record /\ got'.state = disk.state
  BY <1>1, <1>3, AttributedIs
<1> QED
  BY <1>1, <1>2, <1>4, CancelInvariant

LEMMA CancelLostInvariant ==
  ASSUME IInv, CancelLost
  PROVE  IInv'
<1>1. before \in BOOLEAN /\ got \in Record
  BY DEF IInv, TypeOK
<1> QED
  BY <1>1, CancelInvariant DEF CancelLost, End

LEMMA ConfirmInvariant ==
  ASSUME IInv, Confirm
  PROVE  IInv'
<1>1. /\ pc = "confirm" /\ UNCHANGED before /\ CancelSame
      /\ \/ got' = Attributed(Remote) /\ pc' = "stage" /\ UNCHANGED code
         \/ got.state = "CANCELED" /\ pc' = "stage" /\ UNCHANGED <<got, code>>
         \/ pc' = "off" /\ code' = "error" /\ UNCHANGED got
  BY DEF Confirm, End
<1>2. /\ late /\ got \in Record /\ before \in BOOLEAN /\ disk \in Disk /\ inline \in BOOLEAN
      /\ got.state \in Final /\ got.state = disk.state
  BY <1>1 DEF IInv, TypeOK, Settled
<1>3. CASE got' = Attributed(Remote) /\ pc' = "stage" /\ UNCHANGED code
  <2>1. disk.state = "COMPLETED" => inline
    BY DEF IInv, Store, StoreOf
  <2>2. got' \in Record /\ got'.state = disk.state /\ (got'.art <=> inline)
    BY <1>2, <1>3, RecordIs, AttributedIs
  <2> QED
    BY <1>1, <1>2, <1>3, <2>1, <2>2, CancelInvariant
<1>4. CASE got.state = "CANCELED" /\ pc' = "stage" /\ UNCHANGED <<got, code>>
  <2>1. got'.state = "CANCELED" /\ got' \in Record /\ got'.state \in Final /\ got'.state = disk.state
    BY <1>2, <1>4
  <2> QED
    BY <1>1, <1>2, <1>4, <2>1, CancelInvariant
<1>5. CASE pc' = "off" /\ code' = "error" /\ UNCHANGED got
  BY <1>1, <1>2, <1>5, CancelInvariant
<1> QED
  BY <1>1, <1>3, <1>4, <1>5

LEMMA GetCommandInvariant ==
  ASSUME IInv, GetCommand
  PROVE  IInv'
<1>1. /\ pc = "get" /\ UNCHANGED before /\ CancelSame
      /\ \/ Remote.state \in Final /\ got' = Remote /\ pc' = "stage" /\ UNCHANGED code
         \/ pc' = "off" /\ code' \in {"ok", "error"} /\ UNCHANGED got
  BY DEF GetCommand, End
<1>2. got \in Record /\ before \in BOOLEAN /\ disk \in Disk /\ inline \in BOOLEAN
  BY DEF IInv, TypeOK
<1>3. CASE Remote.state \in Final /\ got' = Remote /\ pc' = "stage" /\ UNCHANGED code
  <2>1. disk.state = "COMPLETED" => inline
    BY DEF IInv, Store, StoreOf
  <2>2. /\ got' \in Record /\ got'.state \in Final /\ got'.state = disk.state
        /\ (got'.art <=> inline) /\ got'.reason # "client_deadline"
    BY <1>2, <1>3, RecordIs
  <2> QED
    BY <1>1, <1>2, <1>3, <2>1, <2>2, CancelInvariant
<1>4. CASE pc' = "off" /\ code' \in {"ok", "error"} /\ UNCHANGED got
  BY <1>1, <1>2, <1>4, CancelInvariant
<1> QED
  BY <1>1, <1>3, <1>4

-----------------------------------------------------------------------------
(* The receipt *)

LEMMA OutcomeIs ==
  ASSUME NEW r \in Record
  PROVE  /\ Outcome(r) \in Outcomes
         /\ Outcome(r) = "RETURNED" => r.state = "COMPLETED" /\ r.art
         /\ Outcome(r) \in {"TIMEOUT", "CANCELED"} => r.state = "CANCELED"
         /\ r.state = "CANCELED" /\ r.reason = "client_deadline" => Outcome(r) = "TIMEOUT"
         /\ Outcome(r) = "FAILED" /\ r.state \in Final =>
              r.state \in Final \ {"COMPLETED", "CANCELED"} \/ (r.state = "COMPLETED" /\ ~r.art)
<1>1. CASE r.state = "COMPLETED" /\ r.art
  <2>1. Outcome(r) = "RETURNED"
    BY <1>1 DEF Outcome
  <2> QED
    BY <1>1, <2>1 DEF Outcomes
<1>2. CASE ~(r.state = "COMPLETED" /\ r.art) /\ r.state # "CANCELED"
  <2>1. Outcome(r) = "FAILED"
    BY <1>2, Zenon DEF Outcome
  <2> QED
    BY <1>2, <2>1 DEF Outcomes
<1>3. CASE r.state = "CANCELED"
  <2>1. Outcome(r) = IF r.reason \in {"deadline", "client_deadline"} THEN "TIMEOUT" ELSE "CANCELED"
    BY <1>3 DEF Outcome
  <2> QED
    BY <1>3, <2>1 DEF Outcomes
<1> QED
  BY <1>1, <1>2, <1>3

\* What staging and the receipt leave of the rest.
LEMMA ReceiptInvariant ==
  ASSUME IInv, ReceiptSame, pc \in {"stage", "meta"}, pc' \in {"off", "meta"},
         staged' \in BOOLEAN, meta' \in Meta, code' \in {"none", "ok", "deadline", "error"},
         Settled', Received'
  PROVE  IInv'
<1>1. /\ UNCHANGED <<disk, inline, up, restarts, conn, cmd, runs>>
      /\ UNCHANGED <<resume, last, since, seen, broken, adv, tries, late, before, got>>
  BY DEF ReceiptSame, remote, waiting, heard
<1>2. TypeOK'
  BY <1>1 DEF IInv, TypeOK, PCs
<1>3. Grown(disk, disk') /\ Store'
  BY <1>1, SameGrows DEF IInv, TypeOK, Store, StoreOf
<1>4. Streaming'
  BY DEF Streaming
<1>5. Seeing' /\ Advisory'
  BY <1>1, <1>3, SeeingStays, AdvisoryStays
<1> QED
  BY <1>2, <1>3, <1>4, <1>5 DEF IInv

LEMMA StageArtifactInvariant ==
  ASSUME IInv, StageArtifact
  PROVE  IInv'
<1>1. /\ pc = "stage" /\ UNCHANGED meta /\ ReceiptSame
      /\ \/ pc' = "off" /\ code' = "error" /\ UNCHANGED staged
         \/ pc' = "meta" /\ staged' = (staged \/ got.art) /\ UNCHANGED code /\ ~(got.art /\ staged)
  BY DEF StageArtifact, End
<1>2. UNCHANGED <<disk, resume, late, got>>
  BY <1>1 DEF ReceiptSame, remote, waiting
<1>3. got \in Record /\ staged \in BOOLEAN /\ meta \in Meta /\ code = "none"
  BY <1>1 DEF IInv, TypeOK, Settled
<1>4. CASE pc' = "off" /\ code' = "error" /\ UNCHANGED staged
  <2>1. Settled' /\ Received'
    BY <1>1, <1>2, <1>4 DEF IInv, Settled, Received
  <2> QED
    BY <1>1, <1>3, <1>4, <2>1, ReceiptInvariant
<1>5. CASE pc' = "meta" /\ staged' = (staged \/ got.art) /\ UNCHANGED code /\ ~(got.art /\ staged)
  <2>1. staged' \in BOOLEAN /\ (staged => staged') /\ (got.art => staged')
    BY <1>3, <1>5
  <2>2. got.art => meta.outcome # "RETURNED"
    BY <1>5 DEF IInv, Received
  <2>3. Settled'
    BY <1>1, <1>2, <1>5, <2>1, <2>2 DEF IInv, Settled
  <2>4. Received'
    BY <1>1, <1>2, <1>3, <1>5, <2>1 DEF IInv, Received
  <2> QED
    BY <1>1, <1>3, <1>5, <2>1, <2>3, <2>4, ReceiptInvariant
<1> QED
  BY <1>1, <1>4, <1>5

LEMMA WriteMetaInvariant ==
  ASSUME IInv, WriteMeta
  PROVE  IInv'
<1> DEFINE why == IF got.reason = "none" THEN "remote_terminal" ELSE got.reason
<1>1. /\ pc = "meta" /\ pc' = "off" /\ UNCHANGED staged /\ ReceiptSame
      /\ meta' = [outcome |-> Outcome(got), reason |-> why]
      /\ code' = IF got.state = "CANCELED" /\ got.reason = "client_deadline" THEN "deadline" ELSE "ok"
  BY DEF WriteMeta, End
<1>2. UNCHANGED <<disk, late, got>>
  BY <1>1 DEF ReceiptSame, remote, waiting
<1>3. got \in Record /\ staged \in BOOLEAN
  BY DEF IInv, TypeOK
<1>4. why \in Reasons \cup {"client_deadline", "remote_terminal"}
  BY <1>3 DEF Record
<1> HIDE DEF why
<1>5. meta' \in Meta /\ meta'.outcome = Outcome(got)
  BY <1>1, <1>3, <1>4, OutcomeIs DEF Meta
<1>6. code' \in {"ok", "deadline"}
  BY <1>1
<1>7. Settled'
  BY <1>1 DEF Settled
<1>8. /\ got.state = disk.state /\ (got.art => staged)
      /\ got.reason = "client_deadline" => late
  BY <1>1 DEF IInv, Settled
<1>9. /\ meta'.outcome = "RETURNED" => disk.state = "COMPLETED" /\ staged
      /\ meta'.outcome \in {"TIMEOUT", "CANCELED"} => disk.state = "CANCELED"
  BY <1>3, <1>5, <1>8, OutcomeIs
<1>10. code' = "deadline" => late /\ disk.state = "CANCELED" /\ meta'.outcome = "TIMEOUT"
  BY <1>1, <1>3, <1>5, <1>8, OutcomeIs
<1>11. Received'
  BY <1>1, <1>2, <1>9, <1>10 DEF Received
<1> QED
  BY <1>1, <1>3, <1>5, <1>6, <1>7, <1>11, ReceiptInvariant

-----------------------------------------------------------------------------
(* Reading the stream *)

LEMMA ReadFrameInvariant ==
  ASSUME IInv, ReadFrame
  PROVE  IInv'
<1> DEFINE f == Head(conn.wire)
           w == Tail(conn.wire)
           n == Len(conn.wire)
<1>1. /\ pc = "stream" /\ conn.wire # <<>> /\ conn' = [conn EXCEPT !.wire = w]
      /\ UNCHANGED <<disk, inline, up, restarts, cmd, runs, resume, late, code, before>>
      /\ UNCHANGED <<staged, meta, tries, got>> /\ UNCHANGED place
      /\ UNCHANGED broken
      /\ \/ f.event = "done" /\ pc' = "done" /\ since' = last /\ UNCHANGED <<last, seen, adv>>
         \/ /\ f.event # "done" /\ last' = f.seq /\ UNCHANGED <<pc, since>>
            /\ seen' = Append(seen, [seq |-> f.seq, try |-> tries]) /\ adv' = Advised(f.event)
  BY SameIs DEF ReadFrame
<1>2. /\ conn \in Conn /\ conn.wire \in Seq(Frame) /\ disk \in Disk /\ disk.log \in Seq(Events)
      /\ last \in Nat /\ since \in Nat /\ resume \in Nat /\ tries \in Nat /\ adv \in Record
      /\ seen \in Seq([seq : Nat, try : Nat]) /\ Len(disk.log) \in Nat
  BY DEF IInv, TypeOK, Conn, Disk
<1>3. /\ w \in Seq(Frame) /\ n \in Nat /\ n >= 1 /\ Len(w) = n - 1 /\ f = conn.wire[1]
      /\ \A i \in 1..Len(w) : w[i] = conn.wire[i + 1] /\ i + 1 \in 1..n
  BY <1>1, <1>2
<1>4. f = conn.wire[1] /\ Follows(1)
  <2>1. \A i \in 1..n : Follows(i)
    BY <1>1 DEF IInv, Streaming
  <2> QED
    BY <1>3, <2>1
<1>5. \A i \in 1..Len(w) : Follows(i + 1)
  <2>1. \A i \in 1..n : Follows(i)
    BY <1>1 DEF IInv, Streaming
  <2> QED
    BY <1>3, <2>1
<1>6. /\ conn.srv # "closed" => conn.last = last + n
      /\ conn.srv = "flush" => disk.complete
  BY <1>1 DEF IInv, Streaming
<1>7. /\ conn' \in Conn /\ conn'.wire = w /\ conn'.srv = conn.srv /\ conn'.last = conn.last
  BY <1>1, <1>2, <1>3 DEF Conn
<1>8. n = Len(conn.wire)
  OBVIOUS
<1> HIDE DEF f, w, n
<1>9. Store' /\ Grown(disk, disk')
  BY <1>1, <1>2, SameGrows DEF IInv, Store, StoreOf
<1>10. CASE f.event = "done" /\ pc' = "done" /\ since' = last /\ UNCHANGED <<last, seen, adv>>
  <2>1. disk.complete /\ Len(disk.log) <= last
    <3>1. disk.complete /\ Len(disk.log) <= last + 1 - 1
      BY <1>4, <1>10 DEF Follows
    <3>2. last + 1 - 1 = last
      BY <1>2
    <3> QED
      BY <3>1, <3>2
  <2>2. TypeOK'
    BY <1>1, <1>7, <1>10 DEF IInv, TypeOK, PCs
  <2>3. Streaming'
    BY <1>10 DEF Streaming
  <2>4. Seeing'
    <3>1. /\ resume <= since /\ since <= last /\ Whole /\ Reaches /\ Again /\ Unbroken
      BY DEF IInv, Seeing
    <3>2. Whole' /\ Reaches' /\ Again'
      BY <1>1, <1>10, <3>1 DEF Whole, Reaches, Again
    <3>3. Unbroken'
      <4>1. \A i \in 1..Len(seen) : seen[i].seq \in Nat
        BY <1>2, SeenIs
      <4> QED
        BY <1>1, <1>2, <1>10, <3>1, <4>1 DEF Unbroken
    <3> QED
      BY <1>1, <1>2, <1>10, <2>1, <3>1, <3>2, <3>3 DEF Seeing
  <2>10. Advisory'
    BY <1>1, <1>10 DEF IInv, Advisory
  <2>5. Settled' /\ Received'
    BY <1>1, <1>10 DEF IInv, Settled, Received
  <2> QED
    BY <1>9, <2>2, <2>3, <2>4, <2>5, <2>10 DEF IInv
<1>11. CASE /\ f.event # "done" /\ last' = f.seq /\ UNCHANGED <<pc, since>>
            /\ seen' = Append(seen, [seq |-> f.seq, try |-> tries]) /\ adv' = Advised(f.event)
  <2> DEFINE e == f.event
  <2>1. /\ f.seq = last + 1 /\ last + 1 <= Len(disk.log) /\ e = disk.log[last + 1]
    BY <1>4, <1>11 DEF Follows
  <2>2. /\ last' = last + 1 /\ last' \in Nat /\ last' \in 1..Len(disk.log) /\ e = disk.log[last']
        /\ e \in Events
    BY <1>2, <1>11, <2>1
  <2> HIDE DEF e
  <2>3. /\ seen' \in Seq([seq : Nat, try : Nat]) /\ Len(seen') = Len(seen) + 1
        /\ seen'[Len(seen) + 1] = [seq |-> last', try |-> tries]
        /\ \A i \in 1..Len(seen) : seen'[i] = seen[i]
        /\ \A i \in 1..Len(seen') : i \in 1..Len(seen) \/ i = Len(seen) + 1
        /\ Len(seen) \in Nat
    BY <1>2, <1>11, <2>2
  <2>4. /\ adv' \in Record /\ adv'.reason = adv.reason
        /\ adv.art => adv'.art
        /\ e = "artifact" => adv'.art /\ adv'.state = adv.state
        /\ e # "artifact" => adv'.state = e /\ (adv'.art <=> adv.art)
    <3>1. adv' = IF e = "artifact" THEN [adv EXCEPT !.art = TRUE] ELSE [adv EXCEPT !.state = e]
      BY <1>11 DEF Advised, e
    <3>2. CASE e = "artifact"
      BY <1>2, <3>1, <3>2 DEF Record
    <3>3. CASE e # "artifact"
      <4>1. e \in Active \cup Final
        BY <2>2, <3>3 DEF Events
      <4> QED
        BY <1>2, <3>1, <3>3, <4>1 DEF Record
    <3> QED
      BY <3>2, <3>3
  <2>5. TypeOK'
    BY <1>1, <1>7, <1>11, <2>2, <2>3, <2>4 DEF IInv, TypeOK
  <2>6. Streaming'
    <3>1. ASSUME NEW i \in 1..Len(w)
          PROVE  Follows(i)'
      <4>1. i \in Nat /\ last + (i + 1) = last' + i /\ last + (i + 1) - 1 = last' + i - 1
        BY <1>2, <2>2, <3>1
      <4>2. w[i] = conn.wire[i + 1] /\ Follows(i + 1)
        BY <1>3, <1>5, <3>1
      <4>3. CASE w[i].event = "done"
        <5>1. /\ i + 1 = n /\ conn.srv = "closed"
              /\ disk.complete /\ Len(disk.log) <= last' + i - 1
          BY <1>8, <4>1, <4>2, <4>3 DEF Follows
        <5>2. i = Len(w)
          BY <1>3, <4>1, <5>1
        <5> QED
          BY <1>1, <1>7, <4>3, <5>1, <5>2 DEF Follows
      <4>4. CASE w[i].event # "done"
        <5>1. /\ w[i].seq = last' + i /\ last' + i <= Len(disk.log)
              /\ w[i].event = disk.log[last' + i]
          BY <4>1, <4>2, <4>4 DEF Follows
        <5> QED
          BY <1>1, <1>7, <4>4, <5>1 DEF Follows
      <4> QED
        BY <4>3, <4>4
    <3>2. last + n = last' + Len(w)
      BY <1>2, <1>3, <2>2
    <3>3. conn'.srv # "closed" => conn'.last = last' + Len(conn'.wire)
      BY <1>6, <1>7, <3>2
    <3>4. conn'.srv = "flush" => disk'.complete
      BY <1>1, <1>6, <1>7
    <3> QED
      BY <1>7, <3>1, <3>3, <3>4 DEF Streaming
  <2>7. Seeing'
    <3> DEFINE m == Len(seen)
    <3>1. /\ m \in Nat /\ Len(seen') = m + 1
          /\ seen'[m + 1].seq = last' /\ seen'[m + 1].try = tries
          /\ \A i \in 1..m : seen'[i] = seen[i] /\ seen[i].seq \in Nat
          /\ \A i \in 1..Len(seen') : i \in 1..m \/ i = m + 1
      <4>1. \A i \in 1..Len(seen) : seen[i].seq \in Nat
        BY <1>2, SeenIs
      <4>2. seen'[m + 1] = [seq |-> last', try |-> tries]
        BY <2>3
      <4> HIDE DEF m
      <4>3. seen'[m + 1].seq = last' /\ seen'[m + 1].try = tries
        BY <4>2
      <4> QED
        BY <2>3, <4>1, <4>3 DEF m
    <3>2. /\ resume <= since /\ since <= last
          /\ \A j \in 1..m : \A n_ \in resume+1 .. seen[j].seq - 1 : \E i \in 1..j-1 : seen[i].seq = n_
          /\ \A n_ \in resume+1 .. last : \E i \in 1..m : seen[i].seq = n_
          /\ \A i, j \in 1..m : i < j /\ seen[j].seq <= seen[i].seq => seen[i].try \in broken
          /\ \A i \in 1..m : \/ seen[i].try \in broken \/ seen[i].seq <= since
                             \/ seen[i].try = tries /\ seen[i].seq <= last
      BY DEF IInv, Seeing, Whole, Reaches, Again, Unbroken
    <3> HIDE DEF m
    <3>3. Whole'
      <4>1. SUFFICES ASSUME NEW j \in 1..Len(seen'), NEW x \in resume+1 .. seen'[j].seq - 1
            PROVE  \E i \in 1..j-1 : seen'[i].seq = x
        BY <1>1 DEF Whole
      <4>2. CASE j \in 1..m
        <5>1. PICK i \in 1..j-1 : seen[i].seq = x
          BY <3>1, <3>2, <4>1, <4>2
        <5>2. i \in 1..m
          BY <3>1, <4>2, <5>1
        <5> QED
          BY <3>1, <5>1, <5>2
      <4>3. CASE j = m + 1
        <5>1. x \in resume+1 .. last
          BY <1>2, <2>2, <3>1, <4>1, <4>3
        <5>2. PICK i \in 1..m : seen[i].seq = x
          BY <3>2, <5>1
        <5>3. i \in 1..j-1
          BY <3>1, <4>3, <5>2
        <5> QED
          BY <3>1, <5>2, <5>3
      <4> QED
        BY <3>1, <4>1, <4>2, <4>3
    <3>4. Reaches'
      <4>1. SUFFICES ASSUME NEW x \in resume+1 .. last'
            PROVE  \E i \in 1..Len(seen') : seen'[i].seq = x
        BY <1>1 DEF Reaches
      <4>2. CASE x = last'
        <5>1. m + 1 \in 1..Len(seen')
          BY <3>1
        <5> QED
          BY <3>1, <4>2, <5>1
      <4>3. CASE x # last'
        <5>1. x \in resume+1 .. last
          BY <1>2, <2>2, <4>1, <4>3
        <5>2. PICK i \in 1..m : seen[i].seq = x
          BY <3>2, <5>1
        <5>3. i \in 1..Len(seen')
          BY <3>1, <5>2
        <5> QED
          BY <3>1, <5>2, <5>3
      <4> QED
        BY <4>2, <4>3
    <3>5. Again'
      <4>1. SUFFICES ASSUME NEW i \in 1..Len(seen'), NEW j \in 1..Len(seen'),
                            i < j, seen'[j].seq <= seen'[i].seq
            PROVE  seen'[i].try \in broken
        BY <1>1 DEF Again
      <4>2. i \in 1..m
        BY <3>1, <4>1
      <4>3. CASE j \in 1..m
        BY <3>1, <3>2, <4>1, <4>2, <4>3
      <4>4. CASE j = m + 1
        <5>1. seen'[i] = seen[i] /\ seen[i].seq \in Nat /\ last' <= seen[i].seq
          BY <3>1, <4>1, <4>2, <4>4
        <5>2. ~(seen[i].seq <= last) /\ ~(seen[i].seq <= since)
          BY <1>2, <2>2, <3>2, <5>1
        <5>3. seen[i].try \in broken
          BY <3>2, <4>2, <5>2
        <5> QED
          BY <5>1, <5>3
      <4> QED
        BY <3>1, <4>3, <4>4
    <3>6. Unbroken'
      <4>1. SUFFICES ASSUME NEW i \in 1..Len(seen')
            PROVE  \/ seen'[i].try \in broken \/ seen'[i].seq <= since
                   \/ seen'[i].try = tries /\ seen'[i].seq <= last'
        BY <1>1, <1>11 DEF Unbroken
      <4>2. CASE i \in 1..m
        BY <1>2, <2>2, <3>1, <3>2, <4>2
      <4>3. CASE i = m + 1
        BY <2>2, <3>1, <4>3
      <4> QED
        BY <3>1, <4>2, <4>3
    <3>7. resume' <= since' /\ since' <= last' /\ pc' = "stream"
      BY <1>1, <1>2, <1>11, <2>2, <3>2
    <3> QED
      BY <3>3, <3>4, <3>5, <3>6, <3>7 DEF Seeing
  <2>8. Advisory'
    <3>1. /\ adv.reason = "remote_terminal"
          /\ adv.state \in Final => adv.state = disk.state
          /\ adv.state = "COMPLETED" => adv.art \/ resume >= 3
          /\ resume < 3 /\ last >= 3 => Len(disk.log) >= 3 /\ (disk.log[3] = "artifact" => adv.art)
      BY DEF IInv, Advisory
    <3>2. /\ e \in Final => disk.state = e
          /\ e = "COMPLETED" => last' = 4 /\ disk.log[3] = "artifact"
      BY <2>2 DEF IInv, Store, StoreOf
    <3>3. adv'.state \in Final => adv'.state = disk.state
      BY <2>4, <3>1, <3>2
    <3>4. adv'.state = "COMPLETED" => adv'.art \/ resume >= 3
      <4>1. CASE e = "artifact"
        BY <2>4, <4>1
      <4>2. CASE e # "artifact"
        <5>1. e = "COMPLETED" => last >= 3
          BY <1>2, <2>2, <3>2
        <5>2. e = "COMPLETED" => adv.art \/ resume >= 3
          BY <1>2, <3>1, <3>2, <5>1
        <5> QED
          BY <2>4, <4>2, <5>2
      <4> QED
        BY <4>1, <4>2
    <3>5. ASSUME resume < 3, last' >= 3
          PROVE  Len(disk.log) >= 3 /\ (disk.log[3] = "artifact" => adv'.art)
      <4>1. Len(disk.log) >= 3
        BY <1>2, <2>2, <3>5
      <4>2. CASE last >= 3
        BY <2>4, <3>1, <3>5, <4>1, <4>2
      <4>3. CASE ~(last >= 3)
        <5>1. last' = 3
          BY <1>2, <2>2, <3>5, <4>3
        <5>2. e = disk.log[3]
          BY <2>2, <5>1
        <5> QED
          BY <2>4, <4>1, <5>2
      <4> QED
        BY <4>2, <4>3
    <3> QED
      BY <1>1, <2>4, <3>1, <3>3, <3>4, <3>5 DEF Advisory
  <2>9. Settled' /\ Received'
    BY <1>1, <1>11 DEF IInv, Settled, Received
  <2> QED
    BY <1>9, <2>5, <2>6, <2>7, <2>8, <2>9 DEF IInv
<1> QED
  BY <1>1, <1>10, <1>11

-----------------------------------------------------------------------------
(* The theorems *)

LEMMA Initially == Init => IInv
<1> SUFFICES ASSUME Init PROVE IInv
  OBVIOUS
<1>1. /\ disk = NoTask /\ inline = FALSE /\ up = TRUE /\ restarts = 0 /\ conn = Closed
      /\ pc = "off" /\ cmd = "run" /\ runs = 0 /\ resume = 0 /\ last = 0 /\ since = 0
      /\ seen = <<>> /\ broken = {} /\ adv = NoRecord /\ tries = 0 /\ late = FALSE /\ before = FALSE /\ got = NoRecord
      /\ code = "none" /\ staged = FALSE /\ meta = NoMeta
  BY DEF Init
<1>2. disk \in Disk /\ disk.state = "NONE" /\ Len(disk.log) = 0 /\ ~disk.complete
  <2>1. <<>> \in Seq(Events) /\ Len(<<>>) = 0
    OBVIOUS
  <2> QED
    BY <1>1, <2>1 DEF NoTask, Disk, Reasons, Errors
<1>3. seen \in Seq([seq : Nat, try : Nat]) /\ Len(seen) = 0
  <2>1. <<>> \in Seq([seq : Nat, try : Nat]) /\ Len(<<>>) = 0
    OBVIOUS
  <2> QED
    BY <1>1, <2>1
<1>4. meta \in Meta /\ meta.outcome = "none"
  BY <1>1 DEF NoMeta, Meta
<1>5. adv \in Record /\ got \in Record /\ adv.state = "NONE" /\ adv.reason = "remote_terminal"
  BY <1>1, RecordIs
<1>6. inline \in BOOLEAN /\ up \in BOOLEAN /\ late \in BOOLEAN /\ before \in BOOLEAN /\ staged \in BOOLEAN
  BY <1>1
<1>7. TypeOK
  BY <1>1, <1>2, <1>3, <1>4, <1>5, <1>6, ClosedIs DEF TypeOK, PCs, Commands
<1>8. Store
  BY <1>2, States DEF Store, StoreOf
<1>9. Streaming
  BY <1>1 DEF Streaming
<1>10. Seeing
  <2>1. (\A i \in 1..Len(seen) : FALSE) /\ (\A n \in resume+1 .. last : FALSE)
    BY <1>1, <1>3
  <2>2. Whole /\ Reaches /\ Again /\ Unbroken
    BY <2>1, Zenon DEF Whole, Reaches, Again, Unbroken
  <2> QED
    BY <1>1, <2>2 DEF Seeing
<1>11. Advisory
  <2>1. ~(last >= 3)
    BY <1>1
  <2> QED
    BY <1>5, <2>1, States DEF Advisory
<1>12. Settled /\ Received
  BY <1>1, <1>4 DEF Settled, Received
<1> QED
  BY <1>7, <1>8, <1>9, <1>10, <1>11, <1>12 DEF IInv

LEMMA StutterInvariant ==
  ASSUME IInv, UNCHANGED vars
  PROVE  IInv'
<1>1. conn \in Conn /\ UNCHANGED remote /\ UNCHANGED Client /\ UNCHANGED conn
      /\ UNCHANGED <<inline, up, restarts, disk>>
  BY DEF vars, remote, Client, IInv, TypeOK
<1>2. Grown(disk, disk') /\ Store' /\ inline' \in BOOLEAN /\ up' \in BOOLEAN /\ restarts' \in Nat
  BY <1>1, SameGrows DEF IInv, TypeOK, Store, StoreOf
<1> QED
  BY <1>1, <1>2, RunnerInvariant

THEOREM Invariance == Spec => []IInv
<1>1. Init => IInv
  BY Initially
<1>2. IInv /\ [Next]_vars => IInv'
  <2> SUFFICES ASSUME IInv, [Next]_vars PROVE IInv'
    OBVIOUS
  <2>1. CASE RunnerClaim \/ RunnerSettle \/ RunnerCrash \/ RunnerRecover \/ CancelSettles
    BY <2>1, RunnerClaimInvariant, RunnerSettleInvariant, RunnerCrashInvariant,
       RunnerRecoverInvariant, CancelSettlesInvariant
  <2>2. CASE StreamStep \/ StreamExpires
    BY <2>2, StreamEventsInvariant, StreamDoneInvariant, StreamWaitsInvariant DEF StreamStep
  <2>3. CASE StreamCut \/ ClientStart \/ ClientDies \/ Deadline
    BY <2>3, ReconnectsInvariant, ClientStartInvariant, ClientDiesInvariant, DeadlineInvariant
  <2>4. CASE ClientStep
    BY <2>4, RequestInvariant, ConnectInvariant, ReconnectsInvariant, ReadFrameInvariant,
       GotTaskInvariant, GetFailsInvariant, PollInvariant, AskCancelInvariant,
       CancelAnswerInvariant, CancelLostInvariant, ConfirmInvariant, GetCommandInvariant,
       StageArtifactInvariant, WriteMetaInvariant DEF ClientStep
  <2>5. CASE UNCHANGED vars
    BY <2>5, StutterInvariant
  <2> QED
    BY <2>1, <2>2, <2>3, <2>4, <2>5 DEF Next
<1> QED
  BY <1>1, <1>2, PTL DEF Spec

\* Every variable holds what its type says, whatever the constants.
THEOREM TypeCorrect == Spec => []TypeOK
<1>1. IInv => TypeOK
  BY DEF IInv
<1> QED
  BY <1>1, Invariance, PTL

\* What the client sees of the events is whole and in order, over any number of streams;
\* what it sees again came over one that an exception ended; and "done" is the end
\* (_stream_once, wait_for_terminal and _sse).
THEOREM SeesTheWholeStream == Spec => []StreamIsWhole
<1>1. IInv => StreamIsWhole
  <2> SUFFICES ASSUME IInv PROVE StreamIsWhole
    OBVIOUS
  <2>1. DOMAIN seen = 1..Len(seen)
    BY DEF IInv, TypeOK
  <2>2. Whole /\ Reaches /\ Again
    BY DEF IInv, Seeing
  <2>3. ASSUME pc = "done"
        PROVE  disk.complete /\ \A n \in resume+1 .. Len(disk.log) : n \in resume+1 .. last
    <3>1. disk.complete /\ last >= Len(disk.log)
      BY <2>3 DEF IInv, Seeing
    <3>2. last \in Nat /\ resume \in Nat /\ Len(disk.log) \in Nat
      BY DEF IInv, TypeOK, Disk
    <3> QED
      BY <3>1, <3>2
  <2> QED
    BY <2>1, <2>2, <2>3 DEF Whole, Reaches, Again, StreamIsWhole
<1> QED
  BY <1>1, Invariance, PTL

\* The receipt agrees with the runner's record, whatever the client settled on
\* (synth_run_meta and cancel_at_deadline).
THEOREM ReceiptIsTrue == Spec => []ReceiptMatchesRecord
<1>1. IInv => ReceiptMatchesRecord
  <2> SUFFICES ASSUME IInv PROVE ReceiptMatchesRecord
    OBVIOUS
  <2>1. ASSUME pc = "meta", Outcome(got) = "FAILED"
        PROVE  disk.state \in Final \ {"COMPLETED", "CANCELED"} \/ resume >= 3
    <3>1. /\ got \in Record /\ got.state \in Final /\ got.state = disk.state
          /\ got.state = "COMPLETED" => got.art \/ resume >= 3
      BY <2>1 DEF IInv, TypeOK, Settled
    <3> QED
      BY <2>1, <3>1, OutcomeIs
  <2> QED
    BY <2>1 DEF IInv, Received, ReceiptMatchesRecord
<1> QED
  BY <1>1, Invariance, PTL

\* A step that changes what the client left behind is one of the last two.
LEMMA PlaceStays ==
  ASSUME Next, ~StageArtifact, ~WriteMeta
  PROVE  UNCHANGED place
<1>1. CASE RunnerClaim \/ RunnerSettle \/ RunnerCrash \/ RunnerRecover \/ CancelSettles
  BY <1>1 DEF RunnerClaim, RunnerSettle, RunnerCrash, RunnerRecover, CancelSettles, Client
<1>2. CASE StreamStep \/ StreamExpires
  BY <1>2 DEF StreamStep, StreamEvents, StreamCheck, StreamDone, StreamClear, StreamWake,
              StreamExpires, StreamAt, Client
<1>3. CASE ClientStart \/ ClientDies \/ Deadline
  BY <1>3 DEF ClientStart, ClientDies, Deadline
<1>4. CASE SendMessage \/ SendLost
  BY <1>4 DEF SendMessage, SendLost, Request
<1>5. CASE StreamCut \/ Connect \/ ConnectFails \/ StreamEnds \/ ReadFrame \/ GotTask
           \/ GetFails \/ GiveUpStream \/ PollTerminal \/ PollExpires
  <2>1. ClientSame
    BY <1>5 DEF StreamCut, Connect, ConnectFails, StreamEnds, ReadFrame, GotTask, GetFails,
                GiveUpStream, PollTerminal, PollExpires, Reconnect
  <2> QED
    BY <2>1 DEF ClientSame
<1>6. CASE AskCancel \/ CancelAnswer \/ CancelLost \/ Confirm \/ GetCommand
  BY <1>6 DEF AskCancel, CancelAnswer, CancelLost, Confirm, GetCommand, CancelSame
<1> QED
  BY <1>1, <1>2, <1>3, <1>4, <1>5, <1>6 DEF Next, ClientStep

\* A receipt that returned an artifact is never replaced or lost, whatever is replayed
\* (write_artifact_local).
THEOREM ReceiptIsKept == Spec => ReturnedIsKept
<1> DEFINE Kept == meta.outcome = "RETURNED" => UNCHANGED place \/ resume >= 3
<1>1. IInv /\ [Next]_vars => [Kept]_vars
  <2> SUFFICES ASSUME IInv, Next, meta.outcome = "RETURNED"
               PROVE  UNCHANGED place \/ resume >= 3
    OBVIOUS
  <2>1. staged /\ staged \in BOOLEAN /\ disk.state = "COMPLETED"
    BY DEF IInv, TypeOK, Received
  <2>2. CASE StageArtifact
    <3>1. staged' = staged /\ UNCHANGED meta
      BY <2>1, <2>2 DEF StageArtifact
    <3> QED
      BY <3>1 DEF place
  <2>3. CASE WriteMeta
    <3>1. pc = "meta"
      BY <2>3 DEF WriteMeta
    <3>2. got.state = "COMPLETED" /\ ~got.art
      BY <2>1, <3>1 DEF IInv, Settled
    <3> QED
      BY <3>1, <3>2 DEF IInv, Settled
  <2>4. CASE ~StageArtifact /\ ~WriteMeta
    BY <2>4, PlaceStays
  <2> QED
    BY <2>2, <2>3, <2>4
<1> QED
  BY <1>1, Invariance, PTL DEF Spec, ReturnedIsKept, Kept

=============================================================================
