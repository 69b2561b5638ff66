---------------------------- MODULE WatchProofs ----------------------------
(* Proofs about Watch, for every size of the ring and of the channels and   *)
(* any number of events, breaks and restarts.                               *)
EXTENDS Watch, SequenceTheorems, FiniteSetTheorems, TLAPS

-----------------------------------------------------------------------------
(* The inductive invariant.                                                 *)

\* What was announced is not ahead of the status, and only ever gets newer.
HistInv ==
    /\ Len(hist) = d.rev
    /\ \A r \in 1..d.rev : hist[r] <= d.status
    /\ \A r \in 1..d.rev : StatusAt(r - 1) <= hist[r]

\* An event carries its own or a later status, and one without a status changes none.
Valid(m) ==
    /\ m.rev <= d.rev /\ m.status <= d.status
    /\ m.kind # "other" => StatusAt(m.rev) <= m.status
    /\ m.kind # "snapshot" => m.rev > 0
    /\ m.kind = "other" => hist[m.rev] = StatusAt(m.rev - 1)

\* The ring holds the newest events, one after the other.
RingInv ==
    /\ d.rev > 0 => d.ring # <<>>
    /\ \A i \in 1..Len(d.ring) :
         /\ d.ring[i].rev + (Len(d.ring) - i) = d.rev
         /\ Valid(d.ring[i]) /\ d.ring[i].kind # "snapshot"

\* What a client has heard of this daemon is not ahead of it.
HeardInv ==
    /\ heard.epoch <= d.epoch
    /\ heard.epoch = d.epoch =>
         heard.rev <= d.rev /\ heard.status <= d.status /\ StatusAt(heard.rev) <= heard.status

\* What is on its way follows on what was heard, or on a snapshot.
Linked(q) ==
    \A i \in 1..Len(q) :
        /\ Valid(q[i])
        /\ i > 1 => q[i].kind # "snapshot" /\ q[i].rev = q[i - 1].rev + 1
        /\ i = 1 /\ q[i].kind # "snapshot" => heard.epoch = d.epoch /\ q[i].rev = heard.rev + 1
        /\ i = 1 /\ heard.epoch = d.epoch => heard.rev <= q[i].rev

\* Events that have been filled in with a status carry ever newer ones.
Front(s) == s.out \o s.hold \o s.todo
Rising(p) ==
    /\ \A i, j \in 1..Len(p) :
         i <= j /\ p[i].kind # "other" /\ p[j].kind # "other" => p[i].status <= p[j].status
    /\ heard.epoch = d.epoch =>
         \A i \in 1..Len(p) : p[i].kind # "other" => heard.status <= p[i].status

Latest(q) == IF q = <<>> THEN heard.rev ELSE q[Len(q)].rev

StreamInv ==
    /\ Len(stream.hold) <= 1
    /\ \A i \in 1..Len(stream.live) : stream.live[i].kind # "snapshot"
    /\ ~stream.open => ~stream.registered
    /\ d.phase = "down" => ~stream.open
    /\ stream.open =>
         /\ Linked(Queued(stream)) /\ Rising(Front(stream))
         /\ Queued(stream) = <<>> => heard.epoch = d.epoch
         /\ stream.registered => Latest(Queued(stream)) = d.rev

\* A menu that does not show the status will be rebuilt.
MenuInv ==
    \/ tray.menu = tray.status
    \/ tray.loop \in {"debounce", "drained"} \/ tray.rebuildCh \/ tray.changed
    \/ tray.refresh = "signal"

IInv ==
    /\ TypeOK
    /\ HistInv /\ RingInv /\ HeardInv /\ StreamInv /\ MenuInv

-----------------------------------------------------------------------------
(* Sequences of messages.                                                   *)

\* Moving the first element of the second sequence to the end of the first.
LEMMA MoveHead ==
    ASSUME NEW S, NEW a \in Seq(S), NEW b \in Seq(S), b # <<>>
    PROVE  (a \o <<Head(b)>>) \o Tail(b) = a \o b
<1>1. /\ Head(b) \in S /\ Tail(b) \in Seq(S) /\ Len(Tail(b)) = Len(b) - 1 /\ Len(b) \in Nat \ {0}
      /\ Head(b) = b[1] /\ \A i \in 1..Len(Tail(b)) : Tail(b)[i] = b[i + 1]
  BY HeadTailProperties
<1> DEFINE l == (a \o <<Head(b)>>) \o Tail(b)
           r == a \o b
<1>2. /\ a \o <<Head(b)>> \in Seq(S) /\ Len(a \o <<Head(b)>>) = Len(a) + 1 /\ Len(a) \in Nat
      /\ (a \o <<Head(b)>>)[Len(a) + 1] = Head(b)
      /\ \A i \in 1..Len(a) : (a \o <<Head(b)>>)[i] = a[i]
  BY <1>1
<1>3. l \in Seq(S) /\ r \in Seq(S) /\ Len(l) = Len(a) + Len(b) /\ Len(r) = Len(a) + Len(b)
  BY <1>1, <1>2, ConcatProperties
<1>4. ASSUME NEW i \in 1..(Len(a) + Len(b)) PROVE l[i] = r[i]
  <2>1. CASE i <= Len(a)
    BY <1>1, <1>2, <2>1, ConcatProperties
  <2>2. CASE i = Len(a) + 1
    BY <1>1, <1>2, <2>2, ConcatProperties
  <2>3. CASE i > Len(a) + 1
    <3>1. l[i] = Tail(b)[i - (Len(a) + 1)] /\ r[i] = b[i - Len(a)]
      BY <1>1, <1>2, <2>3, ConcatProperties
    <3>2. i - (Len(a) + 1) \in 1..Len(Tail(b)) /\ i - (Len(a) + 1) + 1 = i - Len(a)
      BY <1>1, <1>2, <2>3
    <3> QED
      BY <1>1, <3>1, <3>2
  <2> QED
    BY <1>2, <2>1, <2>2, <2>3
<1> HIDE DEF l, r
<1>5. l = r
  BY <1>3, <1>4, SeqEqual
<1> QED
  BY <1>5 DEF l, r

\* The head and the tail of a concatenation.
LEMMA TailConcat ==
    ASSUME NEW S, NEW a \in Seq(S), NEW b \in Seq(S), a # <<>>
    PROVE  a \o b # <<>> /\ Head(a \o b) = Head(a) /\ Tail(a \o b) = Tail(a) \o b
<1>1. /\ Head(a) = a[1] /\ Tail(a) \in Seq(S) /\ Len(Tail(a)) = Len(a) - 1 /\ Len(a) \in Nat \ {0}
      /\ \A i \in 1..Len(Tail(a)) : Tail(a)[i] = a[i + 1]
  BY HeadTailProperties
<1> DEFINE q == a \o b
<1>2. q \in Seq(S) /\ Len(q) = Len(a) + Len(b) /\ Len(b) \in Nat /\ q[1] = a[1]
  BY <1>1, ConcatProperties
<1>3. q # <<>> /\ Head(q) = Head(a)
  BY <1>1, <1>2, EmptySeq, HeadTailProperties
<1>4. /\ Tail(q) \in Seq(S) /\ Len(Tail(q)) = Len(q) - 1
      /\ \A i \in 1..Len(Tail(q)) : Tail(q)[i] = q[i + 1]
  BY <1>2, <1>3, HeadTailProperties
<1>5. /\ Tail(a) \o b \in Seq(S) /\ Len(Tail(a) \o b) = Len(q) - 1
  BY <1>1, <1>2, ConcatProperties
<1>6. ASSUME NEW i \in 1..(Len(q) - 1) PROVE Tail(q)[i] = (Tail(a) \o b)[i]
  <2>1. Tail(q)[i] = q[i + 1]
    BY <1>4
  <2>2. CASE i <= Len(a) - 1
    BY <1>1, <1>2, <2>1, <2>2, ConcatProperties
  <2>3. CASE i > Len(a) - 1
    <3>1. (Tail(a) \o b)[i] = b[i - (Len(a) - 1)] /\ q[i + 1] = b[(i + 1) - Len(a)]
      BY <1>1, <1>2, <2>3, ConcatProperties
    <3>2. i - (Len(a) - 1) = (i + 1) - Len(a)
      BY <1>1
    <3> QED
      BY <2>1, <3>1, <3>2
  <2> QED
    BY <1>1, <2>2, <2>3
<1> HIDE DEF q
<1>7. Tail(q) = Tail(a) \o b
  BY <1>4, <1>5, <1>6, SeqEqual
<1> QED
  BY <1>3, <1>7 DEF q

\* Appending to the second of two sequences.
LEMMA ConcatAppend ==
    ASSUME NEW S, NEW a \in Seq(S), NEW b \in Seq(S), NEW m \in S
    PROVE  a \o Append(b, m) = Append(a \o b, m)
<1>1. Append(b, m) = b \o <<m>> /\ Append(a \o b, m) = (a \o b) \o <<m>> /\ <<m>> \in Seq(S)
  BY AppendIsConcat, ConcatProperties
<1> QED
  BY <1>1, ConcatAssociative

\* The sequences of a stream.
LEMMA QueueTyped ==
    ASSUME NEW s \in Stream
    PROVE  /\ s.out \in Seq(Message) /\ s.hold \in Seq(Message) /\ s.todo \in Seq(Message)
           /\ s.live \in Seq(Message)
           /\ s.out \o s.hold \in Seq(Message) /\ Front(s) \in Seq(Message)
           /\ Queued(s) = Front(s) \o s.live /\ Queued(s) \in Seq(Message)
           /\ Len(Queued(s)) = Len(Front(s)) + Len(s.live)
           /\ \A i \in 1..Len(Front(s)) : Queued(s)[i] = Front(s)[i]
<1>1. /\ s.out \in Seq(Message) /\ s.hold \in Seq(Message) /\ s.todo \in Seq(Message)
      /\ s.live \in Seq(Message)
  BY DEF Stream
<1>2. s.out \o s.hold \in Seq(Message)
  BY <1>1, ConcatProperties
<1>3. Front(s) \in Seq(Message)
  BY <1>1, <1>2, ConcatProperties DEF Front
<1>4. Queued(s) = Front(s) \o s.live
  BY DEF Queued, Front
<1> QED
  BY <1>1, <1>2, <1>3, <1>4, ConcatProperties

-----------------------------------------------------------------------------
(* The tray.                                                                *)

\* A step of the tray keeps the invariant if a menu that is not current will be rebuilt.
LEMMA TrayKeeps ==
    ASSUME IInv, UNCHANGED <<present, d, stream, heard, breaks, hist>>,
           tray' \in [status : Shown, heard : Shown, menu : Shown, got : Shown,
                      refresh : {"idle", "read", "signal"}, changed : BOOLEAN,
                      rebuildCh : BOOLEAN, loop : {"idle", "debounce", "drained", "render"}],
           MenuInv'
    PROVE  IInv'
<1>1. TypeOK'
  BY DEF IInv, TypeOK
<1>2. HistInv' /\ RingInv'
  BY DEF IInv, HistInv, RingInv, Valid, StatusAt
<1>3. HeardInv' /\ StreamInv'
  BY DEF IInv, HeardInv, StreamInv, StatusAt, Linked, Rising, Valid, Latest
<1> QED
  BY <1>1, <1>2, <1>3 DEF IInv

\* What the tray keeps.
LEMMA TrayTyped ==
    ASSUME IInv
    PROVE  /\ tray \in [status : Shown, heard : Shown, menu : Shown, got : Shown,
                        refresh : {"idle", "read", "signal"}, changed : BOOLEAN,
                        rebuildCh : BOOLEAN, loop : {"idle", "debounce", "drained", "render"}]
           /\ [epoch |-> d.epoch, status |-> d.status] \in Shown /\ Nothing \in Shown
           /\ d.epoch \in Epochs /\ d.status \in Versions
<1>1. MaxEpoch \in Nat \ {0} /\ MaxStatus \in Nat
  BY WatchAssumption
<1>2. d.epoch \in 1..MaxEpoch /\ d.status \in Versions
  BY DEF IInv, TypeOK
<1>3. d.epoch \in Epochs /\ 0 \in Epochs /\ 0 \in Versions
  BY <1>1, <1>2 DEF Epochs, Versions
<1> QED
  BY <1>2, <1>3 DEF IInv, TypeOK, Shown, Nothing

\* A new status is going to be shown.
LEMMA HandleNotifyKeeps ==
    ASSUME IInv, HandleNotify
    PROVE  IInv'
<1>1. UNCHANGED <<present, d, stream, heard, breaks, hist>>
  BY DEF HandleNotify
<1>2. PICK v \in 0..d.status : LET m == [epoch |-> d.epoch, status |-> v]
                              IN tray' = [tray EXCEPT !.status = m, !.heard = m, !.changed = TRUE]
  BY DEF HandleNotify
<1> DEFINE m == [epoch |-> d.epoch, status |-> v]
<1>3. d.status \in Nat /\ v \in Versions
  BY TrayTyped, WatchAssumption DEF Versions
<1>4. m \in Shown
  BY <1>3, TrayTyped DEF Shown
<1>5. tray' = [tray EXCEPT !.status = m, !.heard = m, !.changed = TRUE]
  BY <1>2
<1> HIDE DEF m
<1>6. tray' \in [status : Shown, heard : Shown, menu : Shown, got : Shown,
                 refresh : {"idle", "read", "signal"}, changed : BOOLEAN,
                 rebuildCh : BOOLEAN, loop : {"idle", "debounce", "drained", "render"}]
      /\ tray'.changed
  BY <1>4, <1>5, TrayTyped
<1>7. MenuInv'
  BY <1>6 DEF MenuInv
<1> QED
  BY <1>1, <1>6, <1>7, TrayKeeps

\* A request for a rebuild is kept until the loop takes it; the loop copies the status only
\* after it has taken all requests.
LEMMA TrayStepKeeps ==
    ASSUME IInv, TrayStep \/ RefreshReads
    PROVE  IInv'
<1> DEFINE T == [status : Shown, heard : Shown, menu : Shown, got : Shown,
                 refresh : {"idle", "read", "signal"}, changed : BOOLEAN,
                 rebuildCh : BOOLEAN, loop : {"idle", "debounce", "drained", "render"}]
<1>1. tray \in T /\ [epoch |-> d.epoch, status |-> d.status] \in Shown /\ Nothing \in Shown
      /\ tray.status \in Shown /\ tray.got \in Shown
  BY TrayTyped
<1>2. UNCHANGED <<present, d, stream, heard, breaks, hist>>
  BY DEF TrayStep, RefreshReads, RequestRebuild, RefreshStores, RebuildWakes, DrainRebuilds,
         Rebuild, Rendered
<1> SUFFICES tray' \in T /\ MenuInv'
  BY <1>2, TrayKeeps
<1>3. MenuInv
  BY DEF IInv
<1>4. CASE RefreshReads
  <2> DEFINE m == IF Running THEN [epoch |-> d.epoch, status |-> d.status] ELSE Nothing
  <2>1. tray' = [tray EXCEPT !.refresh = "read", !.got = m]
    BY <1>4 DEF RefreshReads
  <2>2. m \in Shown
    BY <1>1
  <2> HIDE DEF m
  <2>3. tray' \in T
    BY <1>1, <2>1, <2>2
  <2>4. tray.refresh = "idle"
    BY <1>4 DEF RefreshReads
  <2>5. MenuInv'
    BY <1>1, <1>3, <2>1, <2>4 DEF MenuInv
  <2> QED
    BY <2>3, <2>5
<1>5. CASE RequestRebuild
  <2>1. \/ tray' = [tray EXCEPT !.rebuildCh = TRUE, !.changed = FALSE]
        \/ tray' = [tray EXCEPT !.rebuildCh = TRUE, !.refresh = "idle"]
    BY <1>5 DEF RequestRebuild
  <2> QED
    BY <1>1, <2>1 DEF MenuInv
<1>6. CASE RefreshStores
  <2>1. tray' = [tray EXCEPT !.refresh = "signal", !.status = tray.got, !.got = Nothing]
    BY <1>6 DEF RefreshStores
  <2> QED
    BY <1>1, <2>1 DEF MenuInv
<1>7. CASE RebuildWakes
  <2>1. tray' = [tray EXCEPT !.loop = "debounce", !.rebuildCh = FALSE]
    BY <1>7 DEF RebuildWakes
  <2> QED
    BY <1>1, <2>1 DEF MenuInv
<1>8. CASE DrainRebuilds
  <2>1. tray' = [tray EXCEPT !.loop = "drained", !.rebuildCh = FALSE]
    BY <1>8 DEF DrainRebuilds
  <2> QED
    BY <1>1, <2>1 DEF MenuInv
<1>9. CASE Rebuild
  <2>1. tray' = [tray EXCEPT !.loop = "render", !.menu = tray.status]
    BY <1>9 DEF Rebuild
  <2> QED
    BY <1>1, <2>1 DEF MenuInv
<1>10. CASE Rendered
  <2>1. tray' = [tray EXCEPT !.loop = "idle"] /\ tray.loop = "render"
    BY <1>10 DEF Rendered
  <2> QED
    BY <1>1, <1>3, <2>1 DEF MenuInv
<1> QED
  BY <1>4, <1>5, <1>6, <1>7, <1>8, <1>9, <1>10 DEF TrayStep

-----------------------------------------------------------------------------
(* The stream.                                                              *)

\* A step that changes neither the daemon nor the history.
LEMMA StreamKeeps ==
    ASSUME IInv, UNCHANGED <<present, d, tray, hist>>, breaks' \in 0..MaxBreaks,
           stream' \in Stream, Len(stream'.live) <= Buf, Len(stream'.out) <= Buf,
           heard' \in [epoch : Epochs, rev : Revs, status : Versions], HeardInv', StreamInv'
    PROVE  IInv'
<1>1. TypeOK'
  BY DEF IInv, TypeOK
<1>2. HistInv' /\ RingInv' /\ MenuInv'
  BY DEF IInv, HistInv, RingInv, Valid, StatusAt, MenuInv
<1> QED
  BY <1>1, <1>2 DEF IInv

\* With the same daemon and client the queue is judged by what is in it.
LEMMA SameJudge ==
    ASSUME UNCHANGED <<d, hist, heard>>
    PROVE  /\ Linked(Queued(stream))' <=> Linked(Queued(stream'))
           /\ Rising(Front(stream))' <=> Rising(Front(stream'))
           /\ Latest(Queued(stream))' = Latest(Queued(stream'))
           /\ HeardInv' <=> HeardInv
BY DEF Linked, Rising, Latest, HeardInv, Valid, StatusAt

\* The stream is over.
LEMMA NoStreamKeeps ==
    ASSUME IInv, UNCHANGED <<present, d, tray, hist, heard>>, breaks' \in 0..MaxBreaks,
           stream' = NoStream
    PROVE  IInv'
<1>1. /\ NoStream \in Stream /\ ~NoStream.open /\ ~NoStream.registered
      /\ Len(NoStream.live) = 0 /\ Len(NoStream.out) = 0 /\ Len(NoStream.hold) = 0
  BY DEF NoStream, Stream
<1>2. Buf \in Nat
  BY WatchAssumption
<1>3. HeardInv' /\ StreamInv'
  BY <1>1, SameJudge DEF IInv, StreamInv
<1> QED
  BY <1>1, <1>2, <1>3, StreamKeeps DEF IInv, TypeOK

\* A message is only moved on.
LEMMA MoveKeeps ==
    ASSUME IInv, UNCHANGED <<present, d, heard, tray, breaks, hist>>, stream' \in Stream,
           stream'.open = stream.open, stream'.registered = stream.registered,
           stream'.live = stream.live, Len(stream'.out) <= Buf, Len(stream'.hold) <= 1,
           Front(stream') = Front(stream)
    PROVE  IInv'
<1>1. stream \in Stream /\ Len(stream.live) <= Buf
  BY DEF IInv, TypeOK
<1>2. Queued(stream') = Queued(stream)
  BY <1>1, QueueTyped
<1>3. StreamInv' /\ HeardInv'
  BY <1>2, SameJudge DEF IInv, StreamInv
<1> QED
  BY <1>1, <1>3, StreamKeeps DEF IInv, TypeOK

\* The forwarder passes on what it holds.
LEMMA PutKeeps ==
    ASSUME IInv, Put
    PROVE  IInv'
<1> DEFINE o == stream.out \o stream.hold
           e == <<>>
<1>1. /\ stream' = [stream EXCEPT !.out = o, !.hold = e]
      /\ UNCHANGED <<present, d, heard, tray, breaks, hist>>
      /\ Len(stream.out) < Buf /\ stream.open
  BY DEF Put
<1>2. stream \in Stream /\ Len(stream.hold) <= 1 /\ Buf \in Nat
  BY WatchAssumption DEF IInv, TypeOK, StreamInv
<1>3. o \in Seq(Message) /\ Len(o) = Len(stream.out) + Len(stream.hold)
      /\ Len(stream.out) \in Nat /\ Len(stream.hold) \in Nat
  BY <1>2, QueueTyped, ConcatProperties, LenProperties
<1>4. o \o e = o /\ e \in Seq(Message) /\ Len(e) = 0
  BY <1>3, ConcatEmptySeq
<1>5. Front(stream) = o \o stream.todo
  BY DEF Front
<1> HIDE DEF o, e
<1>6. /\ stream' \in Stream /\ stream'.open = stream.open /\ stream'.registered = stream.registered
      /\ stream'.live = stream.live /\ stream'.out = o /\ stream'.hold = e
      /\ stream'.todo = stream.todo
  BY <1>1, <1>2, <1>3, <1>4 DEF Stream
<1>7. Front(stream') = Front(stream)
  BY <1>4, <1>5, <1>6 DEF Front
<1>8. Len(stream'.out) <= Buf /\ Len(stream'.hold) <= 1
  <2>1. Len(stream.out) < Buf
    BY <1>1
  <2>2. Len(o) <= Buf
    <3> DEFINE a == Len(stream.out)
               b == Len(stream.hold)
    <3>1. a \in Nat /\ b \in Nat /\ Buf \in Nat /\ a < Buf /\ b <= 1 /\ Len(o) = a + b
      BY <1>2, <1>3, <2>1
    <3> HIDE DEF a, b
    <3> QED
      BY <3>1
  <2>3. Len(e) <= 1
    BY <1>4
  <2> QED
    BY <1>6, <2>2, <2>3
<1> QED
  BY <1>1, <1>6, <1>7, <1>8, MoveKeeps

\* It takes the next one of the replay.
LEMMA TakeTodoKeeps ==
    ASSUME IInv, stream.open, stream.hold = <<>>, stream.todo # <<>>,
           stream' = [stream EXCEPT !.hold = <<Head(stream.todo)>>, !.todo = Tail(@)],
           UNCHANGED <<present, d, heard, tray, breaks, hist>>
    PROVE  IInv'
<1> DEFINE h == Head(stream.todo)
           t == Tail(stream.todo)
<1>1. stream \in Stream /\ Len(stream.out) <= Buf
  BY DEF IInv, TypeOK
<1>2. stream.out \in Seq(Message) /\ stream.todo \in Seq(Message)
  BY <1>1, QueueTyped
<1>3. h \in Message /\ t \in Seq(Message) /\ <<h>> \in Seq(Message) /\ Len(<<h>>) = 1
  BY <1>2, HeadTailProperties
<1>4. (stream.out \o <<h>>) \o t = stream.out \o stream.todo
  BY <1>2, MoveHead
<1>5. stream' = [stream EXCEPT !.hold = <<h>>, !.todo = t]
  OBVIOUS
<1> HIDE DEF h, t
<1>6. /\ stream' \in Stream /\ stream'.open = stream.open /\ stream'.registered = stream.registered
      /\ stream'.live = stream.live /\ stream'.out = stream.out /\ stream'.hold = <<h>>
      /\ stream'.todo = t
  BY <1>1, <1>3, <1>5 DEF Stream
<1>7. Front(stream) = stream.out \o stream.todo
  BY <1>2, ConcatEmptySeq DEF Front
<1>8. Front(stream') = Front(stream)
  BY <1>4, <1>6, <1>7 DEF Front
<1>9. Len(stream'.out) <= Buf /\ Len(stream'.hold) <= 1
  BY <1>1, <1>3, <1>6
<1> QED
  BY <1>6, <1>8, <1>9, MoveKeeps

\* Filling in a status.
LEMMA ForActorFields ==
    ASSUME IInv, NEW m \in Message, Valid(m)
    PROVE  /\ ForActor(m) \in Message /\ Valid(ForActor(m))
           /\ ForActor(m).rev = m.rev /\ ForActor(m).kind = m.kind
           /\ m.kind = "status" => ForActor(m).status = d.status
<1> DEFINE v == IF m.kind = "status" THEN d.status ELSE m.status
<1>1. ForActor(m) = [m EXCEPT !.status = v]
  BY DEF ForActor
<1>2. d.status \in Versions /\ d.status \in Nat /\ m.status \in Versions /\ m.rev \in Nat
      /\ m.status \in Nat
  BY WatchAssumption DEF IInv, TypeOK, Message, Revs, Versions
<1>3. v \in Versions /\ m.status <= v /\ v <= d.status /\ (m.kind = "status" => v = d.status)
      /\ v \in Nat
  BY <1>2 DEF Valid
<1> HIDE DEF v
<1>4. /\ ForActor(m) \in Message /\ ForActor(m).rev = m.rev /\ ForActor(m).kind = m.kind
      /\ ForActor(m).status = v
  BY <1>1, <1>3 DEF Message
<1>5. StatusAt(m.rev) \in Nat
  <2>1. CASE m.rev = 0
    BY <2>1 DEF StatusAt
  <2>2. CASE m.rev # 0
    <3>1. m.rev \in 1..Len(hist) /\ hist \in Seq(Versions)
      BY <1>2, <2>2 DEF IInv, TypeOK, HistInv, Valid
    <3>2. hist[m.rev] \in Versions
      BY <3>1, ElementOfSeq
    <3> QED
      BY <2>2, <3>2, WatchAssumption DEF StatusAt, Versions
  <2> QED
    BY <2>1, <2>2
<1>6. m.kind # "other" => StatusAt(m.rev) <= v
  <2>1. m.kind # "other" => StatusAt(m.rev) <= m.status
    BY DEF Valid
  <2> QED
    BY <1>2, <1>3, <1>5, <2>1
<1> QED
  BY <1>3, <1>4, <1>6 DEF Valid

\* The replay for a client that does not need a snapshot begins after what it has and ends
\* with the newest event.
LEMMA ReplayFields ==
    ASSUME IInv, NEW since \in Nat, since <= d.rev, ~NeedSnapshot(d.epoch, since)
    PROVE  /\ Replay(since) \in Seq(Message) /\ Len(Replay(since)) = d.rev - since
           /\ \A n \in 1..(d.rev - since) :
                /\ Replay(since)[n].rev = since + n /\ Valid(Replay(since)[n])
                /\ Replay(since)[n].kind # "snapshot"
                /\ Replay(since)[n].kind # "other" => Replay(since)[n].status = d.status
<1> DEFINE L == Len(d.ring)
           a == L - (d.rev - since)
           later == {i \in 1..L : d.ring[i].rev > since}
           Nth(n) == CHOOSE i \in later : Cardinality({j \in later : j <= i}) = n
<1>1. /\ d.ring \in Seq(Message) /\ L \in Nat /\ d.rev \in Nat
      /\ \A i \in 1..L : d.ring[i] \in Message /\ d.ring[i].rev \in Nat
  <2>1. d.ring \in Seq(Message) /\ L \in Nat /\ d.rev \in Revs
    BY LenProperties DEF IInv, TypeOK
  <2>2. \A i \in 1..L : d.ring[i] \in Message
    BY <2>1, ElementOfSeq
  <2> QED
    BY <2>1, <2>2, WatchAssumption DEF Revs, Message
<1>2. \A i \in 1..L : /\ d.ring[i].rev + (L - i) = d.rev
                      /\ Valid(d.ring[i]) /\ d.ring[i].kind # "snapshot"
  BY DEF IInv, RingInv
<1>3. d.ring # <<>> /\ since + 1 >= Head(d.ring).rev
  <2>1. since # 0 /\ ~(d.ring # <<>> /\ since + 1 < Head(d.ring).rev)
    BY DEF NeedSnapshot
  <2>2. d.ring # <<>>
    BY <1>1, <2>1 DEF IInv, RingInv
  <2>3. Head(d.ring) = d.ring[1] /\ 1 \in 1..L
    BY <1>1, <2>2, HeadTailProperties, EmptySeq
  <2> QED
    BY <1>1, <2>1, <2>2, <2>3
<1>4. L > 0 /\ Head(d.ring) = d.ring[1]
  BY <1>1, <1>3, HeadTailProperties, EmptySeq
<1>5. a \in Nat /\ a <= L /\ d.rev - since = L - a
  <2>1. d.ring[1].rev + (L - 1) = d.rev /\ d.ring[1].rev \in Nat /\ since + 1 >= d.ring[1].rev
    BY <1>1, <1>2, <1>3, <1>4
  <2> DEFINE h == d.ring[1].rev
             z == d.rev
  <2>2. /\ h \in Nat /\ z \in Nat /\ L \in Nat /\ h + (L - 1) = z /\ since + 1 >= h
        /\ since <= z
    BY <1>1, <2>1
  <2>3. a = L - (z - since)
    OBVIOUS
  <2> HIDE DEF h, z, L, a
  <2>4. a \in Nat /\ a <= L /\ z - since = L - a
    BY <2>2, <2>3
  <2> QED
    BY <2>4 DEF z
<1>6. ASSUME NEW i \in 1..L PROVE d.ring[i].rev > since <=> i > a
  <2>h. PICK h \in Nat : h = d.ring[i].rev
    BY <1>1
  <2>z. PICK z \in Nat : z = d.rev
    BY <1>1
  <2>l. PICK l \in Nat : l = L
    BY <1>1
  <2>a. a = l - (z - since)
    BY <2>z, <2>l
  <2>b. d.ring[i].rev + (L - i) = d.rev
    BY <1>2
  <2> HIDE DEF a, L
  <2>1. h + (l - i) = z /\ a = l - (z - since) /\ i \in Nat
    BY <2>a, <2>b, <2>h, <2>z, <2>l
  <2>2. h > since <=> i > a
    BY <2>1
  <2> QED
    BY <2>h, <2>2
<1> HIDE DEF L, a
<1>7. later = (a + 1)..L
  <2>1. \A i \in 1..L : i > a <=> i >= a + 1
    BY <1>1, <1>5
  <2>2. (a + 1)..L \subseteq 1..L
    BY <1>1, <1>5
  <2> QED
    BY <1>1, <1>5, <1>6, <2>1, <2>2
<1> HIDE DEF later
<1>8. Cardinality(later) = d.rev - since
  <2>1. Cardinality((a + 1)..L) = IF a + 1 > L THEN 0 ELSE L - (a + 1) + 1
    BY <1>1, <1>5, FS_Interval
  <2> QED
    BY <1>1, <1>5, <1>7, <2>1
<1>9. ASSUME NEW i \in later PROVE Cardinality({j \in later : j <= i}) = i - a
  <2>1. {j \in later : j <= i} = (a + 1)..i
    BY <1>1, <1>5, <1>7
  <2>2. Cardinality((a + 1)..i) = IF a + 1 > i THEN 0 ELSE i - (a + 1) + 1
    BY <1>1, <1>5, <1>7, FS_Interval
  <2>3. i \in Nat /\ ~(a + 1 > i)
    BY <1>1, <1>5, <1>7
  <2>4. i - (a + 1) + 1 = i - a
    BY <1>5, <2>3
  <2> QED
    BY <2>1, <2>2, <2>3, <2>4
<1>10. ASSUME NEW n \in 1..(d.rev - since) PROVE Nth(n) = a + n /\ a + n \in 1..L
  <2>1. a + n \in later /\ a + n \in 1..L
    BY <1>1, <1>5, <1>7
  <2>2. Cardinality({j \in later : j <= a + n}) = n
    <3>1. Cardinality({j \in later : j <= a + n}) = (a + n) - a
      BY <1>9, <2>1
    <3> QED
      BY <1>5, <3>1
  <2>3. \E i \in later : Cardinality({j \in later : j <= i}) = n
    BY <2>1, <2>2
  <2>4. Nth(n) \in later /\ Cardinality({j \in later : j <= Nth(n)}) = n
    BY <2>3
  <2>5. Nth(n) - a = n
    BY <1>9, <2>4
  <2>6. Nth(n) \in Nat
    BY <1>5, <1>7, <2>4
  <2> HIDE DEF Nth
  <2> QED
    BY <1>5, <2>1, <2>5, <2>6
<1> DEFINE R == [n \in 1..(d.rev - since) |-> ForActor(d.ring[Nth(n)])]
<1>11. Replay(since) = R
  BY <1>8 DEF Replay, later, L
<1>12. d.rev - since \in Nat
  BY <1>1
<1> HIDE DEF Nth
<1>13. ASSUME NEW n \in 1..(d.rev - since)
       PROVE  /\ R[n] = ForActor(d.ring[a + n])
              /\ R[n] \in Message /\ R[n].rev = since + n /\ Valid(R[n])
              /\ R[n].kind # "snapshot" /\ (R[n].kind # "other" => R[n].status = d.status)
  <2> DEFINE m == d.ring[a + n]
  <2>1. R[n] = ForActor(m)
    BY <1>10
  <2>2. /\ m \in Message /\ Valid(m) /\ m.kind # "snapshot" /\ m.kind \in {"snapshot", "status", "other"}
        /\ m.rev + (L - (a + n)) = d.rev /\ m.rev \in Nat
    BY <1>1, <1>2, <1>10 DEF Message
  <2>3. m.rev = since + n
    <3> DEFINE z == d.rev
               u == m.rev
    <3>1. /\ z \in Nat /\ u \in Nat /\ L \in Nat /\ a \in Nat /\ n \in Nat
          /\ u + (L - (a + n)) = z /\ z - since = L - a
      BY <1>1, <1>5, <1>12, <2>2
    <3> HIDE DEF z, u
    <3>2. u = since + n
      BY <3>1
    <3> QED
      BY <3>2 DEF u
  <2> HIDE DEF m
  <2>4. /\ ForActor(m) \in Message /\ Valid(ForActor(m))
        /\ ForActor(m).rev = m.rev /\ ForActor(m).kind = m.kind
        /\ m.kind = "status" => ForActor(m).status = d.status
    BY <2>2, ForActorFields
  <2> HIDE DEF R
  <2> QED
    BY <2>1, <2>2, <2>3, <2>4 DEF m
<1>14. R \in Seq(Message) /\ Len(R) = d.rev - since
  <2>1. R \in [1..(d.rev - since) -> Message]
    BY <1>13
  <2> HIDE DEF R
  <2> QED
    BY <1>12, <2>1
<1> HIDE DEF R
<1> QED
  BY <1>11, <1>13, <1>14

\* Two sequences, the first of length k.
LEMMA Joined ==
    ASSUME NEW S, NEW b \in Seq(S), NEW t \in Seq(S), NEW k, k = Len(b), NEW n, n = Len(t),
           NEW s, s = b \o t
    PROVE  /\ s \in Seq(S) /\ Len(s) = k + n /\ k \in Nat /\ n \in Nat
           /\ \A i \in 1..k : s[i] = b[i]
           /\ \A i \in (k + 1)..(k + n) : s[i] = t[i - k]
<1>1. s \in Seq(S) /\ Len(s) = k + n /\ k \in Nat /\ n \in Nat
  BY ConcatProperties, LenProperties
<1>2. \A i \in 1..(k + n) : s[i] = IF i <= k THEN b[i] ELSE t[i - k]
  BY ConcatProperties
<1> DEFINE P(i) == s[i] = IF i <= k THEN b[i] ELSE t[i - k]
<1>3. k \in Nat /\ n \in Nat /\ \A i \in 1..(k + n) : P(i)
  BY <1>1, <1>2
<1>4. ASSUME NEW i \in 1..k PROVE s[i] = b[i]
  <2>1. i <= k /\ P(i)
    <3> HIDE DEF P
    <3> QED
      BY <1>3
  <2> QED
    BY <2>1
<1>5. ASSUME NEW i \in (k + 1)..(k + n) PROVE s[i] = t[i - k]
  <2>1. ~(i <= k) /\ P(i)
    <3> HIDE DEF P
    <3> QED
      BY <1>3
  <2> QED
    BY <2>1
<1> QED
  BY <1>1, <1>4, <1>5

\* One element between two sequences of messages, at place k.
Spliced(s, a, m, t, k, n) ==
    /\ k \in Nat /\ k >= 1 /\ n \in Nat
    /\ s \in Seq(Message) /\ Len(s) = k + n /\ s[k] = m
    /\ \A i \in 1..(k - 1) : s[i] = a[i]
    /\ \A i \in (k + 1)..(k + n) : s[i] = t[i - k]

\* Where the elements of such a sequence are.
LEMMA Splice ==
    ASSUME NEW a \in Seq(Message), NEW m \in Message, NEW t \in Seq(Message),
           NEW k, k = Len(a) + 1, NEW n, n = Len(t), NEW s, s = (a \o <<m>>) \o t
    PROVE  Spliced(s, a, m, t, k, n)
<1> DEFINE b == a \o <<m>>
<1>1. k \in Nat /\ k >= 1 /\ k - 1 = Len(a)
  BY LenProperties
<1>2. b \in Seq(Message) /\ Len(b) = k /\ b[k] = m /\ \A i \in 1..(k - 1) : b[i] = a[i]
  BY <1>1
<1>3. s = b \o t
  OBVIOUS
<1> HIDE DEF b
<1>4. /\ s \in Seq(Message) /\ Len(s) = k + n /\ n \in Nat
      /\ \A i \in 1..k : s[i] = b[i]
      /\ \A i \in (k + 1)..(k + n) : s[i] = t[i - k]
  BY <1>2, <1>3, Joined
<1>5. k \in 1..k /\ \A i \in 1..(k - 1) : i \in 1..k
  BY <1>1
<1> QED
  BY <1>1, <1>2, <1>4, <1>5 DEF Spliced

\* A live event is filled in with the present status, which nothing before it exceeds.
LEMMA TakeLiveKeeps ==
    ASSUME IInv, stream.open, stream.hold = <<>>, stream.todo = <<>>, stream.live # <<>>,
           stream' = [stream EXCEPT !.hold = <<ForActor(Head(stream.live))>>, !.live = Tail(@)],
           UNCHANGED <<present, d, heard, tray, breaks, hist>>
    PROVE  IInv'
<1> DEFINE g == Head(stream.live)
           f == ForActor(g)
           t == Tail(stream.live)
           o == stream.out
           q == Queued(stream)
           r == Queued(stream')
<1>1. stream \in Stream /\ Len(stream.out) <= Buf /\ Len(stream.live) <= Buf /\ Buf \in Nat
  BY WatchAssumption DEF IInv, TypeOK
<1>2. o \in Seq(Message) /\ stream.live \in Seq(Message) /\ Len(o) \in Nat
  BY <1>1, QueueTyped, LenProperties
<1>3. /\ g \in Message /\ t \in Seq(Message) /\ Len(t) = Len(stream.live) - 1
      /\ Len(stream.live) \in Nat \ {0} /\ g = stream.live[1]
      /\ \A i \in 1..Len(t) : t[i] = stream.live[i + 1]
  BY <1>2, HeadTailProperties
<1>4. Front(stream) = o /\ q = o \o stream.live
  BY <1>2, ConcatEmptySeq DEF Front, Queued
<1>k. PICK k : k = Len(o) + 1
  OBVIOUS
<1>5. q = (o \o <<g>>) \o t
  BY <1>2, <1>4, MoveHead
<1>6. Linked(q) /\ Rising(o) /\ g.kind # "snapshot"
  BY <1>3, <1>4 DEF IInv, StreamInv
<1>n. PICK n : n = Len(t)
  OBVIOUS
<1>8. /\ k \in Nat /\ k >= 1 /\ n \in Nat /\ q \in Seq(Message) /\ Len(q) = k + n
      /\ q[k] = g /\ \A i \in 1..(k - 1) : q[i] = o[i]
      /\ \A i \in (k + 1)..(k + n) : q[i] = t[i - k]
  <2>1. Spliced(q, o, g, t, k, n)
    <3> HIDE DEF g, t, o, q
    <3> QED
      BY <1>2, <1>3, <1>k, <1>n, <1>5, Splice
  <2> QED
    BY <2>1 DEF Spliced
<1>9. Valid(g)
  <2>1. k \in 1..Len(q)
    BY <1>8, <1>n
  <2> QED
    BY <1>6, <1>8, <2>1 DEF Linked
<1>10. /\ f \in Message /\ Valid(f) /\ f.rev = g.rev /\ f.kind = g.kind
       /\ g.kind = "status" => f.status = d.status
  BY <1>3, <1>9, ForActorFields
<1>11. stream' = [stream EXCEPT !.hold = <<f>>, !.live = t]
  OBVIOUS
<1> HIDE DEF f
<1>12. <<f>> \in Seq(Message) /\ Len(<<f>>) = 1
  BY <1>10
<1> DEFINE e == <<f>>
<1>13. stream' = [stream EXCEPT !.hold = e, !.live = t] /\ e \in Seq(Message)
  BY <1>11, <1>12
<1> HIDE DEF t, g, q, r, e
<1>14. /\ stream' \in Stream /\ stream'.open = stream.open /\ stream'.registered = stream.registered
       /\ stream'.live = t /\ stream'.out = o /\ stream'.hold = e /\ stream'.todo = <<>>
  BY <1>1, <1>3, <1>13 DEF Stream
<1>15. /\ o \o e \in Seq(Message) /\ Len(o \o e) = k /\ (o \o e)[k] = f
       /\ \A i \in 1..(k - 1) : (o \o e)[i] = o[i]
  BY <1>2, <1>k, <1>10, <1>12 DEF e
<1>16. Front(stream') = o \o e /\ r = (o \o e) \o t
  BY <1>14, <1>15, ConcatEmptySeq DEF Front, Queued, r
<1>17. /\ r \in Seq(Message) /\ Len(r) = k + n /\ r[k] = f
       /\ \A i \in 1..(k - 1) : r[i] = o[i]
       /\ \A i \in (k + 1)..(k + n) : r[i] = t[i - k]
  <2>1. r = (o \o <<f>>) \o t
    BY <1>16 DEF e
  <2>2. Spliced(r, o, f, t, k, n)
    <3> HIDE DEF o
    <3> QED
      BY <1>2, <1>3, <1>k, <1>n, <1>10, <2>1, Splice
  <2> QED
    BY <2>2 DEF Spliced
<1>18. /\ Len(r) = Len(q) /\ Len(q) \in Nat /\ k \in 1..Len(q)
       /\ \A i \in 1..Len(q) : i # k => r[i] = q[i]
  <2>1. Len(q) = k + n /\ Len(r) = k + n
    BY <1>8, <1>n, <1>17
  <2>2. ASSUME NEW i \in 1..(k + n), i # k PROVE r[i] = q[i]
    <3>1. CASE i \in 1..(k - 1)
      BY <1>8, <1>17, <3>1
    <3>2. CASE i \in (k + 1)..(k + n)
      BY <1>8, <1>n, <1>17, <3>2
    <3> QED
      BY <1>8, <2>2, <3>1, <3>2
  <2> QED
    BY <1>8, <2>1, <2>2
<1>19. \A i \in 1..Len(q) : r[i].rev = q[i].rev /\ r[i].kind = q[i].kind /\ (Valid(q[i]) => Valid(r[i]))
  BY <1>8, <1>10, <1>17, <1>18
<1>20. Linked(r)
  <2> SUFFICES ASSUME NEW i \in 1..Len(r)
               PROVE  /\ Valid(r[i])
                      /\ i > 1 => r[i].kind # "snapshot" /\ r[i].rev = r[i - 1].rev + 1
                      /\ i = 1 /\ r[i].kind # "snapshot" =>
                           heard.epoch = d.epoch /\ r[i].rev = heard.rev + 1
                      /\ i = 1 /\ heard.epoch = d.epoch => heard.rev <= r[i].rev
    BY DEF Linked
  <2>1. i \in 1..Len(q) /\ (i > 1 => i - 1 \in 1..Len(q))
    BY <1>18
  <2>2. /\ Valid(q[i])
        /\ i > 1 => q[i].kind # "snapshot" /\ q[i].rev = q[i - 1].rev + 1
        /\ i = 1 /\ q[i].kind # "snapshot" => heard.epoch = d.epoch /\ q[i].rev = heard.rev + 1
        /\ i = 1 /\ heard.epoch = d.epoch => heard.rev <= q[i].rev
    BY <1>6, <2>1 DEF Linked
  <2> QED
    BY <1>19, <2>1, <2>2
<1>21. Rising(Front(stream'))
  <2> DEFINE p == o \o e
  <2>1. /\ Len(p) = k /\ p[k] = f /\ \A i \in 1..(k - 1) : p[i] = o[i] /\ k \in Nat /\ k - 1 = Len(o)
    BY <1>2, <1>k, <1>8, <1>15
  <2>2. \A i \in 1..(k - 1) : o[i] = q[i] /\ i \in 1..Len(q)
    BY <1>2, <1>8, <1>18
  <2>3. \A i \in 1..(k - 1) : o[i].status <= d.status
    BY <1>6, <2>2 DEF Linked, Valid
  <2>4. f.kind # "other" => f.status = d.status
    BY <1>3, <1>6, <1>10 DEF Message
  <2>5. heard.epoch = d.epoch => heard.status <= d.status
    BY DEF IInv, HeardInv
  <2>6. d.status <= d.status
    BY TrayTyped, WatchAssumption DEF Revs, Versions
  <2> HIDE DEF p
  <2>7. ASSUME NEW i \in 1..Len(p), NEW j \in 1..Len(p), i <= j, p[i].kind # "other",
               p[j].kind # "other"
        PROVE  p[i].status <= p[j].status
    <3>1. CASE j = k
      <4>1. CASE i = k
        BY <2>1, <2>4, <2>6, <2>7, <3>1, <4>1
      <4>2. CASE i # k
        <5>1. i \in 1..(k - 1)
          BY <2>1, <4>2
        <5> QED
          BY <2>1, <2>3, <2>4, <2>7, <3>1, <5>1
      <4> QED
        BY <4>1, <4>2
    <3>2. CASE j # k
      <4>1. i \in 1..(k - 1) /\ j \in 1..(k - 1)
        BY <2>1, <2>7, <3>2
      <4> QED
        BY <1>6, <2>1, <2>7, <4>1 DEF Rising
    <3> QED
      BY <3>1, <3>2
  <2>8. ASSUME heard.epoch = d.epoch, NEW i \in 1..Len(p), p[i].kind # "other"
        PROVE  heard.status <= p[i].status
    <3>1. CASE i = k
      BY <2>1, <2>4, <2>5, <2>8, <3>1
    <3>2. CASE i # k
      <4>1. i \in 1..(k - 1)
        BY <2>1, <3>2
      <4> QED
        BY <1>6, <2>1, <2>8, <4>1 DEF Rising
    <3> QED
      BY <3>1, <3>2
  <2>9. Rising(p)
    BY <2>7, <2>8 DEF Rising
  <2> QED
    BY <1>16, <2>9 DEF p
<1>22. Latest(r) = Latest(q) /\ r # <<>>
  BY <1>8, <1>17, <1>18, <1>19, EmptySeq DEF Latest
<1>23. Len(stream'.live) <= Buf /\ Len(stream'.hold) <= 1
       /\ \A i \in 1..Len(stream'.live) : stream'.live[i].kind # "snapshot"
  <2>1. Len(t) <= Buf
    BY <1>1, <1>3
  <2>2. \A i \in 1..Len(t) : i + 1 \in 1..Len(stream.live)
    BY <1>3
  <2>3. \A i \in 1..Len(t) : t[i].kind # "snapshot"
    BY <1>3, <2>2 DEF IInv, StreamInv
  <2>4. Len(e) <= 1
    BY <1>12 DEF e
  <2> QED
    BY <1>14, <2>1, <2>3, <2>4
<1>24. StreamInv' /\ HeardInv'
  <2>1. d.phase # "down" /\ (stream.registered => Latest(q) = d.rev)
    BY DEF IInv, StreamInv, q
  <2> QED
    BY <1>14, <1>20, <1>21, <1>22, <1>23, <2>1, SameJudge DEF IInv, StreamInv, r
<1> QED
  BY <1>1, <1>14, <1>23, <1>24, StreamKeeps DEF IInv, TypeOK

\* A new stream with something to begin with.
LEMMA OpenKeeps ==
    ASSUME IInv, UNCHANGED <<present, d, heard, tray, breaks, hist>>, d.phase = "up",
           NEW T \in Seq(Message),
           stream' = [NoStream EXCEPT !.open = TRUE, !.registered = TRUE, !.todo = T],
           Linked(T), Rising(T), T = <<>> => heard.epoch = d.epoch, Latest(T) = d.rev
    PROVE  IInv'
<1> DEFINE e == <<>>
<1>1. NoStream = [open |-> FALSE, registered |-> FALSE, todo |-> e, live |-> e,
                  hold |-> e, out |-> e]
      /\ e \in Seq(Message) /\ Len(e) = 0 /\ e \o e = e /\ e \o T = T /\ T \o e = T
  BY ConcatEmptySeq DEF NoStream
<1>2. Buf \in Nat
  BY WatchAssumption
<1> HIDE DEF e
<1>3. /\ stream' \in Stream /\ stream'.open /\ stream'.registered
      /\ stream'.live = e /\ stream'.out = e /\ stream'.hold = e /\ stream'.todo = T
  BY <1>1 DEF Stream
<1>4. Front(stream') = T /\ Queued(stream') = T
  BY <1>1, <1>3 DEF Front, Queued
<1>5. Len(stream'.live) <= Buf /\ Len(stream'.out) <= Buf /\ Len(stream'.hold) <= 1
      /\ \A i \in 1..Len(stream'.live) : stream'.live[i].kind # "snapshot"
  BY <1>1, <1>2, <1>3
<1>6. StreamInv' /\ HeardInv'
  BY <1>3, <1>4, <1>5, SameJudge DEF IInv, StreamInv
<1> QED
  BY <1>3, <1>5, <1>6, StreamKeeps DEF IInv, TypeOK

\* The snapshot is up to date.
LEMMA SnapshotGood ==
    ASSUME IInv
    PROVE  /\ <<Snapshot>> \in Seq(Message) /\ Linked(<<Snapshot>>) /\ Rising(<<Snapshot>>)
           /\ <<Snapshot>> # <<>> /\ Latest(<<Snapshot>>) = d.rev
<1>1. /\ Snapshot \in Message /\ Snapshot.rev = d.rev /\ Snapshot.kind = "snapshot"
      /\ Snapshot.status = d.status
  BY DEF IInv, TypeOK, Snapshot, Message
<1>2. d.rev \in Nat /\ d.status \in Nat
  BY WatchAssumption DEF IInv, TypeOK, Revs, Versions
<1>3. Valid(Snapshot)
  <2>1. CASE d.rev = 0
    BY <1>1, <1>2, <2>1 DEF Valid, StatusAt
  <2>2. CASE d.rev # 0
    <3>1. d.rev \in 1..d.rev
      BY <1>2, <2>2
    <3>2. StatusAt(d.rev) <= d.status
      BY <2>2, <3>1 DEF IInv, HistInv, StatusAt
    <3> QED
      BY <1>1, <1>2, <3>2 DEF Valid
  <2> QED
    BY <2>1, <2>2
<1> DEFINE q == <<Snapshot>>
<1>4. q \in Seq(Message) /\ Len(q) = 1 /\ q[1] = Snapshot /\ q # <<>>
  BY <1>1
<1> HIDE DEF q
<1>5. Linked(q)
  <2>1. heard.epoch = d.epoch => heard.rev <= d.rev
    BY DEF IInv, HeardInv
  <2>2. \A i \in 1..Len(q) : i = 1
    BY <1>4
  <2> QED
    BY <1>1, <1>3, <1>4, <2>1, <2>2 DEF Linked
<1>6. Rising(q)
  <2>1. heard.epoch = d.epoch => heard.status <= d.status
    BY DEF IInv, HeardInv
  <2>2. \A i \in 1..Len(q) : i = 1
    BY <1>4
  <2> QED
    BY <1>1, <1>2, <1>4, <2>1, <2>2 DEF Rising
<1>7. Latest(q) = d.rev
  BY <1>1, <1>4 DEF Latest
<1> QED
  BY <1>4, <1>5, <1>6, <1>7 DEF q

\* The replay goes on where the client is.
LEMMA ReplayGood ==
    ASSUME IInv, heard.epoch = d.epoch, ~NeedSnapshot(d.epoch, heard.rev)
    PROVE  /\ Replay(heard.rev) \in Seq(Message)
           /\ Linked(Replay(heard.rev)) /\ Rising(Replay(heard.rev))
           /\ Latest(Replay(heard.rev)) = d.rev
<1>1. heard.rev \in Nat /\ heard.rev <= d.rev /\ d.rev \in Nat /\ d.status \in Nat
      /\ heard.status <= d.status
  BY WatchAssumption DEF IInv, TypeOK, HeardInv, Revs, Versions
<1>h. PICK h \in Nat : h = heard.rev
  BY <1>1
<1>z. PICK z \in Nat : z = d.rev
  BY <1>1
<1> DEFINE q == Replay(h)
<1>2. /\ q \in Seq(Message) /\ Len(q) = z - h
      /\ \A n \in 1..(z - h) : /\ q[n].rev = h + n /\ Valid(q[n]) /\ q[n].kind # "snapshot"
                               /\ q[n].kind # "other" => q[n].status = d.status
  BY <1>1, <1>h, <1>z, ReplayFields
<1> HIDE DEF q
<1>3. z - h \in Nat /\ h <= z
  BY <1>1, <1>h, <1>z
<1>4. Linked(q)
  <2> SUFFICES ASSUME NEW i \in 1..Len(q)
               PROVE  /\ Valid(q[i])
                      /\ i > 1 => q[i].kind # "snapshot" /\ q[i].rev = q[i - 1].rev + 1
                      /\ i = 1 /\ q[i].kind # "snapshot" =>
                           heard.epoch = d.epoch /\ q[i].rev = heard.rev + 1
                      /\ i = 1 /\ heard.epoch = d.epoch => heard.rev <= q[i].rev
    BY DEF Linked
  <2>1. i \in 1..(z - h) /\ (i > 1 => i - 1 \in 1..(z - h))
    BY <1>2, <1>3
  <2>2. Valid(q[i]) /\ q[i].kind # "snapshot" /\ q[i].rev = h + i
    BY <1>2, <2>1
  <2>3. i > 1 => q[i].rev = q[i - 1].rev + 1
    <3> SUFFICES ASSUME i > 1 PROVE q[i].rev = q[i - 1].rev + 1
      OBVIOUS
    <3>1. q[i - 1].rev = h + (i - 1)
      BY <1>2, <2>1
    <3>2. h + i = (h + (i - 1)) + 1
      BY <2>1
    <3> QED
      BY <2>2, <3>1, <3>2
  <2>4. i = 1 => q[i].rev = heard.rev + 1 /\ heard.rev <= q[i].rev
    BY <1>h, <2>2
  <2> QED
    BY <2>2, <2>3, <2>4
<1>5. Rising(q)
  <2>1. d.status <= d.status
    BY <1>1
  <2> QED
    BY <1>1, <1>2, <2>1 DEF Rising
<1>6. Latest(q) = d.rev
  <2>1. CASE q = <<>>
    <3>1. z - h = 0
      BY <1>2, <2>1, EmptySeq
    <3>2. z = h
      BY <1>3, <3>1
    <3> QED
      BY <1>h, <1>z, <2>1, <3>2 DEF Latest
  <2>2. CASE q # <<>>
    <3>1. z - h \in 1..(z - h)
      BY <1>2, <1>3, <2>2, EmptySeq
    <3>2. q[z - h].rev = h + (z - h)
      BY <1>2, <3>1
    <3>3. h + (z - h) = z
      BY <1>3
    <3> QED
      BY <1>2, <1>z, <2>2, <3>2, <3>3 DEF Latest
  <2> QED
    BY <2>1, <2>2
<1> QED
  BY <1>h, <1>2, <1>4, <1>5, <1>6 DEF q

\* A client watches, from where it was or afresh.
LEMMA WatchSinceKeeps ==
    ASSUME IInv, WatchSince
    PROVE  IInv'
<1>1. PICK cursor \in {heard, Afresh} :
         stream' = [NoStream EXCEPT !.open = TRUE, !.registered = TRUE,
                      !.todo = IF NeedSnapshot(cursor.epoch, cursor.rev) THEN <<Snapshot>>
                               ELSE Replay(cursor.rev)]
  BY DEF WatchSince
<1>2. d.phase = "up" /\ UNCHANGED <<present, d, heard, tray, breaks, hist>>
  BY DEF WatchSince
<1>3. CASE NeedSnapshot(cursor.epoch, cursor.rev)
  <2> DEFINE T == <<Snapshot>>
  <2>1. stream' = [NoStream EXCEPT !.open = TRUE, !.registered = TRUE, !.todo = T]
    BY <1>1, <1>3
  <2>2. T \in Seq(Message) /\ Linked(T) /\ Rising(T) /\ T # <<>> /\ Latest(T) = d.rev
    BY SnapshotGood
  <2> HIDE DEF T
  <2> QED
    BY <1>2, <2>1, <2>2, OpenKeeps
<1>4. CASE ~NeedSnapshot(cursor.epoch, cursor.rev)
  <2>1. cursor.epoch = d.epoch /\ cursor.rev # 0
    BY <1>4 DEF NeedSnapshot
  <2>2. cursor = heard
    BY <2>1 DEF Afresh
  <2> DEFINE T == Replay(heard.rev)
  <2>3. stream' = [NoStream EXCEPT !.open = TRUE, !.registered = TRUE, !.todo = T]
    BY <1>1, <1>4, <2>2
  <2>4. /\ T \in Seq(Message) /\ Linked(T) /\ Rising(T) /\ heard.epoch = d.epoch
        /\ Latest(T) = d.rev
    BY <1>4, <2>1, <2>2, ReplayGood
  <2> HIDE DEF T
  <2> QED
    BY <1>2, <2>3, <2>4, OpenKeeps
<1> QED
  BY <1>3, <1>4

\* The end of a stream.
LEMMA EndStreamKeeps ==
    ASSUME IInv, EndStream \/ Break
    PROVE  IInv'
<1>1. breaks \in Nat /\ breaks <= MaxBreaks /\ MaxBreaks \in Nat
  BY WatchAssumption DEF IInv, TypeOK
<1>2. CASE EndStream
  BY <1>1, <1>2, NoStreamKeeps DEF EndStream
<1>3. CASE Break
  BY <1>1, <1>3, NoStreamKeeps DEF Break
<1> QED
  BY <1>2, <1>3

-----------------------------------------------------------------------------
(* The client receives.                                                     *)

\* Taking the first message off the queue.
LEMMA ReceiveQueue ==
    ASSUME IInv, Receive
    PROVE  /\ stream.out # <<>> /\ Head(stream.out) = Queued(stream)[1]
           /\ Head(stream.out) = Front(stream)[1] /\ Head(stream.out) \in Message
           /\ Len(Front(stream)) \in Nat \ {0} /\ Len(Queued(stream)) \in Nat \ {0}
           /\ Queued(stream') = Tail(Queued(stream)) /\ Queued(stream) # <<>>
           /\ Front(stream') = Tail(Front(stream)) /\ Front(stream) # <<>>
           /\ stream' \in Stream /\ stream'.open /\ stream'.registered = stream.registered
           /\ stream'.live = stream.live /\ stream'.hold = stream.hold
           /\ Len(stream'.out) <= Buf
<1> DEFINE o == stream.out
           t == Tail(stream.out)
           A == o \o stream.hold
           F == A \o stream.todo
           q == F \o stream.live
<1>1. stream \in Stream /\ stream.open /\ o # <<>> /\ Len(o) <= Buf /\ Buf \in Nat
  BY WatchAssumption DEF IInv, TypeOK, Receive
<1>2. /\ o \in Seq(Message) /\ stream.hold \in Seq(Message) /\ stream.todo \in Seq(Message)
      /\ stream.live \in Seq(Message) /\ A \in Seq(Message) /\ F \in Seq(Message)
      /\ q \in Seq(Message)
  BY <1>1, QueueTyped DEF Front, Queued
<1>3. /\ Head(o) \in Message /\ t \in Seq(Message) /\ Len(t) = Len(o) - 1 /\ Len(o) \in Nat
  BY <1>1, <1>2, HeadTailProperties, LenProperties
<1>4. stream' = [stream EXCEPT !.out = t]
  BY DEF Receive
<1> HIDE DEF t
<1>5. /\ stream' \in Stream /\ stream'.open /\ stream'.registered = stream.registered
      /\ stream'.live = stream.live /\ stream'.hold = stream.hold
      /\ stream'.out = t /\ stream'.todo = stream.todo
  BY <1>1, <1>3, <1>4 DEF Stream
<1>6. A # <<>> /\ Head(A) = Head(o) /\ Tail(A) = t \o stream.hold
  BY <1>1, <1>2, TailConcat DEF t
<1> HIDE DEF A
<1>7. F # <<>> /\ Head(F) = Head(o) /\ Tail(F) = Tail(A) \o stream.todo
  BY <1>2, <1>6, TailConcat
<1> HIDE DEF F
<1>8. q # <<>> /\ Head(q) = Head(o) /\ Tail(q) = Tail(F) \o stream.live
  BY <1>2, <1>7, TailConcat
<1> HIDE DEF q
<1>9. F[1] = Head(F) /\ q[1] = Head(q) /\ Len(F) \in Nat \ {0} /\ Len(q) \in Nat \ {0}
  BY <1>2, <1>7, <1>8, EmptySeq
<1>10. Front(stream) = F /\ Queued(stream) = q
  BY DEF Front, Queued, q, F, A
<1>11. Front(stream') = Tail(F) /\ Queued(stream') = Tail(q)
  BY <1>5, <1>6, <1>7, <1>8 DEF Front, Queued
<1>12. Len(t) <= Buf
  BY <1>1, <1>3
<1> QED
  BY <1>1, <1>3, <1>5, <1>7, <1>8, <1>9, <1>10, <1>11, <1>12

\* What was received.
LEMMA ReceiveHeard ==
    ASSUME IInv, Receive, NEW m, m = Head(stream.out)
    PROVE  /\ heard' \in [epoch : Epochs, rev : Revs, status : Versions]
           /\ heard'.epoch = d.epoch /\ heard'.rev = m.rev
           /\ heard'.status = IF m.kind = "other" THEN heard.status ELSE m.status
           /\ Valid(m)
           /\ m.kind # "snapshot" => heard.epoch = d.epoch /\ m.rev = heard.rev + 1
           /\ heard.epoch = d.epoch => heard.rev <= m.rev /\ heard.status <= heard'.status
<1>1. /\ heard \in [epoch : Epochs, rev : Revs, status : Versions] /\ d.epoch \in Epochs
      /\ heard.status \in Nat
  BY TrayTyped, WatchAssumption DEF IInv, TypeOK, Revs, Versions
<1>2. m \in Message /\ m = Queued(stream)[1] /\ m = Front(stream)[1]
      /\ 1 \in 1..Len(Queued(stream)) /\ 1 \in 1..Len(Front(stream))
  BY ReceiveQueue
<1>3. /\ heard' \in [epoch : Epochs, rev : Revs, status : Versions]
      /\ heard'.epoch = d.epoch /\ heard'.rev = m.rev
      /\ heard'.status = IF m.kind = "other" THEN heard.status ELSE m.status
  BY <1>1, <1>2 DEF Receive, Message
<1>4. Linked(Queued(stream)) /\ Rising(Front(stream))
  BY DEF IInv, StreamInv, Receive
<1>5. /\ Valid(m)
      /\ m.kind # "snapshot" => heard.epoch = d.epoch /\ m.rev = heard.rev + 1
      /\ heard.epoch = d.epoch => heard.rev <= m.rev
  BY <1>2, <1>4 DEF Linked
<1>6. heard.epoch = d.epoch /\ m.kind # "other" => heard.status <= m.status
  BY <1>2, <1>4 DEF Rising
<1> QED
  BY <1>1, <1>3, <1>5, <1>6

\* The client still knows every change up to where it is.
LEMMA ReceiveHeardInv ==
    ASSUME IInv, Receive
    PROVE  HeardInv'
<1>m. PICK m : m = Head(stream.out)
  OBVIOUS
<1>1. /\ heard'.epoch = d.epoch /\ heard'.rev = m.rev
      /\ heard'.status = IF m.kind = "other" THEN heard.status ELSE m.status
      /\ Valid(m)
      /\ m.kind # "snapshot" => heard.epoch = d.epoch /\ m.rev = heard.rev + 1
  BY <1>m, ReceiveHeard
<1>2. UNCHANGED <<d, hist>> /\ d.epoch \in Nat /\ heard.rev \in Nat
  BY WatchAssumption DEF Receive, IInv, TypeOK, Revs, Versions
<1>3. m.rev <= d.rev
  BY <1>1 DEF Valid
<1>4. heard'.status <= d.status /\ StatusAt(m.rev) <= heard'.status
  <2>1. CASE m.kind # "other"
    BY <1>1, <2>1 DEF Valid
  <2>2. CASE m.kind = "other"
    <3>1. heard.epoch = d.epoch /\ m.rev = heard.rev + 1 /\ hist[m.rev] = StatusAt(m.rev - 1)
          /\ heard'.status = heard.status
      BY <1>1, <2>2 DEF Valid
    <3>2. m.rev # 0 /\ m.rev - 1 = heard.rev
      BY <1>2, <3>1
    <3>3. StatusAt(m.rev) = StatusAt(heard.rev)
      BY <3>1, <3>2 DEF StatusAt
    <3>4. heard.status <= d.status /\ StatusAt(heard.rev) <= heard.status
      BY <3>1 DEF IInv, HeardInv
    <3> QED
      BY <3>1, <3>3, <3>4
  <2> QED
    BY <2>1, <2>2
<1>5. StatusAt(heard.rev)' = StatusAt(m.rev)
  BY <1>1, <1>2 DEF StatusAt
<1>6. d'.rev = d.rev /\ d'.status = d.status /\ d'.epoch = d.epoch /\ d.epoch <= d.epoch
  BY <1>2
<1> QED
  BY <1>1, <1>3, <1>4, <1>5, <1>6 DEF HeardInv

\* The client receives the next message.
LEMMA ReceiveKeeps ==
    ASSUME IInv, Receive
    PROVE  IInv'
<1>m. PICK m : m = Head(stream.out)
  OBVIOUS
<1>1. /\ heard' \in [epoch : Epochs, rev : Revs, status : Versions]
      /\ heard'.epoch = d.epoch /\ heard'.rev = m.rev
      /\ heard'.status = IF m.kind = "other" THEN heard.status ELSE m.status
      /\ Valid(m)
      /\ m.kind # "snapshot" => heard.epoch = d.epoch /\ m.rev = heard.rev + 1
  BY <1>m, ReceiveHeard
<1>q. PICK q : q = Queued(stream)
  OBVIOUS
<1>p. PICK p : p = Front(stream)
  OBVIOUS
<1>2. /\ m = q[1] /\ m = p[1] /\ q # <<>> /\ p # <<>>
      /\ Len(p) \in Nat \ {0} /\ Len(q) \in Nat \ {0}
      /\ Queued(stream') = Tail(q) /\ Front(stream') = Tail(p)
  BY <1>m, <1>q, <1>p, ReceiveQueue
<1>3. /\ stream' \in Stream /\ stream'.open /\ stream'.registered = stream.registered
      /\ stream'.live = stream.live /\ stream'.hold = stream.hold
      /\ Len(stream'.out) <= Buf
  BY ReceiveQueue
<1>4. q \in Seq(Message) /\ p \in Seq(Message)
  BY <1>q, <1>p, QueueTyped DEF IInv, TypeOK
<1>5. /\ Linked(q) /\ Rising(p) /\ (stream.registered => Latest(q) = d.rev)
      /\ d.phase # "down"
  BY <1>q, <1>p DEF IInv, StreamInv, Receive
<1>6. UNCHANGED <<present, d, tray, breaks, hist>>
  BY DEF Receive
<1>t. PICK t : t = Tail(q)
  OBVIOUS
<1>7. /\ t \in Seq(Message) /\ Len(t) = Len(q) - 1 /\ Len(t) \in Nat
      /\ \A i \in 1..Len(t) : t[i] = q[i + 1] /\ i + 1 \in 1..Len(q) /\ i + 1 > 1
                              /\ (i + 1) - 1 = i /\ i \in Nat
  BY <1>t, <1>2, <1>4, HeadTailProperties, LenProperties
<1>8. ASSUME NEW i \in 1..Len(t)
      PROVE  /\ Valid(t[i]) /\ t[i].kind # "snapshot" /\ t[i].rev = q[i].rev + 1
             /\ i > 1 => t[i - 1] = q[i]
  <2>1. /\ Valid(q[i + 1]) /\ q[i + 1].kind # "snapshot" /\ q[i + 1].rev = q[i].rev + 1
    BY <1>5, <1>7 DEF Linked
  <2>2. i > 1 => i - 1 \in 1..Len(t) /\ (i - 1) + 1 = i
    BY <1>7
  <2>3. i > 1 => t[i - 1] = q[i]
    BY <1>7, <2>2
  <2> QED
    BY <1>7, <2>1, <2>3
<1>9. Linked(Queued(stream))'
  <2>1. \A i \in 1..Len(t) : Valid(t[i])'
    BY <1>6, <1>8 DEF Valid, StatusAt
  <2>2. ASSUME NEW i \in 1..Len(t)
        PROVE  /\ i > 1 => t[i].kind # "snapshot" /\ t[i].rev = t[i - 1].rev + 1
               /\ i = 1 => heard'.epoch = d'.epoch /\ t[i].rev = heard'.rev + 1
               /\ i = 1 => heard'.rev <= t[i].rev
    <3>1. m.rev \in Nat
      BY <1>1, WatchAssumption DEF Revs, Versions
    <3>2. i > 1 => t[i].kind # "snapshot" /\ t[i].rev = t[i - 1].rev + 1
      BY <1>8
    <3>3. i = 1 => t[i].rev = m.rev + 1
      BY <1>2, <1>8
    <3>4. m.rev <= m.rev + 1 /\ heard'.rev = m.rev /\ heard'.epoch = d'.epoch
      BY <1>1, <1>6, <3>1
    <3> QED
      BY <3>2, <3>3, <3>4
  <2>3. Queued(stream)' = t
    BY <1>2, <1>t
  <2> QED
    BY <2>1, <2>2, <2>3 DEF Linked
<1>u. PICK u : u = Tail(p)
  OBVIOUS
<1>10. /\ u \in Seq(Message) /\ Len(u) = Len(p) - 1 /\ Len(u) \in Nat
       /\ \A i \in 1..Len(u) : u[i] = p[i + 1] /\ i + 1 \in 1..Len(p) /\ 1 <= i + 1 /\ i \in Nat
       /\ 1 \in 1..Len(p)
  BY <1>u, <1>2, <1>4, HeadTailProperties, LenProperties
<1>11. Rising(Front(stream))'
  <2>1. ASSUME NEW i \in 1..Len(u), NEW j \in 1..Len(u), i <= j, u[i].kind # "other",
               u[j].kind # "other"
        PROVE  u[i].status <= u[j].status
    <3>1. i + 1 <= j + 1
      BY <1>10, <2>1
    <3> QED
      BY <1>5, <1>10, <2>1, <3>1 DEF Rising
  <2>2. ASSUME NEW i \in 1..Len(u), u[i].kind # "other"
        PROVE  heard'.status <= u[i].status
    <3>1. CASE m.kind # "other"
      <4>1. p[1].status <= p[i + 1].status
        BY <1>2, <1>5, <1>10, <2>2, <3>1 DEF Rising
      <4> QED
        BY <1>1, <1>2, <1>10, <3>1, <4>1
    <3>2. CASE m.kind = "other"
      <4>1. heard.status <= p[i + 1].status
        BY <1>1, <1>5, <1>10, <2>2, <3>2 DEF Rising
      <4> QED
        BY <1>1, <1>10, <3>2, <4>1
    <3> QED
      BY <3>1, <3>2
  <2>3. Front(stream)' = u
    BY <1>2, <1>u
  <2> QED
    BY <2>1, <2>2, <2>3 DEF Rising
<1>12. stream'.registered => Latest(Queued(stream))' = d'.rev
  <2> SUFFICES ASSUME stream.registered PROVE Latest(Queued(stream))' = d.rev
    BY <1>3, <1>6
  <2>1. q[Len(q)].rev = d.rev
    BY <1>2, <1>5 DEF Latest
  <2>2. Queued(stream)' = t
    BY <1>2, <1>t
  <2>3. CASE t = <<>>
    <3>1. Len(q) = 1
      BY <1>2, <1>7, <2>3, EmptySeq
    <3> QED
      BY <1>1, <1>2, <2>1, <2>2, <2>3, <3>1 DEF Latest
  <2>4. CASE t # <<>>
    <3>1. Len(t) \in 1..Len(t) /\ Len(t) + 1 = Len(q)
      <4> DEFINE a == Len(t)
                 b == Len(q)
      <4>1. a \in Nat /\ a # 0 /\ b \in Nat /\ a = b - 1
        <5>1. Len(t) \in Nat \ {0}
          BY <1>7, <2>4, EmptySeq
        <5> QED
          BY <1>2, <1>7, <5>1
      <4> HIDE DEF a, b
      <4>2. a \in 1..a /\ a + 1 = b
        BY <4>1
      <4> QED
        BY <4>2 DEF a, b
    <3>2. t[Len(t)] = q[Len(q)]
      BY <1>7, <3>1
    <3> QED
      BY <2>1, <2>2, <2>4, <3>2 DEF Latest
  <2> QED
    BY <2>3, <2>4
<1>13. StreamInv'
  BY <1>1, <1>3, <1>5, <1>6, <1>9, <1>11, <1>12 DEF IInv, StreamInv
<1> QED
  BY <1>1, <1>3, <1>6, <1>13, ReceiveHeardInv, StreamKeeps DEF IInv, TypeOK

-----------------------------------------------------------------------------
(* The daemon emits an event.                                               *)

\* What the history says of the event m: the status it announces, or the one before.
Said(m) == IF m.kind = "other" THEN StatusAt(d.rev) ELSE m.status

\* The event m is being emitted: everything but the stream and the ring.
Emitted(m) ==
    /\ m \in Message /\ m.rev = d.rev + 1 /\ m.kind # "snapshot"
    /\ d.status <= d'.status /\ m.status <= d'.status /\ d'.status \in Versions
    /\ m.kind # "other" => m.status = d'.status
    /\ d.rev \in Nat /\ d.status \in Nat /\ d'.status \in Nat /\ m.status \in Nat
    /\ d'.rev = m.rev /\ d'.epoch = d.epoch /\ d'.phase = d.phase
    /\ hist' = Append(hist, Said(m)) /\ UNCHANGED <<present, heard, tray, breaks>>

NewRing(m) == LET ring == Append(d.ring, m)
              IN IF Len(ring) > RingSize THEN Newest(ring) ELSE ring

\* The event that emitLocked builds.
LEMMA EmitBuilds ==
    ASSUME IInv, NEW kind \in {"status", "other"}, NEW status \in Versions, Emit(kind, status)
    PROVE  \E m \in Message :
             /\ Emitted(m) /\ d' = [d EXCEPT !.rev = m.rev, !.status = status, !.ring = NewRing(m)]
             /\ stream' = Offer(stream, m) /\ d.phase # "down"
<1> DEFINE rev == d.rev + 1
           carried == IF kind = "status" THEN status ELSE 0
           m == [rev |-> rev, kind |-> kind, status |-> carried]
<1>1. d.rev \in Nat /\ d.status \in Nat /\ d.rev < MaxRev /\ MaxRev \in Nat
  <2>1. d.rev \in Revs /\ d.status \in Versions
    BY DEF IInv, TypeOK
  <2>2. d.rev < MaxTrayRev \/ d.rev < MaxRev
    BY DEF Emit
  <2> QED
    BY <2>1, <2>2, WatchAssumption DEF Revs, Versions
<1>2. /\ rev \in Nat /\ rev \in Revs /\ status \in Nat /\ carried \in Nat /\ carried \in Versions
      /\ d.status <= status /\ carried <= status /\ (kind # "other" => carried = status)
  <2>1. status = d.status \/ status = d.status + 1
    BY DEF Emit
  <2>2. status \in Nat /\ 0 \in Versions /\ 0 <= status
    BY WatchAssumption DEF Versions
  <2>3. d.status <= status
    BY <1>1, <2>1
  <2>4. rev \in Nat /\ rev \in Revs
    BY <1>1 DEF Revs
  <2>5. status <= status
    BY <2>2
  <2> QED
    BY <2>2, <2>3, <2>4, <2>5
<1>3. d' = [d EXCEPT !.rev = rev, !.status = status, !.ring = NewRing(m)]
  BY DEF Emit, NewRing
<1>4. /\ stream' = Offer(stream, m)
      /\ hist' = Append(hist, IF kind = "status" THEN status ELSE StatusAt(d.rev))
      /\ UNCHANGED <<present, heard, tray, breaks>> /\ d.phase # "down"
  BY DEF Emit, Running
<1>5. rev = d.rev + 1
  OBVIOUS
<1> HIDE DEF rev, carried
<1>6. m \in Message /\ m.rev = rev /\ m.kind = kind /\ m.status = carried
  BY <1>2 DEF Message
<1> HIDE DEF m
<1>7. d'.rev = rev /\ d'.status = status /\ d'.epoch = d.epoch /\ d'.phase = d.phase
  BY <1>3 DEF IInv, TypeOK
<1>8. (IF kind = "status" THEN status ELSE StatusAt(d.rev)) = Said(m)
  BY <1>2, <1>6 DEF Said
<1>9. Emitted(m)
  BY <1>1, <1>2, <1>4, <1>5, <1>6, <1>7, <1>8 DEF Emitted
<1> QED
  BY <1>3, <1>4, <1>6, <1>9

\* The history goes on; what it says of earlier revisions stays.
LEMMA EmitHist ==
    ASSUME IInv, NEW m, Emitted(m)
    PROVE  /\ hist' \in Seq(Versions) /\ HistInv'
           /\ \A r \in 0..d.rev : StatusAt(r)' = StatusAt(r)
           /\ hist'[m.rev] = Said(m) /\ StatusAt(m.rev)' = Said(m)
<1>z. PICK z \in Nat : z = d.rev
  BY DEF Emitted
<1>v. PICK v : v = Said(m)
  OBVIOUS
<1>w. PICK w : w = d'.status
  OBVIOUS
<1>1. hist \in Seq(Versions) /\ Len(hist) = z /\ m.status \in Versions /\ m.rev = z + 1
      /\ hist' = Append(hist, v)
  BY <1>z, <1>v DEF IInv, TypeOK, HistInv, Emitted, Message
<1>5. \A r \in 1..z : hist[r] \in Nat /\ hist[r] \in Versions
  BY <1>1, ElementOfSeq, WatchAssumption DEF Versions
<1>6. /\ \A r \in 1..z : hist[r] <= d.status
      /\ \A r \in 1..z : StatusAt(r - 1) <= hist[r]
  BY <1>z DEF IInv, HistInv
<1>7. d.status <= w /\ w \in Nat /\ d.status \in Nat /\ m.status <= w /\ m.status \in Nat
      /\ (m.kind # "other" => m.status = w)
  BY <1>w DEF Emitted
<1>s. StatusAt(z) \in Versions /\ StatusAt(z) \in Nat /\ StatusAt(z) <= d.status
  <2>1. CASE z = 0
    BY <1>7, <2>1, WatchAssumption DEF StatusAt, Versions
  <2>2. CASE z # 0
    <3>1. z \in 1..z
      BY <2>2
    <3> QED
      BY <1>5, <1>6, <2>2, <3>1 DEF StatusAt
  <2> QED
    BY <2>1, <2>2
<1>t. v \in Versions /\ v \in Nat /\ v <= w /\ StatusAt(z) <= v
  <2>1. CASE m.kind = "other"
    BY <1>7, <1>s, <1>v, <1>z, <2>1 DEF Said
  <2>2. CASE m.kind # "other"
    BY <1>1, <1>7, <1>s, <1>v, <2>2 DEF Said
  <2> QED
    BY <2>1, <2>2
<1>2. /\ hist' \in Seq(Versions) /\ Len(hist') = z + 1 /\ hist'[z + 1] = v
      /\ \A r \in 1..z : hist'[r] = hist[r]
  BY <1>1, <1>t, AppendProperties
<1>3. \A r \in 0..z : StatusAt(r)' = StatusAt(r)
  <2>1. \A r \in 0..z : r # 0 => r \in 1..z
    OBVIOUS
  <2> QED
    BY <1>2, <2>1 DEF StatusAt
<1>4. StatusAt(m.rev)' = v
  <2>1. z + 1 # 0
    OBVIOUS
  <2> QED
    BY <1>1, <1>2, <2>1 DEF StatusAt
<1>8. ASSUME NEW r \in 1..(z + 1) PROVE hist'[r] <= w /\ StatusAt(r - 1)' <= hist'[r]
  <2>1. CASE r \in 1..z
    <3>1. hist[r] <= d.status /\ hist[r] \in Nat /\ hist'[r] = hist[r]
      BY <1>2, <1>5, <1>6, <2>1
    <3>2. r - 1 \in 0..z
      BY <2>1
    <3>3. StatusAt(r - 1)' = StatusAt(r - 1)
      BY <1>3, <3>2
    <3>4. hist[r] <= w
      BY <1>7, <3>1
    <3> QED
      BY <1>6, <2>1, <3>1, <3>3, <3>4
  <2>2. CASE r = z + 1
    <3>1. r - 1 = z /\ z \in 0..z
      BY <2>2
    <3>2. StatusAt(r - 1)' = StatusAt(z)
      BY <1>3, <3>1
    <3> QED
      BY <1>2, <1>t, <2>2, <3>2
  <2> QED
    BY <2>1, <2>2
<1>9. d'.rev = z + 1 /\ d'.status = w
  BY <1>1, <1>w DEF Emitted
<1>10. HistInv'
  BY <1>2, <1>8, <1>9 DEF HistInv
<1> QED
  BY <1>1, <1>2, <1>3, <1>4, <1>10, <1>z, <1>v

\* Events on their way stay good, and the new one is.
LEMMA EmitValid ==
    ASSUME IInv, NEW m, Emitted(m)
    PROVE  Valid(m)' /\ \A x \in Message : Valid(x) => Valid(x)'
<1>z. PICK z \in Nat : z = d.rev
  BY DEF Emitted
<1>w. PICK w : w = d'.status
  OBVIOUS
<1>1. /\ m.rev = z + 1 /\ d'.rev = z + 1 /\ m.kind # "snapshot"
      /\ d.status <= w /\ w \in Nat /\ d.status \in Nat /\ m.status <= w
  BY <1>w, <1>z DEF Emitted
<1>2. /\ \A r \in 0..z : StatusAt(r)' = StatusAt(r)
      /\ hist'[m.rev] = Said(m) /\ StatusAt(m.rev)' = Said(m)
  BY <1>z, EmitHist
<1>3. Valid(m)'
  <2>1. m.rev - 1 = z /\ z \in 0..z /\ m.rev <= d'.rev /\ m.rev > 0
    BY <1>1
  <2>2. m.kind = "other" => hist'[m.rev] = StatusAt(m.rev - 1)'
    BY <1>2, <1>z, <2>1 DEF Said
  <2>3. m.kind # "other" => StatusAt(m.rev)' <= m.status
    <3>1. m.status \in Nat
      BY DEF Emitted
    <3>2. m.status <= m.status
      BY <3>1
    <3> QED
      BY <1>2, <3>2 DEF Said
  <2> QED
    BY <1>1, <1>w, <2>1, <2>2, <2>3 DEF Valid
<1>4. ASSUME NEW x \in Message, Valid(x) PROVE Valid(x)'
  <2>1. x.rev \in Nat /\ x.status \in Nat
    BY WatchAssumption DEF Message, Revs, Versions
  <2>2. x.rev <= z /\ x.status <= d.status /\ (x.kind # "other" => StatusAt(x.rev) <= x.status)
        /\ (x.kind # "snapshot" => x.rev > 0)
        /\ (x.kind = "other" => hist[x.rev] = StatusAt(x.rev - 1))
    BY <1>z, <1>4 DEF Valid
  <2>3. x.rev <= z + 1 /\ x.status <= w /\ x.rev \in 0..z
    BY <1>1, <2>1, <2>2
  <2>4. StatusAt(x.rev)' = StatusAt(x.rev)
    BY <1>2, <2>3
  <2>5. x.kind = "other" => hist'[x.rev] = StatusAt(x.rev - 1)'
    <3> SUFFICES ASSUME x.kind = "other" PROVE hist'[x.rev] = StatusAt(x.rev - 1)'
      OBVIOUS
    <3>1. x.rev > 0
      BY <2>2
    <3>2. x.rev - 1 \in 0..z /\ x.rev # 0
      BY <2>3, <3>1
    <3>3. hist'[x.rev] = hist[x.rev]
      BY <2>4, <3>2 DEF StatusAt
    <3> QED
      BY <1>2, <2>2, <3>2, <3>3
  <2> QED
    BY <1>1, <1>w, <2>2, <2>3, <2>4, <2>5 DEF Valid
<1> QED
  BY <1>3, <1>4

\* The ring takes the new event, without the oldest one when it was full.
LEMMA EmitRing ==
    ASSUME IInv, NEW m, Emitted(m), d'.ring = NewRing(m)
    PROVE  NewRing(m) \in Seq(Message) /\ Len(NewRing(m)) <= RingSize /\ RingInv'
<1>R. PICK R : R = Append(d.ring, m)
  OBVIOUS
<1>l. PICK l : l = Len(d.ring)
  OBVIOUS
<1>z. PICK z \in Nat : z = d.rev
  BY DEF Emitted
<1>1. /\ d.ring \in Seq(Message) /\ l \in Nat /\ l <= RingSize /\ RingSize \in Nat \ {0}
      /\ m \in Message /\ m.rev = z + 1 /\ m.kind # "snapshot" /\ d'.rev = z + 1
  <2>1. d.ring \in Seq(Message) /\ l <= RingSize
    BY <1>l DEF IInv, TypeOK
  <2>2. l \in Nat
    BY <1>l, <2>1, LenProperties
  <2>3. m \in Message /\ m.rev = z + 1 /\ m.kind # "snapshot" /\ d'.rev = z + 1
    BY <1>z DEF Emitted
  <2> QED
    BY <2>1, <2>2, <2>3, WatchAssumption
<1>2. /\ R \in Seq(Message) /\ Len(R) = l + 1 /\ R[l + 1] = m
      /\ \A i \in 1..l : R[i] = d.ring[i]
  <2>1. /\ R \in Seq(Message) /\ Len(R) = Len(d.ring) + 1 /\ R[Len(d.ring) + 1] = m
        /\ \A i \in 1..Len(d.ring) : R[i] = d.ring[i]
    BY <1>R, <1>1, AppendProperties
  <2> QED
    BY <1>l, <2>1
<1>3. \A i \in 1..l : d.ring[i] \in Message /\ d.ring[i].rev \in Nat
  <2>1. \A i \in 1..Len(d.ring) : d.ring[i] \in Message
    BY <1>1, ElementOfSeq
  <2>2. \A x \in Message : x.rev \in Nat
    BY WatchAssumption DEF Message, Revs
  <2> QED
    BY <1>l, <2>1, <2>2
<1>4. NewRing(m) = IF l + 1 > RingSize THEN SubSeq(R, (l + 1) - RingSize + 1, l + 1) ELSE R
  BY <1>R, <1>2 DEF NewRing, Newest
<1>5. ASSUME NEW i \in 1..(l + 1)
      PROVE  /\ R[i].rev + ((l + 1) - i) = z + 1 /\ R[i].rev \in Nat /\ R[i] \in Message
             /\ Valid(R[i])' /\ R[i].kind # "snapshot"
  <2>1. CASE i \in 1..l
    <3>1. /\ d.ring[i].rev + (l - i) = z /\ Valid(d.ring[i]) /\ d.ring[i].kind # "snapshot"
      BY <1>l, <1>z, <2>1 DEF IInv, RingInv
    <3>2. /\ R[i] = d.ring[i] /\ d.ring[i] \in Message /\ d.ring[i].rev \in Nat
      BY <1>2, <1>3, <2>1
    <3>3. R[i].rev + ((l + 1) - i) = z + 1
      <4>r. PICK r \in Nat : r = d.ring[i].rev
        BY <3>2
      <4>1. r + (l - i) = z /\ r \in Nat /\ l \in Nat /\ i \in Nat
        BY <1>1, <3>1, <4>r
      <4>2. r + ((l + 1) - i) = z + 1
        BY <4>1
      <4> QED
        BY <3>2, <4>r, <4>2
    <3>5. Valid(R[i])'
      <4>x. PICK x : x = d.ring[i]
        OBVIOUS
      <4>1. Valid(x)' /\ R[i] = x
        BY <3>1, <3>2, <4>x, EmitValid
      <4> QED
        BY <4>1
    <3> QED
      BY <3>1, <3>2, <3>3, <3>5
  <2>2. CASE i = l + 1
    <3>1. R[i] = m /\ (l + 1) - i = 0
      BY <1>1, <1>2, <2>2
    <3>2. (z + 1) + 0 = z + 1
      OBVIOUS
    <3> QED
      BY <1>1, <3>1, <3>2, EmitValid
  <2> QED
    BY <1>1, <2>1, <2>2
<1>6. CASE l + 1 > RingSize
  <2>1. l = RingSize
    BY <1>1, <1>6
  <2>2. (l + 1) - RingSize + 1 = 2 /\ l >= 1
    BY <1>1, <2>1
  <2>n. PICK N : N = SubSeq(R, 2, l + 1)
    OBVIOUS
  <2>3. NewRing(m) = N
    BY <1>4, <1>6, <2>2, <2>n
  <2>4. \A i \in 2..(l + 1) : R[i] \in Message
    BY <1>1, <1>5
  <2>5. /\ N \in Seq(Message) /\ Len(N) = (IF 2 <= l + 1 THEN (l + 1) - 2 + 1 ELSE 0)
        /\ \A i \in 1..((l + 1) - 2 + 1) : N[i] = R[2 + i - 1]
    BY <1>1, <2>4, <2>n, SubSeqProperties
  <2>6. 2 <= l + 1 /\ (l + 1) - 2 + 1 = l
    BY <1>1, <2>2
  <2>7. Len(N) = l /\ \A i \in 1..l : N[i] = R[i + 1] /\ i + 1 \in 1..(l + 1)
    <3>1. \A i \in 1..l : 2 + i - 1 = i + 1 /\ i + 1 \in 1..(l + 1)
      BY <1>1
    <3> QED
      BY <2>5, <2>6, <3>1
  <2>8. ASSUME NEW i \in 1..l
        PROVE  N[i].rev + (l - i) = z + 1 /\ Valid(N[i])' /\ N[i].kind # "snapshot"
    <3>1. /\ N[i].rev + ((l + 1) - (i + 1)) = z + 1 /\ Valid(N[i])' /\ N[i].kind # "snapshot"
      <4>j. PICK j \in 1..(l + 1) : j = i + 1
        BY <1>1
      <4>n. PICK x : x = R[j]
        OBVIOUS
      <4>1. N[i] = x
        BY <2>7, <4>j, <4>n
      <4>2. x.rev + ((l + 1) - j) = z + 1 /\ Valid(x)' /\ x.kind # "snapshot"
        BY <1>5, <4>n
      <4> QED
        BY <4>1, <4>2, <4>j
    <3>2. (l + 1) - (i + 1) = l - i
      BY <1>1
    <3> QED
      BY <3>1, <3>2
  <2>9. d'.ring = N /\ N # <<>>
    BY <2>2, <2>3, <2>7
  <2>10. RingInv'
    BY <1>1, <2>7, <2>8, <2>9 DEF RingInv
  <2>11. l <= RingSize
    BY <1>1
  <2> QED
    BY <2>3, <2>5, <2>7, <2>10, <2>11
<1>7. CASE ~(l + 1 > RingSize)
  <2>1. NewRing(m) = R /\ d'.ring = R
    BY <1>4, <1>7
  <2>2. R # <<>> /\ l + 1 <= RingSize
    BY <1>1, <1>2, <1>7, EmptySeq
  <2>3. RingInv'
    BY <1>1, <1>2, <1>5, <2>1, <2>2 DEF RingInv
  <2> QED
    BY <1>2, <2>1, <2>2, <2>3
<1> QED
  BY <1>6, <1>7

\* Nothing was said to the client.
LEMMA EmitHeard ==
    ASSUME IInv, NEW m, Emitted(m)
    PROVE  HeardInv'
<1>1. /\ heard' = heard /\ d'.epoch = d.epoch /\ d'.rev = d.rev + 1
      /\ d.status <= d'.status /\ d.rev \in Nat /\ d.status \in Nat /\ d'.status \in Nat
  BY DEF Emitted
<1>2. heard.rev \in Nat /\ heard.status \in Nat
  BY WatchAssumption DEF IInv, TypeOK, Revs, Versions
<1>3. heard.epoch <= d.epoch
  BY DEF IInv, HeardInv
<1>4. ASSUME heard.epoch = d.epoch
      PROVE  heard.rev <= d.rev + 1 /\ heard.status <= d'.status
             /\ StatusAt(heard.rev)' <= heard.status
  <2>1. heard.rev <= d.rev /\ heard.status <= d.status /\ StatusAt(heard.rev) <= heard.status
    BY <1>4 DEF IInv, HeardInv
  <2>2. heard.rev \in 0..d.rev
    BY <1>1, <1>2, <2>1
  <2>h. PICK h : h = heard.rev
    OBVIOUS
  <2>3. StatusAt(h)' = StatusAt(h)
    BY <2>2, <2>h, EmitHist
  <2>4. StatusAt(heard.rev)' = StatusAt(h)'
    BY <1>1, <2>h DEF StatusAt
  <2> QED
    BY <1>1, <1>2, <2>1, <2>3, <2>4, <2>h
<1> QED
  BY <1>1, <1>3, <1>4 DEF HeardInv

\* The same messages are on their way.
LEMMA EmitSame ==
    ASSUME IInv, NEW m, Emitted(m), stream.open, NEW q, q = Queued(stream)
    PROVE  \A i \in 1..Len(q) :
             /\ Valid(q[i])'
             /\ i > 1 => q[i].kind # "snapshot" /\ q[i].rev = q[i - 1].rev + 1
             /\ i = 1 /\ q[i].kind # "snapshot" => heard'.epoch = d'.epoch /\ q[i].rev = heard'.rev + 1
             /\ i = 1 /\ heard'.epoch = d'.epoch => heard'.rev <= q[i].rev
<1>1. Linked(q) /\ q \in Seq(Message)
  BY QueueTyped DEF IInv, TypeOK, StreamInv
<1>2. heard' = heard /\ d'.epoch = d.epoch
  BY DEF Emitted
<1>3. ASSUME NEW i \in 1..Len(q) PROVE Valid(q[i])'
  <2>x. PICK x : x = q[i]
    OBVIOUS
  <2>1. x \in Message /\ Valid(x)
    BY <1>1, <2>x, ElementOfSeq DEF Linked
  <2>2. Valid(x)'
    BY <2>1, EmitValid
  <2> QED
    BY <2>x, <2>2
<1>4. \A i \in 1..Len(q) :
        /\ i > 1 => q[i].kind # "snapshot" /\ q[i].rev = q[i - 1].rev + 1
        /\ i = 1 /\ q[i].kind # "snapshot" => heard.epoch = d.epoch /\ q[i].rev = heard.rev + 1
        /\ i = 1 /\ heard.epoch = d.epoch => heard.rev <= q[i].rev
  BY <1>1 DEF Linked
<1> QED
  BY <1>2, <1>3, <1>4

\* A stream that gets nothing.
LEMMA EmitPassedBy ==
    ASSUME IInv, NEW m, Emitted(m), stream' \in Stream, ~stream'.registered,
           stream'.open = stream.open, stream'.out = stream.out, stream'.hold = stream.hold,
           stream'.todo = stream.todo, stream'.live = stream.live
    PROVE  StreamInv'
<1>1. Queued(stream') = Queued(stream) /\ Front(stream') = Front(stream)
  BY DEF Queued, Front
<1>2. heard' = heard /\ d'.epoch = d.epoch /\ d'.phase = d.phase
  BY DEF Emitted
<1>3. ASSUME stream.open PROVE Linked(Queued(stream))' /\ Rising(Front(stream))'
  <2>q. PICK q : q = Queued(stream)
    OBVIOUS
  <2>p. PICK p : p = Front(stream)
    OBVIOUS
  <2>1. Queued(stream)' = q /\ Front(stream)' = p
    BY <1>1, <2>q, <2>p
  <2>2. Linked(q)'
    BY <1>3, <2>q, EmitSame DEF Linked
  <2>3. Rising(p)
    BY <1>3, <2>p DEF IInv, StreamInv
  <2>4. Rising(p)'
    BY <1>2, <2>3 DEF Rising
  <2>5. Linked(Queued(stream))' <=> Linked(q)'
    BY <2>1 DEF Linked
  <2>6. Rising(Front(stream))' <=> Rising(p)'
    BY <2>1 DEF Rising
  <2> QED
    BY <2>2, <2>4, <2>5, <2>6
<1> QED
  BY <1>1, <1>2, <1>3 DEF IInv, StreamInv

\* A stream that gets the event: it follows on the last one before.
LEMMA EmitOffered ==
    ASSUME IInv, NEW m, Emitted(m), stream.registered, Len(stream.live) < Buf,
           stream' = [stream EXCEPT !.live = Append(@, m)]
    PROVE  stream' \in Stream /\ Len(stream'.live) <= Buf /\ Len(stream'.out) <= Buf /\ StreamInv'
<1> DEFINE L == Append(stream.live, m)
<1>l. PICK l : l = Len(stream.live)
  OBVIOUS
<1>1. stream \in Stream /\ stream.live \in Seq(Message) /\ l \in Nat /\ m \in Message
      /\ Len(stream.out) <= Buf /\ Buf \in Nat /\ l < Buf
  <2>1. stream \in Stream /\ Len(stream.out) <= Buf /\ Buf \in Nat /\ m \in Message
    BY WatchAssumption DEF IInv, TypeOK, Emitted
  <2>2. stream.live \in Seq(Message)
    BY <2>1, QueueTyped
  <2>3. Len(stream.live) \in Nat
    BY <2>2, LenProperties
  <2> QED
    BY <1>l, <2>1, <2>2, <2>3
<1>2. /\ L \in Seq(Message) /\ Len(L) = Len(stream.live) + 1 /\ L[Len(stream.live) + 1] = m
      /\ \A i \in 1..Len(stream.live) : L[i] = stream.live[i]
  BY <1>1, AppendProperties
<1>3. stream' = [stream EXCEPT !.live = L]
  OBVIOUS
<1> HIDE DEF L
<1>4. /\ stream' \in Stream /\ stream'.open = stream.open /\ stream'.registered = stream.registered
      /\ stream'.live = L /\ stream'.out = stream.out /\ stream'.hold = stream.hold
      /\ stream'.todo = stream.todo
  BY <1>1, <1>2, <1>3 DEF Stream
<1>5. Len(L) <= Buf /\ \A i \in 1..Len(L) : L[i].kind # "snapshot"
  <2>1. l + 1 <= Buf /\ \A i \in 1..(l + 1) : i \in 1..l \/ i = l + 1
    BY <1>1
  <2>2. \A i \in 1..l : stream.live[i].kind # "snapshot"
    BY <1>l DEF IInv, StreamInv
  <2>3. m.kind # "snapshot"
    BY DEF Emitted
  <2>4. Len(L) = l + 1 /\ L[l + 1] = m /\ \A i \in 1..l : L[i] = stream.live[i]
    BY <1>l, <1>2
  <2> QED
    BY <2>1, <2>2, <2>3, <2>4
<1>6. stream.open /\ d.phase # "down"
  BY DEF IInv, StreamInv
<1>q. PICK q : q = Queued(stream)
  OBVIOUS
<1>r. PICK r : r = Append(q, m)
  OBVIOUS
<1>7. /\ q \in Seq(Message) /\ Latest(q) = d.rev /\ (q = <<>> => heard.epoch = d.epoch)
      /\ q = Front(stream) \o stream.live /\ Front(stream) \in Seq(Message)
  BY <1>1, <1>6, <1>q, QueueTyped DEF IInv, StreamInv
<1>8. Front(stream') = Front(stream) /\ Queued(stream') = r
  <2>1. Front(stream') = Front(stream)
    BY <1>4 DEF Front
  <2>2. Queued(stream') = Front(stream) \o L
    BY <1>4, <2>1, QueueTyped
  <2>3. Front(stream) \o L = Append(q, m)
    BY <1>1, <1>7, ConcatAppend DEF L
  <2> QED
    BY <1>r, <2>1, <2>2, <2>3
<1>9. heard' = heard /\ d'.epoch = d.epoch /\ d'.phase = d.phase /\ d'.rev = m.rev
      /\ m.rev = d.rev + 1 /\ m.kind # "snapshot" /\ d.rev \in Nat
  BY DEF Emitted
<1>n. PICK n : n = Len(q)
  OBVIOUS
<1>10. /\ r \in Seq(Message) /\ Len(r) = n + 1 /\ r[n + 1] = m /\ n \in Nat /\ r # <<>>
       /\ \A i \in 1..n : r[i] = q[i]
  <2>1. /\ r \in Seq(Message) /\ Len(r) = Len(q) + 1 /\ r[Len(q) + 1] = m /\ r # <<>>
        /\ \A i \in 1..Len(q) : r[i] = q[i]
    BY <1>1, <1>7, <1>r, AppendProperties
  <2>2. Len(q) \in Nat
    BY <1>7, LenProperties
  <2> QED
    BY <1>n, <2>1, <2>2
<1>11. Linked(r)'
  <2>1. ASSUME NEW i \in 1..n
        PROVE  /\ Valid(r[i])'
               /\ i > 1 => r[i].kind # "snapshot" /\ r[i].rev = r[i - 1].rev + 1
               /\ i = 1 /\ r[i].kind # "snapshot" => heard'.epoch = d'.epoch /\ r[i].rev = heard'.rev + 1
               /\ i = 1 /\ heard'.epoch = d'.epoch => heard'.rev <= r[i].rev
    <3>1. i > 1 => i - 1 \in 1..n
      BY <1>10
    <3>2. r[i] = q[i] /\ (i > 1 => r[i - 1] = q[i - 1])
      BY <1>10, <3>1
    <3>3. /\ Valid(q[i])'
          /\ i > 1 => q[i].kind # "snapshot" /\ q[i].rev = q[i - 1].rev + 1
          /\ i = 1 /\ q[i].kind # "snapshot" => heard'.epoch = d'.epoch /\ q[i].rev = heard'.rev + 1
          /\ i = 1 /\ heard'.epoch = d'.epoch => heard'.rev <= q[i].rev
      BY <1>6, <1>q, <1>n, EmitSame
    <3> QED
      BY <3>2, <3>3
  <2>2. Valid(r[n + 1])'
    BY <1>10, EmitValid
  <2>3. CASE n = 0
    <3>1. q = <<>>
      BY <1>7, <1>n, <2>3, EmptySeq
    <3>2. heard.epoch = d.epoch /\ heard.rev = d.rev
      BY <1>7, <3>1 DEF Latest
    <3>3. heard'.epoch = d'.epoch /\ m.rev = heard'.rev + 1 /\ heard'.rev <= m.rev
      BY <1>9, <3>2
    <3>4. r[1] = m /\ Valid(r[1])' /\ \A i \in 1..Len(r) : i = 1
      BY <1>10, <2>2, <2>3
    <3>5. m.kind # "snapshot"
      BY <1>9
    <3>6. 1 \in Nat /\ ~(1 > 1)
      OBVIOUS
    <3> QED
      BY <3>3, <3>4, <3>5, <3>6 DEF Linked
  <2>4. CASE n # 0
    <3>1. q # <<>> /\ n \in 1..n /\ n + 1 > 1 /\ n + 1 # 1 /\ (n + 1) - 1 = n
      BY <1>7, <1>n, <1>10, <2>4, EmptySeq
    <3>2. q[n].rev = d.rev /\ r[n] = q[n]
      BY <1>7, <1>n, <1>10, <3>1 DEF Latest
    <3>3. r[n + 1].kind # "snapshot" /\ r[n + 1].rev = r[(n + 1) - 1].rev + 1
      BY <1>9, <1>10, <3>1, <3>2
    <3>4. \A i \in 1..Len(r) : i \in 1..n \/ i = n + 1
      BY <1>10
    <3>5. ASSUME NEW i \in 1..Len(r)
          PROVE  /\ Valid(r[i])'
                 /\ i > 1 => r[i].kind # "snapshot" /\ r[i].rev = r[i - 1].rev + 1
                 /\ i = 1 /\ r[i].kind # "snapshot" => heard'.epoch = d'.epoch /\ r[i].rev = heard'.rev + 1
                 /\ i = 1 /\ heard'.epoch = d'.epoch => heard'.rev <= r[i].rev
      <4>1. CASE i \in 1..n
        BY <2>1, <4>1
      <4>2. CASE i = n + 1
        BY <2>2, <3>1, <3>3, <4>2
      <4> QED
        BY <3>4, <4>1, <4>2
    <3> QED
      BY <3>5 DEF Linked
  <2> QED
    BY <2>3, <2>4
<1>12. Linked(Queued(stream))'
  BY <1>8, <1>11 DEF Linked
<1>13. Rising(Front(stream))'
  <2>p. PICK p : p = Front(stream)
    OBVIOUS
  <2>1. Rising(p)
    BY <1>6, <2>p DEF IInv, StreamInv
  <2>2. Rising(p)'
    BY <1>9, <2>1 DEF Rising
  <2> QED
    BY <1>8, <2>p, <2>2 DEF Rising
<1>14. Latest(Queued(stream))' = d'.rev /\ Queued(stream)' # <<>>
  BY <1>8, <1>9, <1>10 DEF Latest
<1>15. Len(stream'.hold) <= 1
  BY <1>4 DEF IInv, StreamInv
<1>16. StreamInv'
  BY <1>4, <1>5, <1>6, <1>9, <1>12, <1>13, <1>14, <1>15 DEF StreamInv
<1> QED
  BY <1>1, <1>4, <1>5, <1>16

\* The daemon emits an event: a watcher gets it or is done with.
LEMMA EmitKeeps ==
    ASSUME IInv, NEW kind \in {"status", "other"}, NEW status \in Versions, Emit(kind, status)
    PROVE  IInv'
<1>1. PICK m \in Message :
        /\ Emitted(m) /\ d' = [d EXCEPT !.rev = m.rev, !.status = status, !.ring = NewRing(m)]
        /\ stream' = Offer(stream, m) /\ d.phase # "down"
  BY EmitBuilds
<1>2. stream \in Stream /\ Len(stream.live) <= Buf /\ Len(stream.out) <= Buf /\ Buf \in Nat
  BY WatchAssumption DEF IInv, TypeOK
<1>3. stream' \in Stream /\ Len(stream'.live) <= Buf /\ Len(stream'.out) <= Buf /\ StreamInv'
  <2>1. CASE ~stream.registered
    <3>1. stream' = stream
      BY <1>1, <2>1 DEF Offer
    <3> QED
      BY <1>1, <1>2, <2>1, <3>1, EmitPassedBy
  <2>2. CASE stream.registered /\ Len(stream.live) < Buf
    <3>1. stream' = [stream EXCEPT !.live = Append(@, m)]
      BY <1>1, <2>2 DEF Offer
    <3> QED
      BY <1>1, <2>2, <3>1, EmitOffered
  <2>3. CASE stream.registered /\ ~(Len(stream.live) < Buf)
    <3>1. stream' = [stream EXCEPT !.registered = FALSE]
      BY <1>1, <2>3 DEF Offer
    <3>2. /\ stream' \in Stream /\ ~stream'.registered /\ stream'.open = stream.open
          /\ stream'.out = stream.out /\ stream'.hold = stream.hold
          /\ stream'.todo = stream.todo /\ stream'.live = stream.live
      BY <1>2, <3>1 DEF Stream
    <3>3. StreamInv'
      BY <1>1, <3>2, EmitPassedBy
    <3> QED
      BY <1>2, <3>2, <3>3
  <2> QED
    BY <2>1, <2>2, <2>3
<1> DEFINE R == NewRing(m)
<1>4. d' = [d EXCEPT !.rev = m.rev, !.status = status, !.ring = R]
  BY <1>1
<1> HIDE DEF R
<1>5. d'.ring = R
  BY <1>4 DEF IInv, TypeOK
<1>6. R \in Seq(Message) /\ Len(R) <= RingSize /\ RingInv'
  BY <1>1, <1>5, EmitRing DEF R
<1>7. m.rev \in Revs
  BY DEF Message
<1>8. d' \in [phase : {"up", "drain", "down"}, epoch : 1..MaxEpoch, rev : Revs, status : Versions,
              ring : Seq(Message), exit : {"none", "clean", "error", "killed"}]
  BY <1>4, <1>6, <1>7 DEF IInv, TypeOK
<1>9. hist' \in Seq(Versions) /\ HistInv' /\ HeardInv'
  BY <1>1, EmitHist, EmitHeard
<1>10. UNCHANGED <<present, heard, tray, breaks>>
  BY <1>1 DEF Emitted
<1>11. TypeOK'
  BY <1>3, <1>5, <1>6, <1>8, <1>9, <1>10 DEF IInv, TypeOK
<1>12. MenuInv'
  BY <1>10 DEF IInv, MenuInv
<1> QED
  BY <1>3, <1>6, <1>9, <1>11, <1>12 DEF IInv

\* The status changes and nobody is told: what was said of it stays true.
LEMMA QuietKeeps ==
    ASSUME IInv, ChangeQuietly
    PROVE  IInv'
<1>n. PICK n : n = d.status + 1
  OBVIOUS
<1>1. d.status \in Nat /\ n \in Versions /\ n \in Nat /\ d.status <= n
  <2>1. d.status \in Nat /\ d.status < MaxStatus /\ MaxStatus \in Nat
    BY WatchAssumption DEF IInv, TypeOK, ChangeQuietly, Versions
  <2> QED
    BY <1>n, <2>1 DEF Versions
<1>2. d' = [d EXCEPT !.status = n] /\ UNCHANGED <<present, stream, heard, tray, breaks, hist>>
  BY <1>n DEF ChangeQuietly
<1>3. /\ d'.phase = d.phase /\ d'.epoch = d.epoch /\ d'.rev = d.rev /\ d'.status = n
      /\ d'.ring = d.ring
      /\ d' \in [phase : {"up", "drain", "down"}, epoch : 1..MaxEpoch, rev : Revs, status : Versions,
                 ring : Seq(Message), exit : {"none", "clean", "error", "killed"}]
  BY <1>1, <1>2 DEF IInv, TypeOK
<1>4. TypeOK'
  BY <1>2, <1>3 DEF IInv, TypeOK
<1>5. \A r : StatusAt(r)' = StatusAt(r)
  BY <1>2 DEF StatusAt
<1>6. HistInv'
  <2>1. d.rev \in Nat /\ Len(hist) = d.rev /\ hist \in Seq(Versions)
    BY WatchAssumption DEF IInv, TypeOK, HistInv, Revs
  <2>2. \A r \in 1..d.rev : hist[r] \in Nat /\ hist[r] <= d.status
    BY <2>1, ElementOfSeq, WatchAssumption DEF IInv, HistInv, Versions
  <2>3. \A r \in 1..d.rev : hist[r] <= n
    BY <1>1, <2>2
  <2> QED
    BY <1>2, <1>3, <1>5, <2>1, <2>3 DEF IInv, HistInv
<1>7. ASSUME NEW x \in Message, Valid(x) PROVE Valid(x)'
  <2>1. x.status \in Nat /\ x.status <= d.status
    BY <1>7, WatchAssumption DEF Message, Versions, Valid
  <2>2. x.status <= n
    BY <1>1, <2>1
  <2> QED
    BY <1>2, <1>3, <1>5, <1>7, <2>2 DEF Valid
<1>8. RingInv'
  <2>1. d.ring \in Seq(Message)
    BY DEF IInv, TypeOK
  <2>2. ASSUME NEW i \in 1..Len(d.ring)
        PROVE  /\ d.ring[i].rev + (Len(d.ring) - i) = d.rev
               /\ Valid(d.ring[i])' /\ d.ring[i].kind # "snapshot"
    <3>x. PICK x : x = d.ring[i]
      OBVIOUS
    <3>1. x \in Message /\ Valid(x)
      BY <2>1, <3>x, ElementOfSeq DEF IInv, RingInv
    <3>2. Valid(x)'
      BY <1>7, <3>1
    <3>3. d.ring[i]' = x
      BY <1>3, <3>x
    <3> QED
      BY <3>2, <3>3, <3>x DEF IInv, RingInv
  <2>3. d.rev > 0 => d.ring # <<>>
    BY DEF IInv, RingInv
  <2> QED
    BY <1>3, <2>2, <2>3 DEF RingInv
<1>9. HeardInv'
  <2>1. heard.status \in Nat
    BY WatchAssumption DEF IInv, TypeOK, Versions
  <2>2. heard.status <= d.status => heard.status <= n
    BY <1>1, <2>1
  <2>h. PICK h : h = heard.rev
    OBVIOUS
  <2>3. StatusAt(heard.rev)' = StatusAt(heard.rev)
    BY <1>2 DEF StatusAt
  <2> QED
    BY <1>2, <1>3, <2>2, <2>3 DEF IInv, HeardInv
<1>10. StreamInv'
  <2>q. PICK q : q = Queued(stream)
    OBVIOUS
  <2>p. PICK p : p = Front(stream)
    OBVIOUS
  <2>1. Queued(stream)' = q /\ Front(stream)' = p
    BY <1>2, <2>q, <2>p
  <2>2. ASSUME stream.open
        PROVE  Linked(q)' /\ Rising(p)' /\ (stream.registered => Latest(q)' = d.rev)
    <3>1. Linked(q) /\ Rising(p) /\ q \in Seq(Message) /\ (stream.registered => Latest(q) = d.rev)
      BY <2>2, <2>q, <2>p, QueueTyped DEF IInv, TypeOK, StreamInv
    <3>2. ASSUME NEW i \in 1..Len(q) PROVE Valid(q[i])'
      <4>x. PICK x : x = q[i]
        OBVIOUS
      <4>1. x \in Message /\ Valid(x)
        BY <3>1, <4>x, ElementOfSeq DEF Linked
      <4>2. Valid(x)'
        BY <1>7, <4>1
      <4> QED
        BY <4>x, <4>2
    <3>3. Linked(q)'
      BY <1>2, <1>3, <3>1, <3>2 DEF Linked
    <3>4. Rising(p)'
      BY <1>2, <1>3, <3>1 DEF Rising
    <3>5. Latest(q)' = Latest(q)
      BY <1>2 DEF Latest
    <3> QED
      BY <3>1, <3>3, <3>4, <3>5
  <2>3. /\ Linked(Queued(stream))' <=> Linked(q)'
        /\ Rising(Front(stream))' <=> Rising(p)'
        /\ Latest(Queued(stream))' = Latest(q)'
    BY <2>1 DEF Linked, Rising, Latest
  <2> QED
    BY <1>2, <1>3, <2>1, <2>2, <2>3, <2>q DEF IInv, StreamInv
<1>11. MenuInv'
  BY <1>2 DEF IInv, MenuInv
<1> QED
  BY <1>4, <1>6, <1>8, <1>9, <1>10, <1>11 DEF IInv

-----------------------------------------------------------------------------
(* The daemon comes and goes.                                               *)

\* A signal, and the ends of a daemon: only its phase changes, and streams end.
LEMMA PhaseKeeps ==
    ASSUME IInv, UNCHANGED <<present, heard, tray, breaks, hist>>,
           NEW ph \in {"up", "drain", "down"}, NEW ex \in {"none", "clean", "error", "killed"},
           d' = [d EXCEPT !.phase = ph, !.exit = ex],
           stream' = NoStream \/ (stream' = stream /\ ph # "down")
    PROVE  IInv'
<1>1. /\ d'.phase = ph /\ d'.epoch = d.epoch /\ d'.rev = d.rev /\ d'.status = d.status
      /\ d'.ring = d.ring
      /\ d' \in [phase : {"up", "drain", "down"}, epoch : 1..MaxEpoch, rev : Revs, status : Versions,
                 ring : Seq(Message), exit : {"none", "clean", "error", "killed"}]
  BY DEF IInv, TypeOK
<1>2. /\ NoStream \in Stream /\ ~NoStream.open /\ ~NoStream.registered
      /\ Len(NoStream.live) = 0 /\ Len(NoStream.out) = 0 /\ Len(NoStream.hold) = 0
  BY DEF NoStream, Stream
<1>3. Buf \in Nat
  BY WatchAssumption
<1>4. TypeOK'
  BY <1>1, <1>2, <1>3 DEF IInv, TypeOK
<1>5. HistInv' /\ HeardInv'
  BY <1>1 DEF IInv, HistInv, HeardInv, StatusAt
<1>v. \A x : Valid(x)' <=> Valid(x)
  BY <1>1 DEF Valid, StatusAt
<1>6. RingInv'
  BY <1>1, <1>v DEF IInv, RingInv, Valid, StatusAt
<1>7. StreamInv'
  <2>1. CASE stream' = NoStream
    BY <1>2, <2>1 DEF StreamInv
  <2>2. CASE stream' = stream /\ ph # "down"
    <3>1. /\ Linked(Queued(stream))' <=> Linked(Queued(stream))
          /\ Rising(Front(stream))' <=> Rising(Front(stream))
          /\ Latest(Queued(stream))' = Latest(Queued(stream))
      BY <1>1, <2>2 DEF Linked, Rising, Latest, Valid, StatusAt
    <3> QED
      BY <1>1, <2>2, <3>1 DEF IInv, StreamInv
  <2> QED
    BY <2>1, <2>2
<1>8. MenuInv'
  BY DEF IInv, MenuInv
<1> QED
  BY <1>4, <1>5, <1>6, <1>7, <1>8 DEF IInv

\* The next daemon has a new epoch and nothing to say yet.
LEMMA RestartKeeps ==
    ASSUME IInv, Restart
    PROVE  IInv'
<1> DEFINE e == <<>>
           n == d.epoch + 1
<1>1. n \in 1..MaxEpoch /\ d.epoch \in Nat
  BY WatchAssumption DEF IInv, TypeOK, Restart
<1>2. d' = [phase |-> "up", epoch |-> n, rev |-> 0, status |-> 0, ring |-> e, exit |-> "none"]
  BY DEF Restart, Started
<1>3. e \in Seq(Message) /\ Len(e) = 0 /\ hist' = e /\ hist' \in Seq(Versions) /\ Len(hist') = 0
  BY DEF Restart
<1>4. 0 \in Revs /\ 0 \in Versions /\ RingSize \in Nat
  BY WatchAssumption DEF Revs, Versions
<1>5. heard.epoch \in Nat /\ heard.epoch <= d.epoch /\ ~stream.open /\ ~stream.registered
  BY WatchAssumption DEF IInv, TypeOK, HeardInv, StreamInv, Restart, Epochs
<1>6. heard.epoch < n
  BY <1>1, <1>5
<1> HIDE DEF n, e
<1>7. /\ d'.phase = "up" /\ d'.epoch = n /\ d'.rev = 0 /\ d'.status = 0 /\ d'.ring = e
      /\ d' \in [phase : {"up", "drain", "down"}, epoch : 1..MaxEpoch, rev : Revs, status : Versions,
                 ring : Seq(Message), exit : {"none", "clean", "error", "killed"}]
  BY <1>1, <1>2, <1>3, <1>4
<1>8. UNCHANGED <<present, stream, heard, tray, breaks>>
  BY DEF Restart
<1>9. TypeOK'
  BY <1>3, <1>4, <1>7, <1>8 DEF IInv, TypeOK
<1>10. HistInv' /\ RingInv'
  <2>1. \A r \in 1..0 : FALSE
    OBVIOUS
  <2> QED
    BY <1>3, <1>7, <2>1 DEF HistInv, RingInv, StatusAt
<1>11. HeardInv'
  <2>1. heard.epoch <= n /\ heard.epoch # n
    <3>1. n \in Nat
      BY <1>1
    <3> QED
      BY <1>5, <1>6, <3>1
  <2> QED
    BY <1>7, <1>8, <2>1 DEF HeardInv
<1>12. StreamInv' /\ MenuInv'
  BY <1>5, <1>7, <1>8 DEF IInv, StreamInv, MenuInv
<1> QED
  BY <1>9, <1>10, <1>11, <1>12 DEF IInv

-----------------------------------------------------------------------------
(* The theorems.                                                            *)

\* The invariant holds at the start.
LEMMA InvInit ==
    ASSUME Init
    PROVE  IInv
<1> DEFINE e == <<>>
           first == [epoch |-> 1, status |-> 0]
<1>1. /\ d = [phase |-> "up", epoch |-> 1, rev |-> 0, status |-> 0, ring |-> e, exit |-> "none"]
      /\ heard = [epoch |-> 0, rev |-> 0, status |-> 0] /\ breaks = 0 /\ hist = e
      /\ present \in Crowds
  BY DEF Init, Started, Afresh
<1>2. e \in Seq(Message) /\ Len(e) = 0 /\ e \in Seq(Versions)
  OBVIOUS
<1>3. 0 \in Revs /\ 0 \in Versions /\ RingSize \in Nat /\ Buf \in Nat /\ 1 \in 1..MaxEpoch /\ 0 \in Epochs
      /\ 0 \in 0..MaxBreaks /\ 1 \in Epochs
  BY WatchAssumption DEF Revs, Versions, Epochs
<1>4. /\ stream \in Stream /\ ~stream.open /\ ~stream.registered
      /\ Len(stream.live) = 0 /\ Len(stream.out) = 0 /\ Len(stream.hold) = 0
  BY DEF Init, NoStream, Stream
<1>5. tray \in [status : Shown, heard : Shown, menu : Shown, got : Shown,
                refresh : {"idle", "read", "signal"}, changed : BOOLEAN,
                rebuildCh : BOOLEAN, loop : {"idle", "debounce", "drained", "render"}]
      /\ tray.menu = tray.status
  <2>1. first \in Shown /\ Nothing \in Shown
    BY <1>3 DEF Shown, Nothing
  <2>2. tray = [status |-> first, heard |-> Nothing, menu |-> first, got |-> Nothing, refresh |-> "idle",
                changed |-> FALSE, rebuildCh |-> FALSE, loop |-> "idle"]
    BY DEF Init
  <2> HIDE DEF first
  <2> QED
    BY <2>1, <2>2
<1> HIDE DEF e
<1>6. TypeOK
  BY <1>1, <1>2, <1>3, <1>4, <1>5 DEF TypeOK
<1>7. HistInv /\ RingInv
  <2>1. \A r \in 1..0 : FALSE
    OBVIOUS
  <2> QED
    BY <1>1, <1>2, <2>1 DEF HistInv, RingInv, StatusAt
<1>8. HeardInv /\ MenuInv
  BY <1>1, <1>5 DEF HeardInv, MenuInv
<1>9. StreamInv
  BY <1>1, <1>4 DEF StreamInv
<1> QED
  BY <1>6, <1>7, <1>8, <1>9 DEF IInv

\* Every step keeps it.
LEMMA InvNext ==
    ASSUME IInv, [Next]_vars
    PROVE  IInv'
<1>1. CASE \E kind \in {"status", "other"}, status \in Versions : Emit(kind, status)
  BY <1>1, EmitKeeps
<1>q. CASE ChangeQuietly
  BY <1>q, QuietKeeps
<1>2. CASE StreamStep
  <2>1. CASE WatchSince
    BY <2>1, WatchSinceKeeps
  <2>2. CASE Take
    BY <2>2, TakeTodoKeeps, TakeLiveKeeps DEF Take
  <2>3. CASE Put
    BY <2>3, PutKeeps
  <2>4. CASE EndStream
    BY <2>4, EndStreamKeeps
  <2>5. CASE Receive
    BY <2>5, ReceiveKeeps
  <2> QED
    BY <1>2, <2>1, <2>2, <2>3, <2>4, <2>5 DEF StreamStep
<1>3. CASE Break
  BY <1>3, EndStreamKeeps
<1>4. CASE Shutdown
  <2>1. d.exit \in {"none", "clean", "error", "killed"}
    BY DEF IInv, TypeOK
  <2>2. d' = [d EXCEPT !.phase = "drain", !.exit = d.exit]
    BY <1>4 DEF Shutdown, IInv, TypeOK
  <2> QED
    BY <1>4, <2>1, <2>2, PhaseKeeps DEF Shutdown
<1>5. CASE Close \/ ShutdownExpires \/ Kill
  <2>1. PICK ex \in {"clean", "error", "killed"} : Ended(ex)
    BY <1>5 DEF Close, ShutdownExpires, Kill
  <2> QED
    BY <2>1, PhaseKeeps DEF Ended
<1>6. CASE Restart
  BY <1>6, RestartKeeps
<1>7. CASE HandleNotify
  BY <1>7, HandleNotifyKeeps
<1>8. CASE RefreshReads \/ TrayStep
  BY <1>8, TrayStepKeeps
<1>9. CASE UNCHANGED vars
  <2>1. UNCHANGED <<d, hist, heard>> /\ UNCHANGED <<present, d, tray, hist>> /\ UNCHANGED breaks
        /\ UNCHANGED stream
    BY <1>9 DEF vars
  <2>2. HeardInv' /\ StreamInv'
    BY <2>1, SameJudge DEF IInv, StreamInv
  <2> QED
    BY <2>1, <2>2, StreamKeeps DEF IInv, TypeOK
<1> QED
  BY <1>1, <1>q, <1>2, <1>3, <1>4, <1>5, <1>6, <1>7, <1>8, <1>9 DEF Next

\* The invariant holds always.
LEMMA InvAlways == Spec => []IInv
<1>1. Init => IInv
  BY InvInit
<1>2. IInv /\ [Next]_vars => IInv'
  BY InvNext
<1> QED
  BY <1>1, <1>2, PTL DEF Spec

\* Every variable keeps its type; the ring, live and out never exceed their capacities.
THEOREM TypeCorrect == Spec => [](TypeOK)
<1>1. IInv => TypeOK
  BY DEF IInv
<1> QED
  BY <1>1, InvAlways, PTL

\* The stream of WatchSince has no gap and no duplicate, and a registered watcher will reach
\* the newest event, however emits, slow forwarding, breaks and restarts interleave.
THEOREM StreamWithoutGap == Spec => [](NoGap)
<1>1. IInv => NoGap
  <2> SUFFICES ASSUME IInv, stream.open PROVE
         LET q == Queued(stream)
             last == IF q = <<>> THEN heard.rev ELSE q[Len(q)].rev
         IN /\ \A i \in 1..(Len(q) - 1) : q[i + 1].rev = q[i].rev + 1
            /\ q # <<>> /\ Head(q).kind # "snapshot" =>
                 heard.epoch = d.epoch /\ Head(q).rev = heard.rev + 1
            /\ stream.registered => last = d.rev
    BY DEF NoGap
  <2>q. PICK q : q = Queued(stream)
    OBVIOUS
  <2>1. q \in Seq(Message) /\ Linked(q) /\ (stream.registered => Latest(q) = d.rev)
    BY <2>q, QueueTyped DEF IInv, TypeOK, StreamInv
  <2>n. PICK n \in Nat : n = Len(q)
    BY <2>1, LenProperties
  <2>2. ASSUME NEW i \in 1..(n - 1) PROVE q[i + 1].rev = q[i].rev + 1
    <3>1. i + 1 \in 1..n /\ i + 1 > 1 /\ (i + 1) - 1 = i
      BY <2>2
    <3> QED
      BY <2>1, <2>n, <3>1 DEF Linked
  <2>3. ASSUME q # <<>>, Head(q).kind # "snapshot"
        PROVE  heard.epoch = d.epoch /\ Head(q).rev = heard.rev + 1
    <3>1. Head(q) = q[1] /\ 1 \in 1..Len(q)
      BY <2>1, <2>3, EmptySeq
    <3> QED
      BY <2>1, <2>3, <3>1 DEF Linked
  <2>4. stream.registered => (IF q = <<>> THEN heard.rev ELSE q[Len(q)].rev) = d.rev
    BY <2>1 DEF Latest
  <2> QED
    BY <2>q, <2>n, <2>2, <2>3, <2>4
<1> QED
  BY <1>1, InvAlways, PTL

\* A client that has received revision r knows every status announced up to r, or a later
\* one, although the status also changes between and without events.
THEOREM ChangesNeverMissed == Spec => [](NoMissedChange)
<1>1. IInv => NoMissedChange
  <2> SUFFICES ASSUME IInv, heard.epoch = d.epoch
               PROVE  heard.status >= StatusAt(heard.rev)
    BY DEF NoMissedChange
  <2>1. heard.rev <= d.rev /\ StatusAt(heard.rev) <= heard.status /\ heard.rev \in Nat
        /\ heard.status \in Nat /\ d.rev \in Nat
    BY WatchAssumption DEF IInv, TypeOK, HeardInv, Revs, Versions
  <2>2. StatusAt(heard.rev) \in Nat
    <3>1. CASE heard.rev = 0
      BY <3>1 DEF StatusAt
    <3>2. CASE heard.rev # 0
      <4>1. heard.rev \in 1..Len(hist) /\ hist \in Seq(Versions)
        BY <2>1, <3>2 DEF IInv, TypeOK, HistInv
      <4> QED
        BY <3>2, <4>1, ElementOfSeq, WatchAssumption DEF StatusAt, Versions
    <3> QED
      BY <3>1, <3>2
  <2> QED
    BY <2>1, <2>2
<1> QED
  BY <1>1, InvAlways, PTL

\* The status a stream delivers never goes back to an older one, although forwarded events
\* are filled in with the status of a later moment.
THEOREM StatusNeverBackwards == Spec => NeverBackwards
<1> DEFINE A == heard'.epoch = heard.epoch => heard'.rev >= heard.rev /\ heard'.status >= heard.status
<1>1. ASSUME IInv, [Next]_vars PROVE [A]_vars
  <2>1. heard.rev \in Nat /\ heard.status \in Nat
    BY <1>1, WatchAssumption DEF IInv, TypeOK, Revs, Versions
  <2>2. CASE heard' = heard
    BY <2>1, <2>2
  <2>3. CASE Receive
    <3>m. PICK m : m = Head(stream.out)
      OBVIOUS
    <3>1. /\ heard' \in [epoch : Epochs, rev : Revs, status : Versions]
          /\ heard'.epoch = d.epoch /\ heard'.rev = m.rev
          /\ heard.epoch = d.epoch => heard.rev <= m.rev /\ heard.status <= heard'.status
      BY <1>1, <2>3, <3>m, ReceiveHeard
    <3>2. heard'.rev \in Nat /\ heard'.status \in Nat
      BY <3>1, WatchAssumption DEF Revs, Versions
    <3> QED
      BY <2>1, <3>1, <3>2
  <2>4. Receive \/ heard' = heard
    BY <1>1 DEF Next, StreamStep, TrayStep, vars, Emit, ChangeQuietly, WatchSince, Take, Put, EndStream, Break,
                Shutdown, Close, ShutdownExpires, Kill, Ended, Restart, HandleNotify, RefreshReads,
                RequestRebuild, RefreshStores, RebuildWakes, DrainRebuilds, Rebuild, Rendered
  <2> QED
    BY <2>2, <2>3, <2>4
<1> QED
  BY <1>1, InvAlways, PTL DEF Spec, NeverBackwards

\* No rebuild of the tray is lost: at rest its menu shows the status it holds.
THEOREM MenuAlwaysCurrent == Spec => [](MenuCurrent)
<1>1. IInv => MenuCurrent
  BY DEF IInv, MenuInv, MenuCurrent
<1> QED
  BY <1>1, InvAlways, PTL

=============================================================================
