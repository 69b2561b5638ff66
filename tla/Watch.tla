-------------------------------- MODULE Watch --------------------------------
(***************************************************************************)
(* The event stream of the daemon, from emitLocked to the tray menu:       *)
(* revisions and the ring of internal/appd, WatchSince, the handler of     *)
(* /v2/watch, a client that resumes where its stream broke, the tray with  *)
(* its refresh and rebuild loops, and the shutdown of main, which waits    *)
(* for open streams.                                                       *)
(*                                                                         *)
(* A notification either carries the status or does not; the status is     *)
(* abstracted to the number of its changes since the start.  A change is   *)
(* announced by a status event, comes with another event, or with none.    *)
(* Per actor filtering, traffic, connection events and update checks are   *)
(* left out.  A handler and the client it writes to are one: what is in    *)
(* the socket is counted to the out channel.  A watcher whose client has   *)
(* gone is removed at once, in the code soon after; nobody reads it then.  *)
(* Streams do not interact, so there is one; the tray's own stream is      *)
(* abstracted to what the first one is shown to deliver, a status that is  *)
(* never older than the one before.                                        *)
(***************************************************************************)
EXTENDS Naturals, Sequences, FiniteSets

CONSTANTS
    Crowds,     \* the sets of clients, of "watcher" and "tray", that may be running
    RingSize,   \* 1024 in the code
    Buf,        \* capacity of the channels live and out, 32 in the code
    MaxRev,     \* bound on the events of one daemon
    MaxTrayRev, \* the same with the tray running
    MaxStatus,  \* bound on the changes of the status of one daemon
    MaxEpoch,   \* bound on the starts of the daemon
    MaxBreaks   \* bound on the streams that break

ASSUME WatchAssumption ==
    /\ RingSize \in Nat \ {0} /\ Buf \in Nat \ {0} /\ MaxRev \in Nat /\ MaxTrayRev \in 0..MaxRev
    /\ MaxStatus \in Nat
    /\ MaxEpoch \in Nat \ {0} /\ MaxBreaks \in Nat /\ Crowds \subseteq SUBSET {"watcher", "tray"}

VARIABLES
    present,    \* the clients that are running
    d,          \* the daemon: phase, epoch, revision, status, eventRing, exit
    stream,     \* the goroutines and channels of WatchSince
    heard,      \* what its client received last
    tray,       \* the tray's status, its refresh, its rebuild loop and its menu
    breaks,     \* streams broken so far
    hist        \* history: hist[r] is the status last announced up to revision r

vars == <<present, d, stream, heard, tray, breaks, hist>>

-----------------------------------------------------------------------------
Revs == 0..MaxRev
Versions == 0..MaxStatus
Epochs == 0..MaxEpoch
Message == [rev : Revs, kind : {"snapshot", "status", "other"}, status : Versions]

Stream == [open : BOOLEAN, registered : BOOLEAN, todo : Seq(Message), live : Seq(Message),
           hold : Seq(Message), out : Seq(Message)]
NoStream == [open |-> FALSE, registered |-> FALSE, todo |-> <<>>, live |-> <<>>,
             hold |-> <<>>, out |-> <<>>]
Shown == [epoch : Epochs, status : Versions]
Nothing == [epoch |-> 0, status |-> 0]
Afresh == [epoch |-> 0, rev |-> 0, status |-> 0]

TypeOK ==
    /\ present \in Crowds
    /\ d \in [phase : {"up", "drain", "down"}, epoch : 1..MaxEpoch, rev : Revs, status : Versions,
              ring : Seq(Message), exit : {"none", "clean", "error", "killed"}]
    /\ Len(d.ring) <= RingSize
    /\ stream \in Stream
    /\ Len(stream.live) <= Buf /\ Len(stream.out) <= Buf
    /\ heard \in [epoch : Epochs, rev : Revs, status : Versions]
    /\ tray \in [status : Shown, heard : Shown, menu : Shown, got : Shown,
                 refresh : {"idle", "read", "signal"}, changed : BOOLEAN,
                 rebuildCh : BOOLEAN, loop : {"idle", "debounce", "drained", "render"}]
    /\ breaks \in 0..MaxBreaks
    /\ hist \in Seq(Versions)

\* Mutant: every start of the daemon has the same epoch.
StartedAgain(epoch) == [phase |-> "up", epoch |-> 1, rev |-> 0, status |-> 0,
                        ring |-> <<>>, exit |-> "none"]

Started(epoch) == [phase |-> "up", epoch |-> epoch, rev |-> 0, status |-> 0,
                   ring |-> <<>>, exit |-> "none"]

\* onReady has refreshed and rendered the menu once.
Init ==
    /\ present \in Crowds
    /\ d = Started(1)
    /\ stream = NoStream
    /\ heard = Afresh
    /\ LET first == [epoch |-> 1, status |-> 0]
       IN tray = [status |-> first, heard |-> Nothing, menu |-> first, got |-> Nothing, refresh |-> "idle",
                  changed |-> FALSE, rebuildCh |-> FALSE, loop |-> "idle"]
    /\ breaks = 0
    /\ hist = <<>>

-----------------------------------------------------------------------------
(* The daemon.                                                             *)

Running == d.phase # "down"

\* Mutant: a full watcher misses the event and stays.
OfferSkips(s, m) ==
    IF ~s.registered \/ Len(s.live) = Buf THEN s ELSE [s EXCEPT !.live = Append(@, m)]

\* One watcher in emitLocked: a slow one is removed and its channel closed.
Offer(s, m) ==
    IF ~s.registered THEN s
    ELSE IF Len(s.live) < Buf THEN [s EXCEPT !.live = Append(@, m)]
    ELSE [s EXCEPT !.registered = FALSE]

Newest(ring) == SubSeq(ring, Len(ring) - RingSize + 1, Len(ring))

\* The status last announced up to revision r; a daemon starts with status 0.
StatusAt(r) == IF r = 0 THEN 0 ELSE hist[r]

\* emitLocked, in the section of s.mu that changed what it reports: the status, which a
\* status event carries and the events of profiles and operations do not.
Emit(kind, status) ==
    /\ Running /\ d.rev < (IF "tray" \in present THEN MaxTrayRev ELSE MaxRev)
    /\ status \in {d.status, d.status + 1} \cap Versions
    /\ LET rev == d.rev + 1
           m == [rev |-> rev, kind |-> kind, status |-> IF kind = "status" THEN status ELSE 0]
           ring == Append(d.ring, m)
       IN /\ d' = [d EXCEPT !.rev = rev, !.status = status,
                            !.ring = IF Len(ring) > RingSize THEN Newest(ring) ELSE ring]
          /\ stream' = Offer(stream, m)
          /\ hist' = Append(hist, IF kind = "status" THEN status ELSE StatusAt(d.rev))
    /\ UNCHANGED <<present, heard, tray, breaks>>

\* The status changes and nobody is told: ControlMode after its last status event, the
\* selection after a create, Operation cleared after its event.
ChangeQuietly ==
    /\ Running /\ d.status < MaxStatus
    /\ d' = [d EXCEPT !.status = @ + 1]
    /\ UNCHANGED <<present, stream, heard, tray, breaks, hist>>

\* notifyForActorLocked: a status is replaced by the present one.
ForActor(m) == [m EXCEPT !.status = IF m.kind = "status" THEN d.status ELSE @]

\* Mutant: off by one at the start of the ring.
NeedSnapshotLate(epoch, since) ==
    \/ epoch # d.epoch \/ since = 0
    \/ d.ring # <<>> /\ since + 2 < Head(d.ring).rev
    \/ since < d.rev /\ \A i \in 1..Len(d.ring) : d.ring[i].rev <= since

\* The client is of another daemon, new, behind the ring, or the ring is empty.
NeedSnapshot(epoch, since) ==
    \/ epoch # d.epoch \/ since = 0
    \/ d.ring # <<>> /\ since + 1 < Head(d.ring).rev
    \/ since < d.rev /\ \A i \in 1..Len(d.ring) : d.ring[i].rev <= since

Snapshot == [rev |-> d.rev, kind |-> "snapshot", status |-> d.status]

\* The events of the ring after since, in their order.
Replay(since) ==
    LET later == {i \in 1..Len(d.ring) : d.ring[i].rev > since}
        Nth(n) == CHOOSE i \in later : Cardinality({j \in later : j <= i}) = n
    IN [n \in 1..Cardinality(later) |-> ForActor(d.ring[Nth(n)])]

\* handleWatch and WatchSince: the watcher is registered in the section that takes the
\* snapshot or the replay.  Client.Watch starts afresh, with no epoch and since 0.
WatchSince ==
    /\ "watcher" \in present /\ d.phase = "up" /\ ~stream.open
    /\ \E cursor \in {heard, Afresh} :
         stream' = [NoStream EXCEPT !.open = TRUE, !.registered = TRUE,
                      !.todo = IF NeedSnapshot(cursor.epoch, cursor.rev) THEN <<Snapshot>>
                               ELSE Replay(cursor.rev)]
    /\ UNCHANGED <<present, d, heard, tray, breaks, hist>>

\* The forwarder takes the next notification; a live one is filtered now ...
Take ==
    /\ Running /\ stream.open /\ stream.hold = <<>>
    /\ \/ /\ stream.todo # <<>>
          /\ stream' = [stream EXCEPT !.hold = <<Head(stream.todo)>>, !.todo = Tail(@)]
       \/ /\ stream.todo = <<>> /\ stream.live # <<>>
          /\ stream' = [stream EXCEPT !.hold = <<ForActor(Head(stream.live))>>,
                                      !.live = Tail(@)]
    /\ UNCHANGED <<present, d, heard, tray, breaks, hist>>

\* Mutant: a full out channel is passed by.
PutUnbounded ==
    /\ Running /\ stream.open /\ stream.hold # <<>>
    /\ stream' = [stream EXCEPT !.out = @ \o stream.hold, !.hold = <<>>]
    /\ UNCHANGED <<present, d, heard, tray, breaks, hist>>

\* ... and may have to wait before it can pass it on.
Put ==
    /\ Running /\ stream.open /\ stream.hold # <<>> /\ Len(stream.out) < Buf
    /\ stream' = [stream EXCEPT !.out = @ \o stream.hold, !.hold = <<>>]
    /\ UNCHANGED <<present, d, heard, tray, breaks, hist>>

Queued(s) == s.out \o s.hold \o s.todo \o s.live

\* Mutant: closing live is not noticed.
EndStreamNever == FALSE /\ UNCHANGED vars

\* live was closed and everything before was passed on: out is closed, the handler
\* returns, the client reads the end of the stream.
EndStream ==
    /\ Running /\ stream.open /\ ~stream.registered /\ Queued(stream) = <<>>
    /\ stream' = NoStream
    /\ UNCHANGED <<present, d, heard, tray, breaks, hist>>

\* The client hangs up, or cannot be written to; what was under way is lost.
Break ==
    /\ stream.open /\ breaks < MaxBreaks
    /\ stream' = NoStream /\ breaks' = breaks + 1
    /\ UNCHANGED <<present, d, heard, tray, hist>>

\* main, on a signal: http.Server.Shutdown takes no more requests and waits for the
\* handlers that run.
Shutdown ==
    /\ d.phase = "up"
    /\ d' = [d EXCEPT !.phase = "drain"]
    /\ UNCHANGED <<present, stream, heard, tray, breaks, hist>>

Ended(exit) ==
    /\ d' = [d EXCEPT !.phase = "down", !.exit = exit]
    /\ stream' = NoStream
    /\ UNCHANGED <<present, heard, tray, breaks, hist>>

\* No handler is left: Service.Close, and main returns without an error.
Close == d.phase = "drain" /\ ~stream.open /\ Ended("clean")

\* 30 seconds have passed: main returns the error of Shutdown, the deferred
\* Service.Close closes the watchers.
ShutdownExpires == d.phase = "drain" /\ stream.open /\ Ended("error")

\* A fatal error, or the process is killed.
Kill == Running /\ Ended("killed")

Restart ==
    /\ d.phase = "down" /\ d.epoch < MaxEpoch
    /\ d' = Started(d.epoch + 1) /\ hist' = <<>>
    /\ UNCHANGED <<present, stream, heard, tray, breaks>>

-----------------------------------------------------------------------------
(* The clients.                                                            *)

\* Watcher.Next.
Receive ==
    /\ Running /\ stream.open /\ stream.out # <<>>
    /\ LET m == Head(stream.out)
       IN heard' = [epoch |-> d.epoch, rev |-> m.rev,
                    status |-> IF m.kind = "other" THEN heard.status ELSE m.status]
    /\ stream' = [stream EXCEPT !.out = Tail(@)]
    /\ UNCHANGED <<present, d, tray, breaks, hist>>

Older(x, y) == x.epoch < y.epoch \/ (x.epoch = y.epoch /\ x.status < y.status)

\* The tray's watch loop, from whichever stream it has by now: handleNotify keeps a
\* status that is new to it and will ask for a rebuild.
HandleNotify ==
    /\ "tray" \in present /\ Running /\ ~tray.changed
    /\ \E status \in 0..d.status :
         LET m == [epoch |-> d.epoch, status |-> status]
         IN /\ Older(tray.heard, m)
            /\ tray' = [tray EXCEPT !.status = m, !.heard = m, !.changed = TRUE]
    /\ UNCHANGED <<present, d, stream, heard, breaks, hist>>

\* Mutant: rebuildCh has no buffer, a request that meets a busy loop is dropped.
RequestRebuildUnbuffered ==
    /\ \/ /\ tray.changed
          /\ tray' = [tray EXCEPT !.rebuildCh = (tray.loop = "idle"), !.changed = FALSE]
       \/ /\ tray.refresh = "signal"
          /\ tray' = [tray EXCEPT !.rebuildCh = (tray.loop = "idle"), !.refresh = "idle"]
    /\ UNCHANGED <<present, d, stream, heard, breaks, hist>>

\* requestRebuild, by the watch loop and by a refresh: rebuildCh holds one request.
RequestRebuild ==
    /\ \/ /\ tray.changed
          /\ tray' = [tray EXCEPT !.rebuildCh = TRUE, !.changed = FALSE]
       \/ /\ tray.refresh = "signal"
          /\ tray' = [tray EXCEPT !.rebuildCh = TRUE, !.refresh = "idle"]
    /\ UNCHANGED <<present, d, stream, heard, breaks, hist>>

\* refresh, when the menu is opened and after every action of it: the status is asked
\* for; without an answer Client.Status returns an empty one ...
RefreshReads ==
    /\ "tray" \in present /\ tray.refresh = "idle"
    /\ tray' = [tray EXCEPT !.refresh = "read",
                            !.got = IF Running THEN [epoch |-> d.epoch, status |-> d.status]
                                    ELSE Nothing]
    /\ UNCHANGED <<present, d, stream, heard, breaks, hist>>

\* ... and stored when all four answers are there.
RefreshStores ==
    /\ tray.refresh = "read"
    /\ tray' = [tray EXCEPT !.refresh = "signal", !.status = tray.got, !.got = Nothing]
    /\ UNCHANGED <<present, d, stream, heard, breaks, hist>>

\* rebuildLoop: a request, the debounce, drainRebuilds.
RebuildWakes ==
    /\ tray.loop = "idle" /\ tray.rebuildCh
    /\ tray' = [tray EXCEPT !.loop = "debounce", !.rebuildCh = FALSE]
    /\ UNCHANGED <<present, d, stream, heard, breaks, hist>>

DrainRebuilds ==
    /\ tray.loop = "debounce"
    /\ tray' = [tray EXCEPT !.loop = "drained", !.rebuildCh = FALSE]
    /\ UNCHANGED <<present, d, stream, heard, breaks, hist>>

\* rebuild copies the status under m.mu and renders the copy.
Rebuild ==
    /\ tray.loop = "drained"
    /\ tray' = [tray EXCEPT !.loop = "render", !.menu = tray.status]
    /\ UNCHANGED <<present, d, stream, heard, breaks, hist>>

Rendered ==
    /\ tray.loop = "render"
    /\ tray' = [tray EXCEPT !.loop = "idle"]
    /\ UNCHANGED <<present, d, stream, heard, breaks, hist>>

-----------------------------------------------------------------------------
StreamStep == WatchSince \/ Take \/ Put \/ EndStream \/ Receive
TrayStep == RequestRebuild \/ RefreshStores \/ RebuildWakes \/ DrainRebuilds \/ Rebuild
            \/ Rendered

Next ==
    \/ \E kind \in {"status", "other"}, status \in Versions : Emit(kind, status)
    \/ ChangeQuietly
    \/ StreamStep \/ Break
    \/ Shutdown \/ Close \/ ShutdownExpires \/ Kill \/ Restart
    \/ HandleNotify \/ RefreshReads \/ TrayStep

Spec == Init /\ [][Next]_vars

\* Goroutines run and the client goes on reading.
FairSpec == Spec /\ WF_vars(StreamStep)

-----------------------------------------------------------------------------
(* Properties.                                                             *)

\* A stream has no gap and no duplicate: what a client will receive continues, revision
\* by revision, what it has, unless it begins with a snapshot; and as long as the
\* watcher is registered it reaches the newest event.
NoGap ==
    LET q == Queued(stream)
        last == IF q = <<>> THEN heard.rev ELSE q[Len(q)].rev
    IN stream.open =>
         /\ \A i \in 1..(Len(q) - 1) : q[i + 1].rev = q[i].rev + 1
         /\ q # <<>> /\ Head(q).kind # "snapshot" =>
              heard.epoch = d.epoch /\ Head(q).rev = heard.rev + 1
         /\ stream.registered => last = d.rev

\* A client that has received revision r knows every status announced up to r, or a later
\* one, also when its stream broke, when it was too slow, when the daemon was restarted in
\* between.  A change that emitLocked is not called for is not announced.
NoMissedChange ==
    heard.epoch = d.epoch => heard.status >= StatusAt(heard.rev)

\* The status a stream delivers never goes back to an older one, although replayed and
\* queued events are filled in with the status of a later moment.
NeverBackwards ==
    [][heard'.epoch = heard.epoch =>
         heard'.rev >= heard.rev /\ heard'.status >= heard.status]_vars

\* No rebuild is lost: when the tray is at rest its menu shows the status it holds,
\* however notifications, refreshes, the debounce and the draining interleave.
MenuCurrent ==
    (tray.loop = "idle" /\ ~tray.rebuildCh /\ ~tray.changed /\ tray.refresh # "signal")
        => tray.menu = tray.status

\* A client that goes on reading has every event, and with them the status announced last
\* or a later one, once the daemon emits no more.
CatchesUp ==
    []<>("watcher" \notin present \/ d.phase # "up"
            \/ (heard.epoch = d.epoch /\ heard.rev = d.rev /\ heard.status >= StatusAt(d.rev)))
=============================================================================
