-------------------------- MODULE SupervisorProofs --------------------------
(* Proofs about Supervisor, for any profiles, actors and identifiers, any   *)
(* number of waiting operations, every set of operations and of faults:      *)
(* first the types, the owner, the timer and the attempt Close cancels, then *)
(* the sessions, which the command, a direct delete and the event loop share.*)
EXTENDS Supervisor, FiniteSetTheorems, TLAPS

-----------------------------------------------------------------------------
(* The inductive invariant.                                                 *)

\* The steps of an attempt, from its identifier to its commit.
AttemptSteps == {"call", "dial", "dialFailed", "proxy", "rollback", "rollTeardown",
                 "rolledBack", "commit"}

\* Where disconnect may return to.
Returns == {"idle", "finish", "mode", "prepare", "resume", "check", "begin", "delete"}

DisconnectSteps == {"cut", "unproxy", "detach", "teardown", "cleared"}

\* The steps of a goroutine that is about to connect, or does, and knows its profile.
Named == {"resume", "check", "begin"} \cup AttemptSteps

\* A goroutine is inside the functions it calls: an attempt has an identifier and a
\* profile, the handler only deletes, Close only disconnects.
ThreadOK(t, x) ==
    /\ x \in Thread /\ x.next \in Returns
    /\ x.step \in AttemptSteps => x.conn \in Conns
    /\ (x.step \in Named \/ x.next \in Named) => x.p # None
    /\ t = "request" =>
         /\ x.step \in DisconnectSteps \cup {"idle", "delete", "finish"}
         /\ x.kind \in {"none", "delete"} /\ x.next \in {"idle", "delete"}
    /\ t = "closer" =>
         /\ x.step \in {"idle", "unproxy", "detach", "teardown", "closed", "exit"}
         /\ x.step = "unproxy" => x.active

ThreadsInv == th \in [Threads -> Thread] /\ \A t \in Threads : ThreadOK(t, th[t])

\* An attempt is not yet the connection; the one Close found is cancelled for as long as
\* it is current, and never becomes the connection.
Dooms(s) ==
    /\ s.attempt # None => s.conn # s.attempt
    /\ s.doomed # None =>
         /\ s.attempt = s.doomed => s.ctx # "live"
         /\ s.connected # None => s.conn # s.doomed

\* The part of TimerForExisting, CloseCancels and the types that is about svc.
ServiceOK(s) ==
    /\ s \in Service
    /\ s.timer # None => s.timer.p \in s.profiles
    /\ Dooms(s)

IInv ==
    /\ ServiceOK(svc) /\ be \in Backend /\ events \subseteq Event
    /\ pending \in Profiles \cup {None} /\ queue \subseteq Work
    /\ ThreadsInv
    /\ svc.closed <=> (th["closer"].step # "idle")

-----------------------------------------------------------------------------
(* What a step shows, in parts.                                             *)

Contexts == {"live", "canceled", "expired"}

\* What MachineLocked says of a step.
Locked(s, s1) ==
    (s.mode = "machine" /\ s1.mode = "machine") => s1.owner \in {s.owner, System}

\* A section of s.mu that is not that of SetControlMode or of Close.
SvcStep(s, s1) ==
    /\ ServiceOK(s1)
    /\ s1.closed = s.closed
    /\ s1.mode = s.mode
    /\ s.mode = "machine" => s1.owner \in {s.owner, System}

\* The goroutines move, and Close neither begins nor is undone.
Moved == ThreadsInv' /\ ((th'["closer"].step = "idle") <=> (th["closer"].step = "idle"))

\* What is neither svc nor th.
RestOK ==
    /\ be' \in Backend /\ events' \subseteq Event
    /\ pending' \in Profiles \cup {None} /\ queue' \subseteq Work

\* The invariant, and what MachineLocked says of one step.
Good == IInv' /\ Locked(svc, svc') /\ (svc.closed => svc'.closed)

-----------------------------------------------------------------------------
(* What the helpers of Service keep.                                        *)

\* No profile, actor or identifier is None.
LEMMA NoneFacts ==
    /\ None \notin Profiles /\ None \notin Actors /\ None \notin Conns
    /\ System \in Actors
BY SupervisorAssumption

\* A field may be given any value of its type.
LEMMA Setters ==
    ASSUME NEW s \in Service
    PROVE  /\ \A v \in SUBSET Profiles : [s EXCEPT !.profiles = v] \in Service
           /\ \A v \in SUBSET Profiles : [s EXCEPT !.unborn = v] \in Service
           /\ \A v \in Profiles \cup {None} : [s EXCEPT !.current = v] \in Service
           /\ \A v \in Profiles \cup {None} : [s EXCEPT !.shown = v] \in Service
           /\ \A v \in Profiles \cup {None} : [s EXCEPT !.connected = v] \in Service
           /\ \A v \in States : [s EXCEPT !.state = v] \in Service
           /\ \A v \in Conns \cup {None} : [s EXCEPT !.attempt = v] \in Service
           /\ \A v \in Contexts : [s EXCEPT !.ctx = v] \in Service
           /\ \A v \in Conns \cup {None} : [s EXCEPT !.conn = v] \in Service
           /\ \A v \in Actors \cup {None} : [s EXCEPT !.owner = v] \in Service
           /\ \A v \in {"user", "machine"} : [s EXCEPT !.mode = v] \in Service
           /\ \A v \in Profiles \cup {None} : [s EXCEPT !.machine = v] \in Service
           /\ \A v \in Profiles \cup {None} : [s EXCEPT !.manual = v] \in Service
           /\ \A v \in Timer \cup {None} : [s EXCEPT !.timer = v] \in Service
           /\ \A v \in Repair \cup {None} : [s EXCEPT !.net = v] \in Service
           /\ \A v \in Conns \cup {None} : [s EXCEPT !.proxy = v] \in Service
           /\ \A v \in BOOLEAN : [s EXCEPT !.socks = v] \in Service
           /\ \A v \in BOOLEAN : [s EXCEPT !.closed = v] \in Service
           /\ \A v \in BOOLEAN : [s EXCEPT !.fatal = v] \in Service
           /\ \A v \in Conns \cup {None} : [s EXCEPT !.doomed = v] \in Service
<1>1. \A v \in SUBSET Profiles : [s EXCEPT !.profiles = v] \in Service BY DEF Service
<1>2. \A v \in SUBSET Profiles : [s EXCEPT !.unborn = v] \in Service BY DEF Service
<1>3. \A v \in Profiles \cup {None} : [s EXCEPT !.current = v] \in Service BY DEF Service
<1>4. \A v \in Profiles \cup {None} : [s EXCEPT !.shown = v] \in Service BY DEF Service
<1>5. \A v \in Profiles \cup {None} : [s EXCEPT !.connected = v] \in Service BY DEF Service
<1>6. \A v \in States : [s EXCEPT !.state = v] \in Service BY DEF Service
<1>7. \A v \in Conns \cup {None} : [s EXCEPT !.attempt = v] \in Service BY DEF Service
<1>8. \A v \in Contexts : [s EXCEPT !.ctx = v] \in Service BY DEF Service, Contexts
<1>9. \A v \in Conns \cup {None} : [s EXCEPT !.conn = v] \in Service BY DEF Service
<1>10. \A v \in Actors \cup {None} : [s EXCEPT !.owner = v] \in Service BY DEF Service
<1>11. \A v \in {"user", "machine"} : [s EXCEPT !.mode = v] \in Service BY DEF Service
<1>12. \A v \in Profiles \cup {None} : [s EXCEPT !.machine = v] \in Service BY DEF Service
<1>13. \A v \in Profiles \cup {None} : [s EXCEPT !.manual = v] \in Service BY DEF Service
<1>14. \A v \in Timer \cup {None} : [s EXCEPT !.timer = v] \in Service BY DEF Service
<1>15. \A v \in Repair \cup {None} : [s EXCEPT !.net = v] \in Service BY DEF Service
<1>16. \A v \in Conns \cup {None} : [s EXCEPT !.proxy = v] \in Service BY DEF Service
<1>17. \A v \in BOOLEAN : [s EXCEPT !.socks = v] \in Service BY DEF Service
<1>18. \A v \in BOOLEAN : [s EXCEPT !.closed = v] \in Service BY DEF Service
<1>20. \A v \in BOOLEAN : [s EXCEPT !.fatal = v] \in Service BY DEF Service
<1>19. \A v \in Conns \cup {None} : [s EXCEPT !.doomed = v] \in Service BY DEF Service
<1>. QED BY <1>1, <1>2, <1>3, <1>4, <1>5, <1>6, <1>7, <1>8, <1>9, <1>10, <1>11, <1>12, <1>13, <1>14, <1>15, <1>16, <1>17, <1>18, <1>19, <1>20

\* A service record keeps its invariant when the changed fields have their types.
LEMMA ServiceKept ==
    ASSUME NEW s, ServiceOK(s), NEW s1 \in Service,
           s1.mode = s.mode, s1.owner = s.owner, s1.timer = s.timer, s1.profiles = s.profiles,
           s1.closed = s.closed, s1.conn \in {s.conn, None}, s1.doomed = s.doomed,
           s1.attempt = None \/ (s1.attempt = s.attempt /\ (s1.ctx = s.ctx \/ s1.ctx # "live")),
           s1.connected \in {s.connected, None}
    PROVE  SvcStep(s, s1)
BY DEF ServiceOK, SvcStep, Dooms

\* A section that changes nothing is a SvcStep.
LEMMA SvcSame == ASSUME NEW s, ServiceOK(s) PROVE SvcStep(s, s)
BY DEF ServiceOK, SvcStep

\* Two SvcSteps one after the other are one.
LEMMA SvcTrans ==
    ASSUME NEW s, NEW s1, NEW s2, ServiceOK(s), SvcStep(s, s1), SvcStep(s1, s2)
    PROVE  SvcStep(s, s2)
BY DEF SvcStep

\* Releasing the owner, which ReleaseOwner does outside machine mode only, is a SvcStep.
LEMMA ReleaseOwnerOK ==
    ASSUME NEW s, ServiceOK(s)
    PROVE  SvcStep(s, ReleaseOwner(s))
<1>1. CASE s.mode = "user"
  <2>1. s \in Service BY DEF ServiceOK
  <2>2. ReleaseOwner(s) = [s EXCEPT !.owner = None] BY <1>1 DEF ReleaseOwner
  <2>3. ReleaseOwner(s) \in Service BY <2>1, <2>2 DEF Service
  <2>4. QED BY <1>1, <2>1, <2>2, <2>3 DEF ServiceOK, SvcStep, Service, Dooms
<1>2. CASE s.mode # "user"
  BY <1>2, SvcSame DEF ReleaseOwner
<1>3. QED BY <1>1, <1>2

\* Ending the attempt is a SvcStep.
LEMMA EndAttemptOK ==
    ASSUME NEW s, ServiceOK(s)
    PROVE  SvcStep(s, EndAttempt(s))
<1>1. s \in Service BY DEF ServiceOK
<1>2. EndAttempt(s) \in Service
  <2>. DEFINE s1 == [s EXCEPT !.attempt = None]
  <2>1. EndAttempt(s) = [s1 EXCEPT !.ctx = "live"] BY DEF EndAttempt
  <2>2. s1 \in Service /\ "live" \in Contexts BY <1>1, Setters DEF Contexts
  <2>. HIDE DEF s1
  <2>3. \A v \in Contexts : [s1 EXCEPT !.ctx = v] \in Service BY <2>2, Setters
  <2>4. QED BY <2>1, <2>2, <2>3
<1>3. /\ EndAttempt(s).mode = s.mode /\ EndAttempt(s).owner = s.owner
      /\ EndAttempt(s).timer = s.timer /\ EndAttempt(s).profiles = s.profiles
      /\ EndAttempt(s).conn = s.conn /\ EndAttempt(s).closed = s.closed
      /\ EndAttempt(s).doomed = s.doomed /\ EndAttempt(s).attempt = None
      /\ EndAttempt(s).connected = s.connected
  BY <1>1 DEF Service, EndAttempt
<1>4. QED BY <1>1, <1>2, <1>3, ServiceKept

\* A change of the connection state alone is a SvcStep.
LEMMA StateOK ==
    ASSUME NEW s, ServiceOK(s), NEW st \in States
    PROVE  SvcStep(s, [s EXCEPT !.state = st])
<1>1. s \in Service BY DEF ServiceOK
<1>2. [s EXCEPT !.state = st] \in Service BY <1>1 DEF Service
<1>3. QED BY <1>1, <1>2, ServiceKept DEF Service

\* Recording a failed cleanup is a SvcStep.
LEMMA FailCleanupOK ==
    ASSUME NEW s, ServiceOK(s)
    PROVE  SvcStep(s, FailCleanup(s))
<1>1. s \in Service BY DEF ServiceOK
<1>0. "Error" \in States BY DEF States
<1>2. FailCleanup(s) \in Service
  <2>. DEFINE s1 == [s EXCEPT !.fatal = TRUE]
  <2>1. FailCleanup(s) = [s1 EXCEPT !.state = "Error"] BY DEF FailCleanup
  <2>2. s1 \in Service BY <1>1, Setters
  <2>3. QED BY <1>0, <2>1, <2>2, Setters
<1>3. /\ FailCleanup(s).mode = s.mode /\ FailCleanup(s).owner = s.owner
      /\ FailCleanup(s).timer = s.timer /\ FailCleanup(s).profiles = s.profiles
      /\ FailCleanup(s).conn = s.conn /\ FailCleanup(s).closed = s.closed /\ FailCleanup(s).doomed = s.doomed
      /\ FailCleanup(s).attempt = s.attempt /\ FailCleanup(s).ctx = s.ctx
      /\ FailCleanup(s).connected = s.connected
  BY <1>1 DEF Service, FailCleanup
<1>4. QED BY <1>1, <1>2, <1>3, ServiceKept

\* Stopping the proxy is a SvcStep.
LEMMA StoppedProxyOK ==
    ASSUME NEW s, ServiceOK(s)
    PROVE  SvcStep(s, StoppedProxy(s))
<1>1. s \in Service BY DEF ServiceOK
<1>2. StoppedProxy(s) \in Service
  <2>. DEFINE s1 == [s EXCEPT !.proxy = None]
  <2>1. StoppedProxy(s) = [s1 EXCEPT !.socks = FALSE] BY DEF StoppedProxy
  <2>2. s1 \in Service BY <1>1, Setters
  <2>3. QED BY <2>1, <2>2, Setters
<1>3. /\ StoppedProxy(s).mode = s.mode /\ StoppedProxy(s).owner = s.owner
      /\ StoppedProxy(s).timer = s.timer /\ StoppedProxy(s).profiles = s.profiles
      /\ StoppedProxy(s).conn = s.conn /\ StoppedProxy(s).closed = s.closed /\ StoppedProxy(s).doomed = s.doomed
      /\ StoppedProxy(s).attempt = s.attempt /\ StoppedProxy(s).ctx = s.ctx
      /\ StoppedProxy(s).connected = s.connected
  BY <1>1 DEF Service, StoppedProxy
<1>4. QED BY <1>1, <1>2, <1>3, ServiceKept

\* Forgetting what is connected is a SvcStep.
LEMMA NotConnectedOK ==
    ASSUME NEW s, ServiceOK(s), NEW st \in States
    PROVE  SvcStep(s, [s EXCEPT !.connected = None, !.state = st])
<1>1. s \in Service BY DEF ServiceOK
<1>. DEFINE s1 == [s EXCEPT !.connected = None]
            s2 == [s1 EXCEPT !.state = st]
<1>2. s2 = [s EXCEPT !.connected = None, !.state = st] OBVIOUS
<1>3. s1 \in Service BY <1>1, Setters
<1>4. s2 \in Service BY <1>3, Setters
<1>5. /\ s2.mode = s.mode /\ s2.owner = s.owner /\ s2.timer = s.timer /\ s2.profiles = s.profiles
      /\ s2.conn = s.conn /\ s2.closed = s.closed /\ s2.doomed = s.doomed /\ s2.attempt = s.attempt /\ s2.ctx = s.ctx
      /\ s2.connected = None
  BY <1>1 DEF Service
<1>. HIDE DEF s2
<1>6. SvcStep(s, s2) BY <1>1, <1>4, <1>5, ServiceKept
<1>7. QED BY <1>2, <1>6

\* The timer, the repair, the manual mark and the context change in disconnect; the
\* context of an attempt only ever ends.
LEMMA CancelOK ==
    ASSUME NEW s, ServiceOK(s), NEW tm \in {s.timer, None}, NEW nt \in {s.net, None},
           NEW mn \in Profiles \cup {None}, NEW cx \in Contexts, cx = s.ctx \/ cx # "live"
    PROVE  SvcStep(s, [s EXCEPT !.timer = tm, !.net = nt, !.manual = mn, !.ctx = cx])
<1>1. s \in Service BY DEF ServiceOK
<1>2. tm \in Timer \cup {None} /\ nt \in Repair \cup {None} BY <1>1 DEF Service
<1>. DEFINE s1 == [s EXCEPT !.timer = tm]
            s2 == [s1 EXCEPT !.net = nt]
            s3 == [s2 EXCEPT !.manual = mn]
            s4 == [s3 EXCEPT !.ctx = cx]
<1>4. s4 = [s EXCEPT !.timer = tm, !.net = nt, !.manual = mn, !.ctx = cx] OBVIOUS
<1>5. s1 \in Service BY <1>1, <1>2, Setters
<1>6. s2 \in Service BY <1>2, <1>5, Setters
<1>7. s3 \in Service BY <1>6, Setters
<1>8. s4 \in Service BY <1>7, Setters
<1>9. QED BY <1>1, <1>4, <1>8 DEF Service, ServiceOK, SvcStep, Dooms

\* The timer stops or the repair changes.
LEMMA TimerOK ==
    ASSUME NEW s, ServiceOK(s), NEW tm \in {s.timer, None}, NEW nt \in Repair \cup {None}
    PROVE  SvcStep(s, [s EXCEPT !.timer = tm, !.net = nt])
<1>1. s \in Service BY DEF ServiceOK
<1>2. tm \in Timer \cup {None} BY <1>1 DEF Service
<1>. DEFINE s1 == [s EXCEPT !.timer = tm]
            s2 == [s1 EXCEPT !.net = nt]
<1>4. s2 = [s EXCEPT !.timer = tm, !.net = nt] OBVIOUS
<1>5. s1 \in Service BY <1>1, <1>2, Setters
<1>6. s2 \in Service BY <1>5, Setters
<1>7. QED BY <1>1, <1>4, <1>6 DEF Service, ServiceOK, SvcStep, Dooms

\* Scheduling a reconnect: the profile exists at that moment.
LEMMA StartReconnectOK ==
    ASSUME NEW s, ServiceOK(s), NEW p, NEW n \in 1..MaxTries
    PROVE  SvcStep(s, StartReconnect(s, p, n))
<1>1. s \in Service BY DEF ServiceOK
<1>2. CASE StartReconnect(s, p, n) = s BY <1>2, SvcSame
<1>3. CASE StartReconnect(s, p, n) # s
  <2>1. p \in s.profiles /\ StartReconnect(s, p, n) = [s EXCEPT !.timer = [p |-> p, n |-> n]]
    BY <1>3 DEF StartReconnect
  <2>2. p \in Profiles BY <1>1, <2>1 DEF Service
  <2>. DEFINE tm == [p |-> p, n |-> n]
  <2>3. tm \in Timer /\ tm.p = p BY <2>2 DEF Timer
  <2>4. StartReconnect(s, p, n) = [s EXCEPT !.timer = tm] BY <2>1
  <2>. HIDE DEF tm
  <2>5. [s EXCEPT !.timer = tm] \in Service BY <1>1, <2>3 DEF Service
  <2>6. QED BY <1>1, <2>1, <2>3, <2>4, <2>5 DEF Service, ServiceOK, SvcStep, Dooms
<1>4. QED BY <1>2, <1>3

-----------------------------------------------------------------------------
(* What the moves of a goroutine keep.                                      *)

\* A goroutine that goes where it may be keeps ThreadsInv.
LEMMA Move ==
    ASSUME ThreadsInv, NEW t \in Threads, NEW x, ThreadOK(t, x), th' = [th EXCEPT ![t] = x],
           t = "closer" => x.step # "idle" /\ th[t].step # "idle"
    PROVE  Moved
<1>1. x \in Thread BY DEF ThreadOK
<1>2. th' \in [Threads -> Thread] BY <1>1 DEF ThreadsInv
<1>3. th'[t] = x /\ \A u \in Threads \ {t} : th'[u] = th[u] BY DEF ThreadsInv
<1>4. \A u \in Threads : ThreadOK(u, th'[u]) BY <1>3 DEF ThreadsInv
<1>5. "closer" \in Threads BY DEF Threads
<1>6. (th'["closer"].step = "idle") <=> (th["closer"].step = "idle") BY <1>3, <1>5
<1>7. QED BY <1>2, <1>4, <1>6 DEF Moved, ThreadsInv

\* Goroutines that stay where they are keep ThreadsInv.
LEMMA MoveNot == ASSUME ThreadsInv, UNCHANGED th PROVE Moved
BY DEF Moved, ThreadsInv

\* The goroutines of operations and of handlers may be idle.
LEMMA IdleOK == ASSUME NEW t \in {"command", "request"} PROVE ThreadOK(t, IdleThread)
<1>1. IdleThread \in Thread BY SupervisorAssumption DEF IdleThread, Thread, Steps
<1>2. QED BY <1>1 DEF ThreadOK, IdleThread, Returns, AttemptSteps, Named

\* Done ends what the goroutine runs.
LEMMA MoveDone ==
    ASSUME ThreadsInv, NEW t \in {"command", "request"}, Done(t) PROVE Moved
<1>1. t \in Threads BY DEF Threads
<1>3. QED BY <1>1, IdleOK, Move DEF Done

\* Goto takes a goroutine to a step that it may be at.
LEMMA MoveGoto ==
    ASSUME ThreadsInv, NEW t \in Threads, NEW a \in Steps, Goto(t, a),
           a \in AttemptSteps => th[t].step \in AttemptSteps, a \in Named => th[t].p # None,
           t = "request" => a \in DisconnectSteps \cup {"idle", "delete", "finish"},
           t = "closer" => a \in {"detach", "teardown", "closed", "exit"} /\ th[t].step # "idle"
    PROVE  Moved
<1>. DEFINE x == [th[t] EXCEPT !.step = a]
<1>1. ThreadOK(t, th[t]) /\ th[t] \in Thread /\ th \in [Threads -> Thread] BY DEF ThreadsInv
<1>2. th' = [th EXCEPT ![t] = x] BY <1>1 DEF Goto
<1>3. x \in Thread BY <1>1 DEF Thread
<1>4. ThreadOK(t, x) BY <1>1, <1>3 DEF ThreadOK, Thread
<1>5. x.step = a BY <1>1 DEF Thread
<1>. HIDE DEF x
<1>6. QED BY <1>2, <1>4, <1>5, Move

\* A goroutine at another step, with an error or none.
LEMMA ErrTyped ==
    ASSUME NEW y \in Thread, NEW a \in Steps, NEW e \in {"none", "retryable", "other"}
    PROVE  [y EXCEPT !.step = a, !.err = e] \in Thread
BY DEF Thread

\* Return ends a call with an error or none.
LEMMA MoveReturn ==
    ASSUME ThreadsInv, NEW t \in Threads, t # "closer", NEW e \in {"none", "retryable", "other"},
           Return(t, e)
    PROVE  Moved
<1>. DEFINE x == [th[t] EXCEPT !.step = "finish", !.err = e]
<1>1. ThreadOK(t, th[t]) /\ th[t] \in Thread /\ th \in [Threads -> Thread] BY DEF ThreadsInv
<1>2. th' = [th EXCEPT ![t] = x] BY <1>1 DEF Return
<1>0. "finish" \in Steps BY DEF Steps
<1>3. x \in Thread BY <1>0, <1>1 DEF Thread
<1>4. ThreadOK(t, x) BY <1>1, <1>3 DEF ThreadOK, Thread, AttemptSteps, Named
<1>. HIDE DEF x
<1>6. QED BY <1>2, <1>4, Move

\* A goroutine closes what it took over and leaves with that.
LEMMA MoveDropped ==
    ASSUME ThreadsInv, NEW t \in Threads, NEW a \in Steps, NEW e \in {"none", "retryable", "other"},
           th' = [th EXCEPT ![t].step = a, ![t].err = e, ![t].drop = {}],
           a \in AttemptSteps => th[t].step \in AttemptSteps, a \in Named => th[t].p # None,
           t = "request" => a \in DisconnectSteps \cup {"idle", "delete", "finish"},
           t = "closer" => a \in {"detach", "teardown", "closed", "exit"} /\ th[t].step # "idle"
    PROVE  Moved
<1>. DEFINE x == [th[t] EXCEPT !.step = a, !.err = e, !.drop = {}]
<1>1. ThreadOK(t, th[t]) /\ th[t] \in Thread /\ th \in [Threads -> Thread] BY DEF ThreadsInv
<1>2. th' = [th EXCEPT ![t] = x] BY <1>1
<1>3. x \in Thread BY <1>1 DEF Thread
<1>4. ThreadOK(t, x) BY <1>1, <1>3 DEF ThreadOK, Thread
<1>5. x.step = a BY <1>1 DEF Thread
<1>. HIDE DEF x
<1>6. QED BY <1>2, <1>4, <1>5, Move

\* A step, in its parts.
LEMMA Together ==
    ASSUME IInv, SvcStep(svc, svc'), Moved, RestOK
    PROVE  Good
<1>1. svc'.closed <=> (th'["closer"].step # "idle") BY DEF IInv, SvcStep, Moved
<1>2. QED BY <1>1 DEF IInv, Good, SvcStep, Locked, Moved, RestOK

\* What the invariant says of a goroutine: who may be where.
LEMMA Facts ==
    ASSUME IInv, NEW t \in Threads
    PROVE  /\ ServiceOK(svc) /\ svc \in Service /\ ThreadsInv
           /\ th \in [Threads -> Thread] /\ th[t] \in Thread /\ ThreadOK(t, th[t])
           /\ th[t].step \in AttemptSteps \cup {"resume", "mode", "prepare", "check", "begin"}
                => t = "command"
           /\ th[t].step \in {"cut", "cleared", "delete", "finish"} => t \in {"command", "request"}
           /\ (th[t].step \in Named \/ th[t].next \in Named) => th[t].p # None
<1>1. ServiceOK(svc) /\ svc \in Service /\ ThreadsInv BY DEF IInv, ServiceOK
<1>2. th \in [Threads -> Thread] /\ th[t] \in Thread /\ ThreadOK(t, th[t]) BY <1>1 DEF ThreadsInv
<1>3. QED BY <1>1, <1>2 DEF ThreadOK, AttemptSteps, Named, DisconnectSteps, Threads

\* What a step does not touch keeps its type.
LEMMA Rest == ASSUME IInv, UNCHANGED <<be, events, pending, queue>> PROVE RestOK
BY DEF IInv, RestOK

-----------------------------------------------------------------------------
(* disconnect.                                                              *)

\* Cut keeps the inductive invariant.
LEMMA CutGood == ASSUME IInv, NEW t \in Threads, Cut(t) PROVE Good
<1>1. /\ ServiceOK(svc) /\ svc \in Service /\ ThreadsInv /\ th \in [Threads -> Thread]
      /\ th[t] \in Thread /\ ThreadOK(t, th[t]) /\ t \in {"command", "request"}
      /\ th[t].step = "cut"
  BY Facts DEF Cut, At
<1>2. SvcStep(svc, svc')
  <2>. DEFINE manual == th[t].kind = "disconnect"
              tm == IF manual THEN None ELSE svc.timer
              nt == IF manual THEN None ELSE svc.net
              mn == IF manual /\ svc.connected # None THEN svc.connected ELSE svc.manual
              cx == IF svc.attempt # None /\ svc.ctx = "live" THEN "canceled" ELSE svc.ctx
  <2>1. svc' = [svc EXCEPT !.timer = tm, !.net = nt, !.manual = mn, !.ctx = cx] BY DEF Cut
  <2>2. tm \in {svc.timer, None} /\ nt \in {svc.net, None} OBVIOUS
  <2>3. mn \in Profiles \cup {None} BY <1>1 DEF Service
  <2>4. cx \in Contexts /\ (cx = svc.ctx \/ cx # "live") BY <1>1 DEF Service, Contexts
  <2>. HIDE DEF tm, nt, mn, cx
  <2>5. QED BY <1>1, <2>1, <2>2, <2>3, <2>4, CancelOK
<1>3. Moved
  <2>. DEFINE active == ConnectionActive \/ svc.state \in {"Connecting", "Reconnecting"}
              x == [th[t] EXCEPT !.step = "unproxy", !.active = active]
  <2>1. th' = [th EXCEPT ![t] = x] BY <1>1 DEF Cut
  <2>2. active \in BOOLEAN /\ "unproxy" \in Steps BY DEF ConnectionActive, Steps
  <2>. HIDE DEF active
  <2>3. x \in Thread BY <1>1, <2>2 DEF Thread
  <2>4. ThreadOK(t, x) BY <1>1, <2>3 DEF ThreadOK, Thread, AttemptSteps, Named, DisconnectSteps
  <2>. HIDE DEF x
  <2>6. QED BY <1>1, <2>1, <2>4, Move
<1>4. RestOK BY DEF Cut, IInv, RestOK
<1>5. QED BY <1>2, <1>3, <1>4, Together

\* Unproxy keeps the inductive invariant.
LEMMA UnproxyGood == ASSUME IInv, NEW t \in Threads, Unproxy(t) PROVE Good
<1>1. /\ ServiceOK(svc) /\ svc \in Service /\ ThreadsInv /\ th \in [Threads -> Thread]
      /\ th[t] \in Thread /\ ThreadOK(t, th[t]) /\ th[t].step = "unproxy"
  BY Facts DEF Unproxy, At
<1>2. SvcStep(svc, svc')
  <2>1. SvcStep(svc, StoppedProxy(svc)) BY <1>1, StoppedProxyOK
  <2>2. SvcStep(StoppedProxy(svc), FailCleanup(StoppedProxy(svc)))
    BY <2>1, FailCleanupOK DEF SvcStep
  <2>3. QED BY <1>1, <2>1, <2>2, SvcTrans DEF Unproxy
<1>3. Moved
  <2>1. CASE Goto(t, IF th[t].active THEN "detach" ELSE th[t].next)
    <3>. DEFINE a == IF th[t].active THEN "detach" ELSE th[t].next
    <3>1. a \in Steps /\ a \notin AttemptSteps
      BY <1>1 DEF ThreadOK, Steps, Returns, AttemptSteps, Named
    <3>2. t = "request" => a \in DisconnectSteps \cup {"idle", "delete", "finish"}
      BY <1>1 DEF ThreadOK, DisconnectSteps
    <3>3. t = "closer" => a \in {"detach", "teardown", "closed", "exit"} BY <1>1 DEF ThreadOK
    <3>4. Goto(t, a) BY <2>1
    <3>5. a \in Named => th[t].p # None BY <1>1 DEF ThreadOK, Named, AttemptSteps
    <3>. HIDE DEF a
    <3>6. QED BY <1>1, <3>1, <3>2, <3>3, <3>4, <3>5, MoveGoto
  <2>2. CASE t # "closer" /\ Return(t, "other") BY <1>1, <2>2, MoveReturn
  <2>3. QED BY <2>1, <2>2 DEF Unproxy
<1>4. RestOK BY Rest DEF Unproxy
<1>5. QED BY <1>2, <1>3, <1>4, Together

\* Detach keeps the inductive invariant.
LEMMA DetachGood == ASSUME IInv, NEW t \in Threads, Detach(t) PROVE Good
<1>1. /\ ServiceOK(svc) /\ ThreadsInv /\ th \in [Threads -> Thread]
      /\ th[t] \in Thread /\ ThreadOK(t, th[t]) /\ th[t].step \in {"detach", "rollback"}
  BY Facts DEF Detach, At
<1>2. SvcStep(svc, svc') BY <1>1, SvcSame DEF Detach
<1>3. Moved
  <2>. DEFINE d == {be.active, be.connecting} \ {None}
              a == IF th[t].step = "detach" THEN "teardown" ELSE "rollTeardown"
              x == [th[t] EXCEPT !.drop = d, !.active = FALSE, !.step = a]
  <2>1. th' = [th EXCEPT ![t] = x] BY <1>1 DEF Detach
  <2>2. d \in SUBSET Conns BY DEF IInv, Backend
  <2>3. a \in Steps BY DEF Steps
  <2>4. /\ a \in AttemptSteps => th[t].step \in AttemptSteps
        /\ a = "teardown" \/ (a = "rollTeardown" /\ th[t].step = "rollback")
    BY <1>1 DEF AttemptSteps, Named
  <2>. HIDE DEF d, a
  <2>5. x \in Thread BY <1>1, <2>2, <2>3 DEF Thread
  <2>6. ThreadOK(t, x)
    BY <1>1, <2>4, <2>5 DEF ThreadOK, Thread, DisconnectSteps, Named, AttemptSteps
  <2>7. x.step # "idle" BY <1>1, <2>4 DEF Thread
  <2>. HIDE DEF x
  <2>8. QED BY <1>1, <2>1, <2>6, <2>7, Move
<1>4. RestOK BY DEF Detach, IInv, RestOK, Backend
<1>5. QED BY <1>2, <1>3, <1>4, Together

\* Closing connections changes sessions and reports only.
LEMMA CloseLocallyOK ==
    ASSUME IInv, NEW drop, CloseLocally(drop), UNCHANGED <<pending, queue>> PROVE RestOK
<1>1. be' \in Backend BY DEF IInv, CloseLocally, Down, Backend
<1>2. Reports(drop) \subseteq Event BY DEF IInv, Reports, Event, Backend
<1>3. QED BY <1>1, <1>2 DEF IInv, CloseLocally, RestOK

\* Teardown keeps the inductive invariant.
LEMMA TeardownGood == ASSUME IInv, NEW t \in Threads, Teardown(t) PROVE Good
<1>1. /\ ServiceOK(svc) /\ ThreadsInv /\ th \in [Threads -> Thread]
      /\ th[t] \in Thread /\ ThreadOK(t, th[t]) /\ th[t].step = "teardown"
  BY Facts DEF Teardown, At
<1>2. SvcStep(svc, svc') BY <1>1, SvcSame, FailCleanupOK DEF Teardown
<1>3. Moved
  <2>1. CASE th' = [th EXCEPT ![t].step = IF t = "closer" THEN "closed" ELSE "cleared",
                              ![t].drop = {}]
    <3>. DEFINE a == IF t = "closer" THEN "closed" ELSE "cleared"
                e == th[t].err
    <3>1. th' = [th EXCEPT ![t].step = a, ![t].err = e, ![t].drop = {}]
      BY <1>1, <2>1 DEF Thread
    <3>2. a \in Steps /\ a \notin AttemptSteps /\ a \notin Named
          /\ (t = "request" => a \in DisconnectSteps) /\ (t = "closer" => a = "closed")
      BY DEF Steps, AttemptSteps, Named, DisconnectSteps
    <3>3. e \in {"none", "retryable", "other"} BY <1>1 DEF Thread
    <3>. HIDE DEF a, e
    <3>4. QED BY <1>1, <3>1, <3>2, <3>3, MoveDropped
  <2>2. CASE /\ t # "closer"
             /\ th' = [th EXCEPT ![t].step = "finish", ![t].err = "other", ![t].drop = {}]
    <3>1. "finish" \in Steps /\ "finish" \notin AttemptSteps /\ "finish" \notin Named BY DEF Steps, AttemptSteps, Named
    <3>2. QED BY <1>1, <2>2, <3>1, MoveDropped
  <2>3. QED BY <2>1, <2>2 DEF Teardown
<1>4. RestOK BY CloseLocallyOK DEF Teardown
<1>5. QED BY <1>2, <1>3, <1>4, Together

\* A session given up stays a session.
LEMMA GiveUpOK ==
    ASSUME IInv, NEW c, GiveUp(c), UNCHANGED <<events, pending, queue>> PROVE RestOK
BY DEF IInv, GiveUp, Backend, RestOK

\* Cleared keeps the inductive invariant.
LEMMA ClearedGood == ASSUME IInv, NEW t \in Threads, Cleared(t) PROVE Good
<1>1. /\ ServiceOK(svc) /\ ThreadsInv /\ th \in [Threads -> Thread]
      /\ th[t] \in Thread /\ ThreadOK(t, th[t]) /\ th[t].step = "cleared"
      /\ t \in {"command", "request"}
  BY Facts DEF Cleared, At
<1>2. SvcStep(svc, svc')
  <2>. DEFINE s1 == EndAttempt(svc)
              s2 == [s1 EXCEPT !.connected = None, !.state = "Disconnected"]
  <2>1. SvcStep(svc, s1) BY <1>1, EndAttemptOK
  <2>2. ServiceOK(s1) /\ "Disconnected" \in States BY <2>1 DEF SvcStep, States
  <2>. HIDE DEF s1
  <2>3. SvcStep(s1, s2) BY <2>2, NotConnectedOK
  <2>. HIDE DEF s2
  <2>4. SvcStep(s2, ReleaseOwner(s2)) BY <2>3, ReleaseOwnerOK DEF SvcStep
  <2>5. SvcStep(svc, s2) BY <1>1, <2>1, <2>3, SvcTrans
  <2>6. svc' = ReleaseOwner(s2) BY DEF Cleared, s2, s1
  <2>7. QED BY <1>1, <2>4, <2>5, <2>6, SvcTrans
<1>3. Moved
  <2>1. th[t].next \in Steps /\ th[t].next \notin AttemptSteps
    BY <1>1 DEF ThreadOK, Steps, Returns, AttemptSteps, Named
  <2>2. t = "request" => th[t].next \in DisconnectSteps \cup {"idle", "delete", "finish"}
    BY <1>1 DEF ThreadOK
  <2>3. th[t].next \in Named => th[t].p # None BY <1>1 DEF ThreadOK
  <2>4. QED BY <1>1, <2>1, <2>2, <2>3, MoveGoto DEF Cleared
<1>4. RestOK BY GiveUpOK DEF Cleared
<1>5. QED BY <1>2, <1>3, <1>4, Together

-----------------------------------------------------------------------------
(* connect.                                                                 *)

\* Prepare keeps the inductive invariant.
LEMMA PrepareGood == ASSUME IInv, NEW t \in Threads, Prepare(t) PROVE Good
<1>1. /\ ServiceOK(svc) /\ svc \in Service /\ ThreadsInv /\ th[t].step = "prepare" /\ t = "command"
  BY Facts DEF Prepare, At
<1>2. SvcStep(svc, svc') BY <1>1, TimerOK DEF Prepare
<1>3. Moved
  <2>1. "check" \in Steps /\ "check" \notin AttemptSteps BY DEF Steps, AttemptSteps, Named
  <2>2. th[t].p \in svc.profiles => th[t].p # None BY <1>1, NoneFacts DEF Service
  <2>3. QED BY <1>1, <2>1, <2>2, MoveGoto, MoveReturn DEF Prepare
<1>4. RestOK BY Rest DEF Prepare
<1>5. QED BY <1>2, <1>3, <1>4, Together

\* A goroutine that calls disconnect goes where it may be.
LEMMA MoveDisconnect ==
    ASSUME ThreadsInv, NEW next \in Returns, next \in Named => th["command"].p # None,
           CallDisconnect("command", next)
    PROVE  Moved
<1>. DEFINE x == [th["command"] EXCEPT !.step = "cut", !.next = next]
<1>1. "command" \in Threads /\ "cut" \in Steps /\ next \in Steps
  BY DEF Threads, Steps, Returns
<1>2. /\ ThreadOK("command", th["command"]) /\ th["command"] \in Thread
      /\ th \in [Threads -> Thread]
  BY <1>1 DEF ThreadsInv
<1>3. th' = [th EXCEPT !["command"] = x] BY <1>1, <1>2 DEF CallDisconnect
<1>4. x \in Thread BY <1>1, <1>2 DEF Thread
<1>5. ThreadOK("command", x) BY <1>2, <1>4 DEF ThreadOK, Thread, AttemptSteps, Named
<1>. HIDE DEF x
<1>7. QED BY <1>1, <1>3, <1>5, Move

\* Check keeps the inductive invariant.
LEMMA CheckGood == ASSUME IInv, NEW t \in Threads, Check(t) PROVE Good
<1>1. /\ ServiceOK(svc) /\ ThreadsInv /\ th[t].step = "check" /\ t = "command"
      /\ th[t].p # None
  BY Facts DEF Check, At, Named
<1>2. SvcStep(svc, svc') BY <1>1, SvcSame DEF Check
<1>3. Moved
  <2>1. "begin" \in Steps /\ "begin" \notin AttemptSteps /\ "begin" \in Returns
    BY DEF Steps, AttemptSteps, Named, Returns
  <2>2. \/ Return(t, "other") \/ Return(t, "none") \/ CallDisconnect(t, "begin")
        \/ Goto(t, "begin")
    BY DEF Check
  <2>3. CASE Return(t, "other") BY <1>1, <2>3, MoveReturn
  <2>4. CASE Return(t, "none") BY <1>1, <2>4, MoveReturn
  <2>5. CASE CallDisconnect(t, "begin") BY <1>1, <2>1, <2>5, MoveDisconnect
  <2>6. CASE Goto(t, "begin") BY <1>1, <2>1, <2>6, MoveGoto
  <2>7. QED BY <2>2, <2>3, <2>4, <2>5, <2>6
<1>4. RestOK BY Rest DEF Check
<1>5. QED BY <1>2, <1>3, <1>4, Together

\* Begin: a new attempt is not the connection, and not the one Close found.
LEMMA BeginGood == ASSUME IInv, NEW t \in Threads, Begin(t) PROVE Good
<1>1. /\ ServiceOK(svc) /\ svc \in Service /\ ThreadsInv /\ th[t].step = "begin" /\ t = "command"
      /\ th \in [Threads -> Thread] /\ th[t] \in Thread /\ ThreadOK(t, th[t])
  BY Facts DEF Begin, At
<1>2. CASE /\ Return(t, "none") \/ Return(t, "other")
           /\ UNCHANGED <<svc, be, events, pending, queue>>
  <2>1. SvcStep(svc, svc') BY <1>1, <1>2, SvcSame
  <2>2. Moved BY <1>1, <1>2, MoveReturn
  <2>3. RestOK BY <1>2, Rest
  <2>4. QED BY <2>1, <2>2, <2>3, Together
<1>3. ASSUME NEW c \in FreshConns,
             svc' = [svc EXCEPT
                   !.state = IF Automatic(t) THEN "Reconnecting" ELSE "Connecting",
                   !.current = th[t].p, !.shown = th[t].p, !.attempt = c, !.ctx = "live",
                   !.doomed = IF @ = c THEN None ELSE @],
             th' = [th EXCEPT ![t].step = "call", ![t].conn = c],
             queue' = {w \in queue : w.conn # c},
             UNCHANGED <<be, events, pending>>
      PROVE  Good
  <2>. DEFINE st == IF Automatic(t) THEN "Reconnecting" ELSE "Connecting"
              dm == IF svc.doomed = c THEN None ELSE svc.doomed
              p == th[t].p
              s1 == [svc EXCEPT !.state = st]
              s2 == [s1 EXCEPT !.current = p]
              s3 == [s2 EXCEPT !.shown = p]
              s4 == [s3 EXCEPT !.attempt = c]
              s5 == [s4 EXCEPT !.ctx = "live"]
              s6 == [s5 EXCEPT !.doomed = dm]
              x == [th[t] EXCEPT !.step = "call", !.conn = c]
  <2>1. c \in Conns /\ "call" \in Steps /\ c # svc.conn BY DEF FreshConns, Steps
  <2>2. st \in States /\ "live" \in Contexts /\ p \in Profiles \cup {None}
        /\ dm \in Conns \cup {None}
    BY <1>1 DEF States, Contexts, Thread, Service
  <2>3. dm \in {svc.doomed, None} /\ dm # c BY <2>1, NoneFacts
  <2>4. svc' = [svc EXCEPT !.state = st, !.current = p, !.shown = p, !.attempt = c,
                           !.ctx = "live", !.doomed = dm]
    BY <1>3
  <2>. HIDE DEF st, dm, p
  <2>5. svc' = s6 BY <2>4
  <2>6. s1 \in Service BY <1>1, <2>2, Setters
  <2>7. s2 \in Service BY <2>2, <2>6, Setters
  <2>8. s3 \in Service BY <2>2, <2>7, Setters
  <2>9. s4 \in Service BY <2>1, <2>8, Setters
  <2>10. s5 \in Service BY <2>2, <2>9, Setters
  <2>11. s6 \in Service BY <2>2, <2>10, Setters
  <2>12. /\ svc'.mode = svc.mode /\ svc'.owner = svc.owner /\ svc'.timer = svc.timer
         /\ svc'.profiles = svc.profiles /\ svc'.connected = svc.connected
         /\ svc'.conn = svc.conn /\ svc'.attempt = c /\ svc'.doomed = dm /\ svc'.closed = svc.closed
    BY <1>1, <2>4 DEF Service
  <2>13. svc' \in Service BY <2>5, <2>11
  <2>. HIDE DEF s6
  <2>14. SvcStep(svc, svc') BY <1>1, <2>1, <2>3, <2>12, <2>13 DEF SvcStep, ServiceOK, Dooms
  <2>15. th' = [th EXCEPT ![t] = x] BY <1>1, <1>3
  <2>16. x \in Thread BY <1>1, <2>1 DEF Thread
  <2>17. ThreadOK(t, x) BY <1>1, <2>1, <2>16 DEF ThreadOK, Thread, Named
  <2>. HIDE DEF x
  <2>18. Moved BY <1>1, <2>15, <2>17, Move
  <2>19. RestOK BY <1>3 DEF IInv, RestOK
  <2>20. QED BY <2>14, <2>18, <2>19, Together
<1>4. QED BY <1>2, <1>3 DEF Begin

\* CallBackend keeps the inductive invariant.
LEMMA CallBackendGood == ASSUME IInv, NEW t \in Threads, CallBackend(t) PROVE Good
<1>1. /\ ServiceOK(svc) /\ ThreadsInv /\ th[t].step = "call" /\ t = "command"
      /\ th \in [Threads -> Thread] /\ th[t] \in Thread /\ ThreadOK(t, th[t])
  BY Facts DEF CallBackend, At, AttemptSteps, Named
<1>2. SvcStep(svc, svc') BY <1>1, SvcSame DEF CallBackend
<1>3. PICK closed \in BOOLEAN :
        LET stale == {be.active} \ {None}
            dial == /\ be.connecting = None /\ closed
                    /\ svc.attempt = th[t].conn /\ svc.ctx = "live"
        IN /\ be' = IF be.connecting # None THEN be
                    ELSE [Down(be, stale) EXCEPT
                            !.active = None, !.connecting = IF dial THEN th[t].conn ELSE None,
                            !.monitor = IF @ \in stale THEN None ELSE @]
           /\ events' = IF be.connecting # None THEN events ELSE events \cup Reports(stale)
           /\ th' = [th EXCEPT ![t].step = IF dial THEN "dial" ELSE "dialFailed",
                               ![t].err = IF dial THEN "none" ELSE "other"]
  BY DEF CallBackend
<1>. DEFINE stale == {be.active} \ {None}
            dial == /\ be.connecting = None /\ closed
                    /\ svc.attempt = th[t].conn /\ svc.ctx = "live"
            a == IF dial THEN "dial" ELSE "dialFailed"
            e == IF dial THEN "none" ELSE "other"
            cn == IF dial THEN th[t].conn ELSE None
            mon == IF be.monitor \in stale THEN None ELSE be.monitor
<1>4. Moved
  <2>. DEFINE x == [th[t] EXCEPT !.step = a, !.err = e]
  <2>1. th' = [th EXCEPT ![t] = x] BY <1>1, <1>3
  <2>2. a \in Steps /\ a \in AttemptSteps /\ e \in {"none", "retryable", "other"}
        /\ "call" \in AttemptSteps
    BY DEF Steps, AttemptSteps, Named
  <2>. HIDE DEF a, e
  <2>3. x \in Thread BY <1>1, <2>2, ErrTyped
  <2>4. ThreadOK(t, x) BY <1>1, <2>2, <2>3 DEF ThreadOK, Thread, Named
  <2>. HIDE DEF x
  <2>6. QED BY <1>1, <2>1, <2>4, Move
<1>5. RestOK
  <2>1. be \in Backend BY DEF IInv
  <2>2. cn \in Conns \cup {None} /\ mon \in Conns \cup {None}
    BY <1>1, <2>1 DEF Thread, Backend
  <2>3. be' = be \/ be' = [be EXCEPT !.active = None, !.connecting = cn,
                             !.live = be.live \ stale, !.left = be.left \ stale, !.monitor = mon]
    BY <1>3 DEF Down
  <2>. HIDE DEF cn, mon
  <2>4. be' \in Backend BY <2>1, <2>2, <2>3 DEF Backend
  <2>5. Reports(stale) \subseteq Event BY <2>1 DEF Reports, Event, Backend
  <2>6. events' \subseteq events \cup Reports(stale) BY <1>3
  <2>7. UNCHANGED <<pending, queue>> BY DEF CallBackend
  <2>8. QED BY <2>4, <2>5, <2>6, <2>7 DEF IInv, RestOK
<1>6. QED BY <1>2, <1>4, <1>5, Together

\* Established keeps the inductive invariant.
LEMMA EstablishedGood == ASSUME IInv, NEW t \in Threads, Established(t) PROVE Good
<1>1. /\ ServiceOK(svc) /\ ThreadsInv /\ th[t].step = "dial" /\ t = "command"
      /\ th[t] \in Thread /\ ThreadOK(t, th[t]) /\ th[t].p # None
  BY Facts DEF Established, At, AttemptSteps, Named
<1>2. SvcStep(svc, svc') BY <1>1, SvcSame DEF Established
<1>3. Moved
  <2>1. "proxy" \in Steps /\ "dial" \in AttemptSteps BY DEF Steps, AttemptSteps, Named
  <2>2. QED BY <1>1, <2>1, MoveGoto DEF Established
<1>4. RestOK
  <2>1. th[t].conn \in Conns BY <1>1 DEF ThreadOK, AttemptSteps, Named
  <2>2. be' \in Backend BY <2>1 DEF Established, IInv, Backend
  <2>3. QED BY <2>2 DEF Established, IInv, RestOK
<1>5. QED BY <1>2, <1>3, <1>4, Together

\* DialError keeps the inductive invariant.
LEMMA DialErrorGood == ASSUME IInv, NEW t \in Threads, DialError(t) PROVE Good
<1>1. /\ ServiceOK(svc) /\ ThreadsInv /\ th[t].step = "dial" /\ t = "command"
      /\ th \in [Threads -> Thread] /\ th[t] \in Thread /\ ThreadOK(t, th[t])
  BY Facts DEF DialError, At, AttemptSteps, Named
<1>2. SvcStep(svc, svc') BY <1>1, SvcSame DEF DialError
<1>3. Moved
  <2>1. PICK e \in {"retryable", "other"} :
          th' = [th EXCEPT ![t].step = "dialFailed", ![t].err = e]
    BY DEF DialError
  <2>. DEFINE x == [th[t] EXCEPT !.step = "dialFailed", !.err = e]
  <2>2. th' = [th EXCEPT ![t] = x] BY <1>1, <2>1
  <2>3. "dialFailed" \in Steps /\ "dialFailed" \in AttemptSteps /\ "dial" \in AttemptSteps
    BY DEF Steps, AttemptSteps, Named
  <2>4. x \in Thread
    <3>1. e \in {"none", "retryable", "other"} OBVIOUS
    <3>2. QED BY <1>1, <2>3, <3>1, ErrTyped
  <2>5. ThreadOK(t, x) BY <1>1, <2>3, <2>4 DEF ThreadOK, Thread, Named
  <2>. HIDE DEF x
  <2>7. QED BY <1>1, <2>2, <2>5, Move
<1>4. RestOK BY DEF DialError, IInv, RestOK, Backend
<1>5. QED BY <1>2, <1>3, <1>4, Together

\* DialFailed keeps the inductive invariant.
LEMMA DialFailedGood == ASSUME IInv, NEW t \in Threads, DialFailed(t) PROVE Good
<1>1. /\ ServiceOK(svc) /\ ThreadsInv /\ th[t].step = "dialFailed" /\ t = "command"
  BY Facts DEF DialFailed, At, AttemptSteps, Named
<1>2. SvcStep(svc, svc')
  <2>. DEFINE st == IF svc.ctx = "canceled" THEN "Disconnected" ELSE "Error"
              s1 == EndAttempt(svc)
  <2>1. svc' = svc \/ svc' = [s1 EXCEPT !.state = st] BY DEF DialFailed
  <2>2. st \in States BY DEF States
  <2>3. SvcStep(svc, s1) /\ ServiceOK(s1) BY <1>1, EndAttemptOK DEF SvcStep
  <2>. HIDE DEF st, s1
  <2>4. SvcStep(s1, [s1 EXCEPT !.state = st]) BY <2>2, <2>3, StateOK
  <2>5. QED BY <1>1, <2>1, <2>3, <2>4, SvcTrans, SvcSame
<1>3. Moved
  <2>1. "finish" \in Steps /\ "finish" \notin AttemptSteps /\ "finish" \notin Named BY DEF Steps, AttemptSteps, Named
  <2>2. QED BY <1>1, <2>1, MoveGoto, MoveReturn DEF DialFailed
<1>4. RestOK BY Rest DEF DialFailed
<1>5. QED BY <1>2, <1>3, <1>4, Together

\* DeadlineExpires keeps the inductive invariant.
LEMMA DeadlineGood == ASSUME IInv, NEW t \in Threads, DeadlineExpires(t) PROVE Good
<1>1. ServiceOK(svc) /\ svc \in Service /\ ThreadsInv BY Facts
<1>2. svc' \in Service BY <1>1 DEF DeadlineExpires, Service
<1>3. SvcStep(svc, svc') BY <1>1, <1>2, ServiceKept DEF DeadlineExpires, Service
<1>4. Moved BY <1>1, MoveNot DEF DeadlineExpires
<1>5. RestOK BY Rest DEF DeadlineExpires
<1>6. QED BY <1>3, <1>4, <1>5, Together

\* SetProxy keeps the inductive invariant.
LEMMA SetProxyGood == ASSUME IInv, NEW t \in Threads, SetProxy(t) PROVE Good
<1>1. /\ ServiceOK(svc) /\ svc \in Service /\ ThreadsInv /\ th[t].step = "proxy" /\ t = "command"
      /\ th[t].p # None
  BY Facts DEF SetProxy, At, AttemptSteps, Named
<1>2. SvcStep(svc, svc')
  <2>. DEFINE a == be.active
              s1 == [svc EXCEPT !.proxy = a]
              s2 == [s1 EXCEPT !.socks = TRUE]
  <2>1. \/ svc' = StoppedProxy(svc) \/ svc' = svc
        \/ svc' = [svc EXCEPT !.proxy = a, !.socks = TRUE]
    BY DEF SetProxy
  <2>2. a \in Conns \cup {None} BY DEF IInv, Backend
  <2>. HIDE DEF a
  <2>3. [svc EXCEPT !.proxy = a, !.socks = TRUE] = s2 OBVIOUS
  <2>4. s1 \in Service BY <1>1, <2>2, Setters
  <2>5. s2 \in Service BY <2>4, Setters
  <2>6. SvcStep(svc, s2)
    <3>1. /\ s2.mode = svc.mode /\ s2.owner = svc.owner /\ s2.timer = svc.timer
          /\ s2.profiles = svc.profiles /\ s2.conn = svc.conn /\ s2.closed = svc.closed /\ s2.doomed = svc.doomed /\ s2.attempt = svc.attempt
          /\ s2.ctx = svc.ctx /\ s2.connected = svc.connected
      BY <1>1 DEF Service
    <3>. HIDE DEF s2
    <3>2. QED BY <1>1, <2>5, <3>1, ServiceKept
  <2>7. QED BY <1>1, <2>1, <2>3, <2>6, StoppedProxyOK, SvcSame
<1>3. Moved
  <2>1. {"commit", "rollback"} \subseteq Steps /\ "proxy" \in AttemptSteps
    BY DEF Steps, AttemptSteps, Named
  <2>2. Goto(t, "commit") \/ Goto(t, "rollback") BY DEF SetProxy
  <2>3. QED BY <1>1, <2>1, <2>2, MoveGoto
<1>4. RestOK BY Rest DEF SetProxy
<1>5. QED BY <1>2, <1>3, <1>4, Together

\* RollTeardown keeps the inductive invariant.
LEMMA RollTeardownGood == ASSUME IInv, NEW t \in Threads, RollTeardown(t) PROVE Good
<1>1. /\ ServiceOK(svc) /\ ThreadsInv /\ th[t].step = "rollTeardown" /\ t = "command"
      /\ th[t].p # None /\ th \in [Threads -> Thread] /\ th[t] \in Thread
  BY Facts DEF RollTeardown, At, AttemptSteps, Named
<1>2. SvcStep(svc, svc')
  <2>. DEFINE s1 == IF svc.attempt = th[t].conn THEN EndAttempt(svc) ELSE svc
  <2>1. svc' = svc \/ svc' = FailCleanup(s1) BY DEF RollTeardown
  <2>2. SvcStep(svc, s1) /\ ServiceOK(s1) BY <1>1, EndAttemptOK, SvcSame DEF SvcStep
  <2>. HIDE DEF s1
  <2>3. SvcStep(s1, FailCleanup(s1)) BY <2>2, FailCleanupOK
  <2>4. QED BY <1>1, <2>1, <2>2, <2>3, SvcTrans, SvcSame
<1>3. Moved
  <2>. DEFINE e == th[t].err
  <2>1. "rolledBack" \in Steps /\ "rollTeardown" \in AttemptSteps
        /\ "finish" \in Steps /\ "finish" \notin AttemptSteps /\ "finish" \notin Named
    BY DEF Steps, AttemptSteps, Named
  <2>2. CASE th' = [th EXCEPT ![t].step = "rolledBack", ![t].drop = {}]
    <3>1. th' = [th EXCEPT ![t].step = "rolledBack", ![t].err = e, ![t].drop = {}]
      BY <1>1, <2>2 DEF Thread
    <3>2. e \in {"none", "retryable", "other"} BY <1>1 DEF Thread
    <3>. HIDE DEF e
    <3>3. th[t].step \in AttemptSteps /\ t # "request" /\ t # "closer" BY <1>1, <2>1
    <3>4. QED BY <1>1, <2>1, <3>1, <3>2, <3>3, MoveDropped
  <2>3. CASE th' = [th EXCEPT ![t].step = "finish", ![t].err = "other", ![t].drop = {}]
    BY <1>1, <2>1, <2>3, MoveDropped
  <2>4. QED BY <2>2, <2>3 DEF RollTeardown
<1>4. RestOK BY CloseLocallyOK DEF RollTeardown
<1>5. QED BY <1>2, <1>3, <1>4, Together

\* RolledBack keeps the inductive invariant.
LEMMA RolledBackGood == ASSUME IInv, NEW t \in Threads, RolledBack(t) PROVE Good
<1>1. /\ ServiceOK(svc) /\ ThreadsInv /\ th[t].step = "rolledBack" /\ t = "command"
  BY Facts DEF RolledBack, At, AttemptSteps, Named
<1>2. SvcStep(svc, svc')
  <2>. DEFINE s1 == EndAttempt(svc)
  <2>1. svc' = svc \/ svc' = [s1 EXCEPT !.state = "Error"] BY DEF RolledBack
  <2>2. SvcStep(svc, s1) /\ ServiceOK(s1) /\ "Error" \in States
    BY <1>1, EndAttemptOK DEF SvcStep, States
  <2>. HIDE DEF s1
  <2>3. SvcStep(s1, [s1 EXCEPT !.state = "Error"]) BY <2>2, StateOK
  <2>4. QED BY <1>1, <2>1, <2>2, <2>3, SvcTrans, SvcSame
<1>3. Moved BY <1>1, MoveReturn DEF RolledBack
<1>4. RestOK BY Rest DEF RolledBack
<1>5. QED BY <1>2, <1>3, <1>4, Together

\* Commit: an attempt whose context is live is not the one Close found.
LEMMA CommitGood == ASSUME IInv, NEW t \in Threads, Commit(t) PROVE Good
<1>1. /\ ServiceOK(svc) /\ svc \in Service /\ ThreadsInv /\ th[t].step = "commit" /\ t = "command"
      /\ th[t] \in Thread /\ th[t].conn \in Conns
  BY Facts DEF Commit, At, AttemptSteps, Named, ThreadOK
<1>2. CASE svc' = svc /\ Return(t, "other") /\ GiveUp(th[t].conn)
  <2>1. Moved BY <1>1, <1>2, MoveReturn
  <2>2. RestOK BY <1>2, GiveUpOK DEF Commit
  <2>3. QED BY <1>1, <1>2, <2>1, <2>2, SvcSame, Together
<1>3. CASE /\ svc.attempt = th[t].conn /\ svc.ctx = "live" /\ Return(t, "none") /\ UNCHANGED be
           /\ svc' = [EndAttempt(svc) EXCEPT !.connected = th[t].p,
                        !.state = "Connected", !.conn = th[t].conn]
  <2>. DEFINE p == th[t].p
              c == th[t].conn
              s0 == EndAttempt(svc)
              s1 == [s0 EXCEPT !.connected = p]
              s2 == [s1 EXCEPT !.state = "Connected"]
              s3 == [s2 EXCEPT !.conn = c]
  <2>1. p \in Profiles \cup {None} /\ c \in Conns \cup {None} /\ "Connected" \in States
    BY <1>1 DEF Thread, States
  <2>2. s0 \in Service BY <1>1, EndAttemptOK DEF SvcStep, ServiceOK
  <2>3. /\ s0.attempt = None /\ s0.mode = svc.mode /\ s0.owner = svc.owner
        /\ s0.timer = svc.timer /\ s0.profiles = svc.profiles /\ s0.closed = svc.closed /\ s0.doomed = svc.doomed
    BY <1>1 DEF EndAttempt, Service
  <2>4. svc' = [s0 EXCEPT !.connected = p, !.state = "Connected", !.conn = c] BY <1>3
  <2>5. svc.attempt = c /\ svc.ctx = "live" BY <1>3
  <2>. HIDE DEF p, c, s0
  <2>6. svc' = s3 BY <2>4
  <2>7. s1 \in Service BY <2>1, <2>2, Setters
  <2>8. s2 \in Service BY <2>1, <2>7, Setters
  <2>9. svc' \in Service BY <2>1, <2>6, <2>8, Setters
  <2>10. /\ svc'.mode = s0.mode /\ svc'.owner = s0.owner /\ svc'.timer = s0.timer
         /\ svc'.profiles = s0.profiles /\ svc'.attempt = s0.attempt
         /\ svc'.doomed = s0.doomed /\ svc'.closed = s0.closed /\ svc'.conn = c
    BY <2>2, <2>4 DEF Service
  <2>11. SvcStep(svc, svc') BY <1>1, <2>3, <2>5, <2>9, <2>10 DEF SvcStep, ServiceOK, Dooms
  <2>12. Moved BY <1>1, <1>3, MoveReturn
  <2>13. RestOK BY <1>3, Rest DEF Commit
  <2>14. QED BY <2>11, <2>12, <2>13, Together
<1>4. QED BY <1>2, <1>3 DEF Commit

-----------------------------------------------------------------------------
(* What each kind of command does.                                          *)

\* Resume keeps the inductive invariant.
LEMMA ResumeGood == ASSUME IInv, NEW t \in Threads, Resume(t) PROVE Good
<1>1. /\ ServiceOK(svc) /\ ThreadsInv /\ th[t].step = "resume" /\ t = "command"
      /\ th[t].p # None
  BY Facts DEF Resume, At, Named
<1>2. SvcStep(svc, svc') BY <1>1, SvcSame DEF Resume
<1>3. Moved
  <2>1. "check" \in Steps /\ "check" \notin AttemptSteps BY DEF Steps, AttemptSteps, Named
  <2>2. Goto(t, "check") \/ Done(t) BY DEF Resume
  <2>3. QED BY <1>1, <2>1, <2>2, MoveGoto, MoveDone
<1>4. RestOK BY Rest DEF Resume
<1>5. QED BY <1>2, <1>3, <1>4, Together

\* SetMode: machine mode comes with its owner and goes with it.
LEMMA SetModeGood == ASSUME IInv, NEW t \in Threads, SetMode(t) PROVE Good
<1>1. /\ ServiceOK(svc) /\ svc \in Service /\ ThreadsInv /\ th[t].step = "mode" /\ t = "command"
      /\ th[t] \in Thread
  BY Facts DEF SetMode, At
<1>2. ServiceOK(svc') /\ Locked(svc, svc')
  <2>1. CASE svc' = [svc EXCEPT !.mode = "machine", !.machine = th[t].p,
                       !.current = th[t].p, !.shown = th[t].p, !.owner = System]
    <3>. DEFINE p == th[t].p
                s1 == [svc EXCEPT !.mode = "machine"]
                s2 == [s1 EXCEPT !.machine = p]
                s3 == [s2 EXCEPT !.current = p]
                s4 == [s3 EXCEPT !.shown = p]
                s5 == [s4 EXCEPT !.owner = System]
    <3>1. p \in Profiles \cup {None} /\ System \in Actors \cup {None}
      BY <1>1, NoneFacts DEF Thread
    <3>2. svc' = [svc EXCEPT !.mode = "machine", !.machine = p,
                       !.current = p, !.shown = p, !.owner = System]
      BY <2>1
    <3>. HIDE DEF p
    <3>3. svc' = s5 BY <3>2
    <3>4. s1 \in Service BY <1>1, Setters
    <3>5. s2 \in Service BY <3>1, <3>4, Setters
    <3>6. s3 \in Service BY <3>1, <3>5, Setters
    <3>7. s4 \in Service BY <3>1, <3>6, Setters
    <3>8. s5 \in Service BY <3>1, <3>7, Setters
    <3>9. /\ svc'.owner = System /\ svc'.timer = svc.timer /\ svc'.profiles = svc.profiles
          /\ svc'.conn = svc.conn /\ svc'.closed = svc.closed /\ svc'.doomed = svc.doomed /\ svc'.attempt = svc.attempt /\ svc'.ctx = svc.ctx
          /\ svc'.connected = svc.connected
      BY <1>1, <3>2 DEF Service
    <3>10. QED BY <1>1, <3>3, <3>8, <3>9 DEF Locked, ServiceOK, Dooms
  <2>2. CASE svc' = [svc EXCEPT !.mode = "user", !.machine = None, !.owner = None]
    <3>. DEFINE s1 == [svc EXCEPT !.mode = "user"]
                s2 == [s1 EXCEPT !.machine = None]
                s3 == [s2 EXCEPT !.owner = None]
    <3>1. svc' = s3 BY <2>2
    <3>2. s1 \in Service BY <1>1, Setters
    <3>3. s2 \in Service BY <3>2, Setters
    <3>4. s3 \in Service BY <3>3, Setters
    <3>5. /\ svc'.mode = "user" /\ svc'.timer = svc.timer /\ svc'.profiles = svc.profiles
          /\ svc'.conn = svc.conn /\ svc'.closed = svc.closed /\ svc'.doomed = svc.doomed /\ svc'.attempt = svc.attempt /\ svc'.ctx = svc.ctx
          /\ svc'.connected = svc.connected
      BY <1>1, <2>2 DEF Service
    <3>6. QED BY <1>1, <3>1, <3>4, <3>5 DEF Locked, ServiceOK, Dooms
  <2>3. QED BY <2>1, <2>2 DEF SetMode
<1>3. Moved
  <2>1. "prepare" \in Steps /\ "prepare" \notin AttemptSteps /\ "prepare" \notin Named BY DEF Steps, AttemptSteps, Named
  <2>2. Goto(t, "prepare") \/ Done(t) BY DEF SetMode
  <2>3. QED BY <1>1, <2>1, <2>2, MoveGoto, MoveDone
<1>4. RestOK BY Rest DEF SetMode
<1>5. svc'.closed = svc.closed BY <1>1 DEF SetMode, Service
<1>6. svc'.closed <=> (th'["closer"].step # "idle") BY <1>3, <1>5 DEF IInv, Moved
<1>7. QED BY <1>2, <1>3, <1>4, <1>5, <1>6 DEF IInv, Good, Moved, RestOK

\* Delete: the retry of a profile goes with it.
LEMMA DeleteGood == ASSUME IInv, NEW t \in Threads, Delete(t) PROVE Good
<1>1. /\ ServiceOK(svc) /\ svc \in Service /\ ThreadsInv /\ th[t].step = "delete"
      /\ t \in {"command", "request"}
  BY Facts DEF Delete, At
<1>2. SvcStep(svc, svc')
  <2>. DEFINE p == th[t].p
              left == svc.profiles \ {p}
              heir == IF Cardinality(left) = 1 THEN CHOOSE q \in left : TRUE ELSE None
              tm == IF svc.timer # None /\ svc.timer.p = p THEN None ELSE svc.timer
              cu == IF svc.current = p THEN heir ELSE svc.current
              sh == IF svc.current = p THEN heir ELSE svc.shown
              s1 == [svc EXCEPT !.profiles = left]
              s2 == [s1 EXCEPT !.timer = tm]
              s3 == [s2 EXCEPT !.current = cu]
              s4 == [s3 EXCEPT !.shown = sh]
  <2>1. svc' = svc \/ svc' = [svc EXCEPT !.profiles = left, !.timer = tm, !.current = cu,
                                         !.shown = sh]
    BY DEF Delete
  <2>2. left \in SUBSET Profiles BY <1>1 DEF Service
  <2>3. heir \in Profiles \cup {None}
    <3>1. CASE Cardinality(left) = 1
      <4>1. left # {} BY <3>1, FS_EmptySet
      <4>2. PICK q \in left : TRUE BY <4>1
      <4>3. (CHOOSE r \in left : TRUE) \in left BY <4>2
      <4>4. QED BY <2>2, <3>1, <4>3
    <3>2. CASE Cardinality(left) # 1 BY <3>2
    <3>3. QED BY <3>1, <3>2
  <2>. HIDE DEF heir
  <2>4. cu \in Profiles \cup {None} /\ sh \in Profiles \cup {None} BY <1>1, <2>3 DEF Service
  <2>5. tm \in Timer \cup {None} BY <1>1 DEF Service
  <2>6. tm # None => tm.p \in left BY <1>1 DEF ServiceOK
  <2>. HIDE DEF left, tm, cu, sh
  <2>7. CASE svc' = [svc EXCEPT !.profiles = left, !.timer = tm, !.current = cu, !.shown = sh]
    <3>1. svc' = s4 BY <2>7
    <3>2. s1 \in Service BY <1>1, <2>2, Setters
    <3>3. s2 \in Service BY <2>5, <3>2, Setters
    <3>4. s3 \in Service BY <2>4, <3>3, Setters
    <3>5. s4 \in Service BY <2>4, <3>4, Setters
    <3>6. /\ svc'.mode = svc.mode /\ svc'.owner = svc.owner /\ svc'.timer = tm
          /\ svc'.profiles = left /\ svc'.conn = svc.conn /\ svc'.closed = svc.closed /\ svc'.doomed = svc.doomed /\ svc'.attempt = svc.attempt
          /\ svc'.ctx = svc.ctx /\ svc'.connected = svc.connected
      BY <1>1, <2>7 DEF Service
    <3>7. QED BY <1>1, <2>6, <3>1, <3>5, <3>6 DEF SvcStep, ServiceOK, Dooms
  <2>8. QED BY <1>1, <2>1, <2>7, SvcSame
<1>3. Moved BY <1>1, MoveDone DEF Delete
<1>4. RestOK BY Rest DEF Delete
<1>5. QED BY <1>2, <1>3, <1>4, Together

\* FinishRepair keeps the inductive invariant.
LEMMA FinishRepairGood == ASSUME IInv, NEW t \in Threads, FinishRepair(t) PROVE Good
<1>1. /\ ServiceOK(svc) /\ svc \in Service /\ ThreadsInv /\ th[t].step = "finish"
      /\ t \in {"command", "request"}
  BY Facts DEF FinishRepair, At
<1>2. SvcStep(svc, svc')
  <2>. DEFINE s == [svc EXCEPT !.net = None]
              f == [s EXCEPT !.state = "Error"]
  <2>1. s \in Service BY <1>1, Setters
  <2>2. SvcStep(svc, s)
    <3>1. /\ s.mode = svc.mode /\ s.owner = svc.owner /\ s.timer = svc.timer
          /\ s.profiles = svc.profiles /\ s.conn = svc.conn /\ s.closed = svc.closed /\ s.doomed = svc.doomed /\ s.attempt = svc.attempt
          /\ s.ctx = svc.ctx /\ s.connected = svc.connected
      BY <1>1 DEF Service
    <3>. HIDE DEF s
    <3>2. QED BY <1>1, <2>1, <3>1, ServiceKept
  <2>3. ServiceOK(s) /\ "Error" \in States /\ 1 \in 1..MaxTries
    BY <2>2, SupervisorAssumption DEF SvcStep, States
  <2>4. \/ svc' = svc \/ svc' = s \/ svc' = StartReconnect(f, th[t].p, 1)
        \/ svc' = ReleaseOwner(f)
    BY DEF FinishRepair
  <2>. HIDE DEF s
  <2>5. SvcStep(s, f) BY <2>3, StateOK
  <2>. HIDE DEF f
  <2>6. ServiceOK(f) /\ SvcStep(svc, f) BY <1>1, <2>2, <2>5, SvcTrans DEF SvcStep
  <2>7. SvcStep(f, ReleaseOwner(f)) BY <2>6, ReleaseOwnerOK
  <2>8. SvcStep(f, StartReconnect(f, th[t].p, 1)) BY <2>3, <2>6, StartReconnectOK
  <2>9. SvcStep(svc, ReleaseOwner(f)) BY <1>1, <2>6, <2>7, SvcTrans
  <2>10. SvcStep(svc, StartReconnect(f, th[t].p, 1)) BY <1>1, <2>6, <2>8, SvcTrans
  <2>11. QED BY <1>1, <2>2, <2>4, <2>9, <2>10, SvcSame
<1>3. Moved BY <1>1, MoveDone DEF FinishRepair
<1>4. RestOK BY Rest DEF FinishRepair
<1>5. QED BY <1>2, <1>3, <1>4, Together

\* FinishRetry keeps the inductive invariant.
LEMMA FinishRetryGood == ASSUME IInv, NEW t \in Threads, FinishRetry(t) PROVE Good
<1>1. /\ ServiceOK(svc) /\ svc \in Service /\ ThreadsInv /\ th[t].step = "finish"
      /\ t \in {"command", "request"} /\ th[t] \in Thread
  BY Facts DEF FinishRetry, At
<1>2. SvcStep(svc, svc')
  <2>. DEFINE s == [svc EXCEPT !.timer = None]
              f == [svc EXCEPT !.state = "Error", !.timer = None]
              n == th[t].n
  <2>1. s \in Service BY <1>1, Setters
  <2>2. SvcStep(svc, s)
    <3>1. /\ s.mode = svc.mode /\ s.owner = svc.owner /\ s.timer = None
          /\ s.conn = svc.conn /\ s.closed = svc.closed /\ s.doomed = svc.doomed /\ s.attempt = svc.attempt
          /\ s.ctx = svc.ctx /\ s.connected = svc.connected
      BY <1>1 DEF Service
    <3>. HIDE DEF s
    <3>2. QED BY <1>1, <2>1, <3>1 DEF SvcStep, ServiceOK, Dooms
  <2>3. ServiceOK(s) /\ "Error" \in States BY <2>2 DEF SvcStep, States
  <2>4. f = [s EXCEPT !.state = "Error"] OBVIOUS
  <2>5. \/ svc' = s \/ (n < MaxTries /\ svc' = StartReconnect(svc, th[t].p, n + 1))
        \/ svc' = ReleaseOwner(f)
    BY DEF FinishRetry
  <2>6. n \in 0..MaxTries BY <1>1 DEF Thread
  <2>. HIDE DEF s, f, n
  <2>7. n < MaxTries => n + 1 \in 1..MaxTries BY <2>6, SupervisorAssumption
  <2>8. SvcStep(s, f) BY <2>3, <2>4, StateOK
  <2>9. ServiceOK(f) /\ SvcStep(svc, f) BY <1>1, <2>2, <2>8, SvcTrans DEF SvcStep
  <2>10. SvcStep(f, ReleaseOwner(f)) BY <2>9, ReleaseOwnerOK
  <2>11. SvcStep(svc, ReleaseOwner(f)) BY <1>1, <2>9, <2>10, SvcTrans
  <2>12. n < MaxTries => SvcStep(svc, StartReconnect(svc, th[t].p, n + 1))
    BY <1>1, <2>7, StartReconnectOK
  <2>13. QED BY <2>2, <2>5, <2>11, <2>12
<1>3. Moved BY <1>1, MoveDone DEF FinishRetry
<1>4. RestOK BY Rest DEF FinishRetry
<1>5. QED BY <1>2, <1>3, <1>4, Together

\* FinishOperation keeps the inductive invariant.
LEMMA FinishOperationGood == ASSUME IInv, NEW t \in Threads, FinishOperation(t) PROVE Good
<1>1. /\ ServiceOK(svc) /\ svc \in Service /\ ThreadsInv /\ th[t].step = "finish"
      /\ t \in {"command", "request"}
  BY Facts DEF FinishOperation, At
<1>2. SvcStep(svc, svc')
  <2>1. svc' = svc \/ svc' = ReleaseOwner(svc) \/ svc' = StartReconnect(svc, th[t].p, 1)
    BY DEF FinishOperation, ReleasedIdleOwner
  <2>2. 1 \in 1..MaxTries BY SupervisorAssumption
  <2>3. QED BY <1>1, <2>1, <2>2, SvcSame, ReleaseOwnerOK, StartReconnectOK
<1>3. Moved BY <1>1, MoveDone DEF FinishOperation
<1>4. RestOK BY Rest DEF FinishOperation
<1>5. QED BY <1>2, <1>3, <1>4, Together

-----------------------------------------------------------------------------
(* What waits for commandMu is taken.                                       *)

Kinds == {"none", "connect", "disconnect", "machine", "user", "reapply", "delete",
          "repair", "retry", "proxy", "close"}

\* An idle goroutine is typed and returns nowhere.
LEMMA IdleFields ==
    /\ IdleThread \in Thread /\ IdleThread.step = "idle" /\ IdleThread.next = "idle"
<1>1. 0 \in 0..MaxTries BY SupervisorAssumption
<1>2. QED BY <1>1, NoneFacts DEF IdleThread, Thread, Steps

\* The holder of commandMu begins something.
LEMMA MoveInto ==
    ASSUME ThreadsInv, NEW x \in Thread, x.step \notin Named, x.next \in Returns,
           x.next \in Named => x.p # None,
           th' = [th EXCEPT !["command"] = x]
    PROVE  Moved
<1>1. ThreadOK("command", x) BY DEF ThreadOK, Named
<1>3. "command" \in Threads BY DEF Threads
<1>4. QED BY <1>1, <1>3, Move

\* Run begins what waited.
LEMMA MoveRun ==
    ASSUME ThreadsInv, NEW w, w.kind \in Kinds, w.actor \in Actors, w.p \in Profiles \cup {None},
           w.conn \in Conns \cup {None}, NEW st \in Steps, st \notin Named,
           NEW nx \in Returns, nx \in Named => w.p # None, Run(w, st, nx)
    PROVE  Moved
<1>. DEFINE k == w.kind
            a == w.actor
            p == w.p
            r == w.conn
            x == [IdleThread EXCEPT !.kind = k, !.actor = a, !.p = p, !.rep = r,
                    !.step = st, !.next = nx]
<1>1. k \in Kinds /\ a \in Actors /\ p \in Profiles \cup {None} /\ r \in Conns \cup {None}
      /\ nx \in Steps
  BY DEF Returns, Steps
<1>2. th' = [th EXCEPT !["command"] = x] BY DEF Run
<1>. HIDE DEF k, a, p, r
<1>3. x \in Thread BY <1>1, IdleFields DEF Thread, Kinds
<1>4. x.step = st /\ x.next = nx /\ x.p = w.p BY IdleFields DEF Thread, p
<1>. HIDE DEF x
<1>5. QED BY <1>2, <1>3, <1>4, MoveInto

\* EnterDelete begins a delete, in the handler or under commandMu.
LEMMA MoveDelete ==
    ASSUME ThreadsInv, NEW t \in {"command", "request"}, NEW a \in Actors, NEW p \in Profiles \cup {None},
           EnterDelete(t, a, p)
    PROVE  Moved
<1>. DEFINE st == IF ProfileIsActive(p) THEN "cut" ELSE "delete"
            x == [IdleThread EXCEPT !.kind = "delete", !.actor = a, !.p = p, !.next = "delete",
                    !.step = st]
<1>2. st \in Steps /\ st \notin AttemptSteps /\ st \notin Named /\ "delete" \notin Named /\ "delete" \in Steps /\ "delete" \in Returns
      /\ st \in DisconnectSteps \cup {"idle", "delete", "finish"}
  BY DEF Returns, Steps, AttemptSteps, Named, DisconnectSteps
<1>3. th' = [th EXCEPT ![t] = x] BY DEF EnterDelete
<1>. HIDE DEF st
<1>4. x \in Thread BY <1>2, IdleFields DEF Thread
<1>5. x.step = st /\ x.next = "delete" /\ x.kind = "delete" BY IdleFields DEF Thread
<1>. HIDE DEF x
<1>6. ThreadOK(t, x) BY <1>2, <1>4, <1>5 DEF ThreadOK
<1>8. t \in Threads BY DEF Threads
<1>9. QED BY <1>3, <1>6, <1>8, Move

\* What is in the queue is typed, and stays so when something is taken.
LEMMA TakeOK ==
    ASSUME IInv, NEW w, Take(w), UNCHANGED <<be, events, pending>>
    PROVE  /\ RestOK /\ ThreadsInv /\ ServiceOK(svc) /\ svc \in Service
           /\ w.actor \in Actors /\ w.p \in Profiles \cup {None} /\ w.conn \in Conns \cup {None}
<1>1. w \in Work BY DEF Take, IInv
<1>2. RestOK BY DEF Take, IInv, RestOK
<1>3. QED BY <1>1, <1>2 DEF IInv, Work, ServiceOK

\* StartConnect: a user becomes the owner outside machine mode.
LEMMA StartConnectGood == ASSUME IInv, NEW w, StartConnect(w) PROVE Good
<1>1. /\ RestOK /\ ThreadsInv /\ ServiceOK(svc) /\ svc \in Service
      /\ w.actor \in Actors /\ w.p \in Profiles \cup {None} /\ w.conn \in Conns \cup {None}
      /\ w.kind = "connect"
  BY TakeOK DEF StartConnect
<1>2. SvcStep(svc, svc')
  <2>. DEFINE p == w.p
              ow == IF w.actor # System /\ svc.mode = "user" THEN w.actor ELSE svc.owner
              s1 == [svc EXCEPT !.current = p]
              s2 == [s1 EXCEPT !.owner = ow]
  <2>1. svc' = svc \/ svc' = [svc EXCEPT !.current = p, !.owner = ow] BY DEF StartConnect
  <2>2. ow \in Actors \cup {None} /\ p \in Profiles \cup {None} BY <1>1 DEF Service
  <2>3. svc.mode = "machine" => ow = svc.owner OBVIOUS
  <2>. HIDE DEF p, ow
  <2>4. s2 = [svc EXCEPT !.current = p, !.owner = ow] OBVIOUS
  <2>5. s1 \in Service BY <1>1, <2>2, Setters
  <2>6. s2 \in Service BY <2>2, <2>5, Setters
  <2>7. /\ s2.mode = svc.mode /\ s2.owner = ow /\ s2.timer = svc.timer
        /\ s2.profiles = svc.profiles /\ s2.conn = svc.conn /\ s2.closed = svc.closed /\ s2.doomed = svc.doomed /\ s2.attempt = svc.attempt
        /\ s2.ctx = svc.ctx /\ s2.connected = svc.connected
    BY <1>1 DEF Service
  <2>. HIDE DEF s2
  <2>8. SvcStep(svc, s2) BY <1>1, <2>3, <2>6, <2>7 DEF SvcStep, ServiceOK, Dooms
  <2>9. QED BY <1>1, <2>1, <2>4, <2>8, SvcSame
<1>3. Moved
  <2>1. "prepare" \in Steps /\ "prepare" \notin Named /\ "idle" \in Returns /\ "idle" \notin Named
        /\ "connect" \in Kinds
    BY DEF Steps, AttemptSteps, Named, Returns, Kinds
  <2>2. Run(w, "prepare", "idle") \/ UNCHANGED th BY DEF StartConnect
  <2>3. QED BY <1>1, <2>1, <2>2, MoveRun, MoveNot
<1>4. QED BY <1>1, <1>2, <1>3, Together

\* The other operations that begin without a section of s.mu.
LEMMA StartOthersGood ==
    ASSUME IInv, NEW w, \/ StartDisconnect(w) \/ StartControlMode(w) \/ StartReapply(w)
                        \/ StartDelete(w) \/ StartProxyFailure(w)
    PROVE  Good
<1>1. Take(w) /\ UNCHANGED <<svc, be, events, pending>>
  BY DEF StartDisconnect, StartControlMode, StartReapply, StartDelete, StartProxyFailure
<1>2. /\ RestOK /\ ThreadsInv /\ ServiceOK(svc)
      /\ w.actor \in Actors /\ w.p \in Profiles \cup {None} /\ w.conn \in Conns \cup {None}
  BY <1>1, TakeOK
<1>3. SvcStep(svc, svc') BY <1>1, <1>2, SvcSame
<1>4. Moved
  <2>1. {"cut", "mode"} \subseteq Steps \ Named
        /\ {"finish", "mode", "prepare"} \subseteq Returns \ Named
        /\ {"disconnect", "machine", "user", "reapply", "proxy"} \subseteq Kinds
    BY DEF Steps, AttemptSteps, Named, Returns, Kinds
  <2>2. CASE UNCHANGED th BY <1>2, <2>2, MoveNot
  <2>3. CASE Run(w, "cut", "finish") /\ w.kind \in {"disconnect", "proxy"}
    BY <1>2, <2>1, <2>3, MoveRun
  <2>4. CASE Run(w, "cut", "prepare") /\ w.kind = "reapply" BY <1>2, <2>1, <2>4, MoveRun
  <2>5. CASE /\ Run(w, IF w.kind = "user" \/ ConnectionActive THEN "cut" ELSE "mode", "mode")
             /\ w.kind \in {"machine", "user"}
    <3>. DEFINE st == IF w.kind = "user" \/ ConnectionActive THEN "cut" ELSE "mode"
    <3>1. st \in {"cut", "mode"} /\ Run(w, st, "mode") BY <2>5
    <3>. HIDE DEF st
    <3>2. QED BY <1>2, <2>1, <2>5, <3>1, MoveRun
  <2>6. CASE EnterDelete("command", w.actor, w.p) BY <1>2, <2>6, MoveDelete
  <2>7. QED BY <2>2, <2>3, <2>4, <2>5, <2>6
            DEF StartDisconnect, StartControlMode, StartReapply, StartDelete, StartProxyFailure
<1>5. QED BY <1>2, <1>3, <1>4, Together

\* StartRepair keeps the inductive invariant.
LEMMA StartRepairGood == ASSUME IInv, NEW w \in queue, StartRepair(w) PROVE Good
<1>1. /\ RestOK /\ ThreadsInv /\ ServiceOK(svc) /\ svc \in Service
      /\ w.actor \in Actors /\ w.p \in Profiles \cup {None} /\ w.conn \in Conns \cup {None}
      /\ w.kind = "repair"
  BY TakeOK DEF StartRepair
<1>2. SvcStep(svc, svc') BY <1>1, SvcSame DEF StartRepair
<1>3. Moved
  <2>1. {"cut", "finish"} \subseteq Steps \ Named /\ {"resume", "idle"} \subseteq Returns
        /\ "idle" \notin Named
        /\ "repair" \in Kinds /\ 0 \in 0..MaxTries
    BY SupervisorAssumption DEF Steps, AttemptSteps, Named, Returns, Kinds
  <2>2. CASE UNCHANGED th BY <1>1, <2>2, MoveNot
  <2>3. svc.net # None => svc.net.p \in Profiles BY <1>1 DEF Service, Repair
  <2>4. CASE svc.net # None /\ Run([w EXCEPT !.p = svc.net.p], "cut", "resume")
    <3>. DEFINE v == [w EXCEPT !.p = svc.net.p]
    <3>1. w \in Work BY DEF IInv
    <3>2. v.kind = w.kind /\ v.actor = w.actor /\ v.p = svc.net.p /\ v.conn = w.conn
      BY <3>1 DEF Work
    <3>3. Run(v, "cut", "resume") BY <2>4
    <3>. HIDE DEF v
    <3>4. QED BY <1>1, <2>1, <2>3, <2>4, <3>2, <3>3, NoneFacts, MoveRun
  <2>5. CASE /\ svc.net # None
             /\ th' = [th EXCEPT !["command"] = [IdleThread EXCEPT
                          !.kind = "repair", !.p = svc.net.p, !.rep = w.conn,
                          !.step = "finish", !.err = "other"]]
    <3>. DEFINE p == svc.net.p
                c == w.conn
                x == [IdleThread EXCEPT !.kind = "repair", !.p = p, !.rep = c,
                        !.step = "finish", !.err = "other"]
    <3>1. p \in Profiles /\ c \in Conns \cup {None} /\ th' = [th EXCEPT !["command"] = x]
      BY <1>1, <2>3, <2>5
    <3>. HIDE DEF p, c
    <3>2. x \in Thread BY <2>1, <3>1, IdleFields DEF Thread
    <3>3. x.step = "finish" /\ x.next = "idle" BY IdleFields DEF Thread
    <3>. HIDE DEF x
    <3>4. QED BY <1>1, <2>1, <3>1, <3>2, <3>3, MoveInto
  <2>6. QED BY <2>2, <2>4, <2>5 DEF StartRepair
<1>4. QED BY <1>1, <1>2, <1>3, Together

\* UpdateActive keeps the inductive invariant.
LEMMA UpdateActiveGood == ASSUME IInv, NEW w, UpdateActive(w) PROVE Good
<1>1. ServiceOK(svc) /\ ThreadsInv BY DEF IInv
<1>2. SvcStep(svc, svc') BY <1>1, SvcSame DEF UpdateActive
<1>3. Moved BY <1>1, MoveNot DEF UpdateActive
<1>4. RestOK
  <2>1. w \in Work BY DEF UpdateActive, IInv
  <2>2. [w EXCEPT !.kind = "reapply"] \in Work BY <2>1 DEF Work
  <2>3. queue' \subseteq queue \cup {[w EXCEPT !.kind = "reapply"]} BY DEF UpdateActive
  <2>4. QED BY <2>2, <2>3 DEF UpdateActive, IInv, RestOK
<1>5. QED BY <1>2, <1>3, <1>4, Together

\* StartRetry keeps the inductive invariant.
LEMMA StartRetryGood == ASSUME IInv, StartRetry PROVE Good
<1>1. ServiceOK(svc) /\ svc \in Service /\ ThreadsInv /\ svc.timer # None
  BY DEF IInv, ServiceOK, StartRetry
<1>2. svc.timer \in Timer BY <1>1 DEF Service
<1>3. SvcStep(svc, svc')
  <2>. DEFINE s == [svc EXCEPT !.timer = None]
  <2>1. s \in Service BY <1>1, Setters
  <2>2. SvcStep(svc, s)
    <3>1. /\ s.mode = svc.mode /\ s.owner = svc.owner /\ s.timer = None
          /\ s.conn = svc.conn /\ s.closed = svc.closed /\ s.doomed = svc.doomed /\ s.attempt = svc.attempt
          /\ s.ctx = svc.ctx /\ s.connected = svc.connected
      BY <1>1 DEF Service
    <3>. HIDE DEF s
    <3>2. QED BY <1>1, <2>1, <3>1 DEF SvcStep, ServiceOK, Dooms
  <2>3. [svc EXCEPT !.timer = None, !.state = "Reconnecting"] = [s EXCEPT !.state = "Reconnecting"]
    OBVIOUS
  <2>4. svc' = s \/ svc' = [s EXCEPT !.state = "Reconnecting"] BY <2>3 DEF StartRetry
  <2>. HIDE DEF s
  <2>5. ServiceOK(s) /\ "Reconnecting" \in States BY <2>2 DEF SvcStep, States
  <2>6. SvcStep(s, [s EXCEPT !.state = "Reconnecting"]) BY <2>5, StateOK
  <2>7. QED BY <1>1, <2>2, <2>4, <2>6, SvcTrans
<1>4. Moved
  <2>. DEFINE p == svc.timer.p
              n == svc.timer.n
  <2>1. p \in Profiles \cup {None} /\ p # None /\ n \in 0..MaxTries
    BY <1>2, SupervisorAssumption DEF Timer
  <2>2. "cut" \in Steps \ Named /\ "check" \in Returns /\ "retry" \in Kinds
        /\ System \in Actors /\ None \in Conns \cup {None}
    BY NoneFacts DEF Steps, AttemptSteps, Named, Returns, Kinds
  <2>3. UNCHANGED th \/ th' = [th EXCEPT !["command"] = [IdleThread EXCEPT
                           !.kind = "retry", !.p = p, !.n = n, !.step = "cut", !.next = "check"]]
    BY DEF StartRetry
  <2>. HIDE DEF p, n
  <2>. DEFINE x == [IdleThread EXCEPT !.kind = "retry", !.p = p, !.n = n, !.step = "cut",
                      !.next = "check"]
  <2>4. x \in Thread /\ x.step = "cut" /\ x.next = "check" /\ x.p = p
    <3>1. "check" \in Steps BY DEF Steps
    <3>2. x \in Thread BY <2>1, <2>2, <3>1, IdleFields DEF Thread
    <3>3. QED BY <3>2, IdleFields DEF Thread
  <2>5. UNCHANGED th \/ th' = [th EXCEPT !["command"] = x] BY <2>3
  <2>. HIDE DEF x
  <2>6. QED BY <1>1, <2>1, <2>2, <2>4, <2>5, MoveInto, MoveNot
<1>5. RestOK BY Rest DEF StartRetry
<1>6. QED BY <1>3, <1>4, <1>5, Together

-----------------------------------------------------------------------------
(* Close, the event loop, clients and the environment.                      *)

\* StartClose: the attempt there is, whosoever's, is cancelled.
LEMMA StartCloseGood == ASSUME IInv, StartClose PROVE Good
<1>1. ServiceOK(svc) /\ svc \in Service /\ ThreadsInv /\ th \in [Threads -> Thread]
  BY DEF IInv, ServiceOK, ThreadsInv
<1>. DEFINE cx == IF svc.attempt # None /\ svc.ctx = "live" THEN "canceled" ELSE svc.ctx
            at == svc.attempt
            s1 == [svc EXCEPT !.closed = TRUE]
            s2 == [s1 EXCEPT !.timer = None]
            s3 == [s2 EXCEPT !.net = None]
            s4 == [s3 EXCEPT !.ctx = cx]
            s5 == [s4 EXCEPT !.doomed = at]
            x == [IdleThread EXCEPT !.kind = "close", !.step = "unproxy", !.active = TRUE]
<1>2. svc' = [svc EXCEPT !.closed = TRUE, !.timer = None, !.net = None, !.ctx = cx, !.doomed = at]
  BY DEF StartClose
<1>3. cx \in Contexts /\ (at # None => cx # "live") /\ at \in Conns \cup {None} /\ at = svc.attempt
  BY <1>1 DEF Service, Contexts
<1>4. th' = [th EXCEPT !["closer"] = x] BY DEF StartClose
<1>. HIDE DEF cx, at
<1>5. svc' = s5 BY <1>2
<1>6. s1 \in Service BY <1>1, Setters
<1>7. s2 \in Service BY <1>6, Setters
<1>8. s3 \in Service BY <1>7, Setters
<1>9. s4 \in Service BY <1>3, <1>8, Setters
<1>10. svc' \in Service BY <1>3, <1>5, <1>9, Setters
<1>11. /\ svc'.mode = svc.mode /\ svc'.owner = svc.owner /\ svc'.timer = None
       /\ svc'.attempt = svc.attempt /\ svc'.ctx = cx /\ svc'.connected = svc.connected
       /\ svc'.conn = svc.conn /\ svc'.doomed = at /\ svc'.closed
  BY <1>1, <1>2 DEF Service
<1>12. ServiceOK(svc') /\ Locked(svc, svc')
  BY <1>1, <1>3, <1>10, <1>11 DEF ServiceOK, Dooms, Locked
<1>13. x \in Thread /\ x.step = "unproxy" /\ x.active /\ x.next = "idle"
  <2>1. "unproxy" \in Steps BY DEF Steps
  <2>2. x \in Thread BY <2>1, IdleFields DEF Thread
  <2>3. QED BY <2>2, IdleFields DEF Thread
<1>. HIDE DEF x
<1>14. "closer" \in Threads /\ "unproxy" \notin Named /\ "unproxy" \notin AttemptSteps
       /\ "idle" \in Returns /\ "idle" \notin Named
  BY DEF Threads, AttemptSteps, Returns, Named
<1>15. ThreadOK("closer", x) BY <1>13, <1>14 DEF ThreadOK
<1>16. ThreadsInv' /\ th'["closer"].step # "idle"
  <2>1. th' \in [Threads -> Thread] BY <1>1, <1>4, <1>13
  <2>2. th'["closer"] = x /\ \A u \in Threads \ {"closer"} : th'[u] = th[u] BY <1>1, <1>4, <1>14
  <2>3. QED BY <1>1, <1>13, <1>15, <2>1, <2>2 DEF ThreadsInv
<1>17. RestOK BY Rest DEF StartClose
<1>18. QED BY <1>11, <1>12, <1>16, <1>17 DEF IInv, Good, RestOK

\* CancelOperation keeps the inductive invariant.
LEMMA CancelOperationGood == ASSUME IInv, CancelOperation PROVE Good
<1>1. ServiceOK(svc) /\ svc \in Service /\ ThreadsInv BY DEF IInv, ServiceOK
<1>2. svc' \in Service BY <1>1 DEF CancelOperation, Service
<1>3. SvcStep(svc, svc') BY <1>1, <1>2, ServiceKept DEF CancelOperation, Service
<1>4. Moved BY <1>1, MoveNot DEF CancelOperation
<1>5. RestOK BY Rest DEF CancelOperation
<1>6. QED BY <1>3, <1>4, <1>5, Together

\* FinishClose keeps the inductive invariant.
LEMMA FinishCloseGood == ASSUME IInv, FinishClose PROVE Good
<1>0. "closer" \in Threads BY DEF Threads
<1>1. ServiceOK(svc) /\ ThreadsInv /\ th["closer"].step # "idle" BY DEF IInv, FinishClose, At
<1>2. SvcStep(svc, svc')
  <2>. DEFINE s1 == EndAttempt(svc)
  <2>1. svc' = [s1 EXCEPT !.connected = None, !.state = "Disconnected"] BY DEF FinishClose
  <2>2. SvcStep(svc, s1) /\ ServiceOK(s1) /\ "Disconnected" \in States
    BY <1>1, EndAttemptOK DEF SvcStep, States
  <2>. HIDE DEF s1
  <2>3. QED BY <1>1, <2>1, <2>2, NotConnectedOK, SvcTrans
<1>3. Moved
  <2>1. "exit" \in Steps /\ "exit" \notin AttemptSteps /\ "exit" \notin Named BY DEF Steps, AttemptSteps, Named
  <2>2. QED BY <1>0, <1>1, <2>1, MoveGoto DEF FinishClose
<1>4. RestOK BY Rest DEF FinishClose
<1>5. QED BY <1>2, <1>3, <1>4, Together

\* ConsumeNetworkChange keeps the inductive invariant.
LEMMA NetworkChangeGood == ASSUME IInv, NEW e, ConsumeNetworkChange(e) PROVE Good
<1>1. ServiceOK(svc) /\ svc \in Service /\ ThreadsInv /\ e \in Event
  BY DEF IInv, ServiceOK, ConsumeNetworkChange, Consume
<1>2. e.conn \in Conns BY <1>1 DEF Event
<1>3. SvcStep(svc, svc')
  <2>. DEFINE r == [conn |-> e.conn, p |-> svc.connected]
              s1 == [svc EXCEPT !.net = r]
  <2>1. svc' = svc \/ (svc.connected # None
                       /\ svc' = [svc EXCEPT !.net = r, !.state = "Reconnecting"])
    BY DEF ConsumeNetworkChange
  <2>2. svc.connected # None => r \in Repair BY <1>1, <1>2 DEF Service, Repair
  <2>. HIDE DEF r
  <2>3. [svc EXCEPT !.net = r, !.state = "Reconnecting"] = [s1 EXCEPT !.state = "Reconnecting"]
    OBVIOUS
  <2>4. CASE svc.connected # None
    <3>1. s1 \in Service BY <1>1, <2>2, <2>4, Setters
    <3>2. /\ s1.mode = svc.mode /\ s1.owner = svc.owner /\ s1.timer = svc.timer
          /\ s1.profiles = svc.profiles /\ s1.conn = svc.conn /\ s1.closed = svc.closed /\ s1.doomed = svc.doomed /\ s1.attempt = svc.attempt
          /\ s1.ctx = svc.ctx /\ s1.connected = svc.connected
      BY <1>1 DEF Service
    <3>. HIDE DEF s1
    <3>3. SvcStep(svc, s1) BY <1>1, <3>1, <3>2, ServiceKept
    <3>4. ServiceOK(s1) /\ "Reconnecting" \in States BY <3>3 DEF SvcStep, States
    <3>5. SvcStep(s1, [s1 EXCEPT !.state = "Reconnecting"]) BY <3>4, StateOK
    <3>6. QED BY <1>1, <2>1, <2>3, <3>3, <3>5, SvcTrans, SvcSame
  <2>5. QED BY <1>1, <2>1, <2>4, SvcSame
<1>4. Moved BY <1>1, MoveNot DEF ConsumeNetworkChange
<1>5. RestOK
  <2>. DEFINE w == [kind |-> "repair", actor |-> System, p |-> None, conn |-> e.conn]
  <2>1. w \in Work BY <1>2, NoneFacts DEF Work
  <2>2. queue' \subseteq queue \cup {w} /\ events' \subseteq events /\ UNCHANGED <<be, pending>>
    BY DEF ConsumeNetworkChange, Consume
  <2>. HIDE DEF w
  <2>3. QED BY <2>1, <2>2 DEF IInv, RestOK
<1>6. QED BY <1>3, <1>4, <1>5, Together

\* ConsumeDisconnected keeps the inductive invariant.
LEMMA DisconnectedGood == ASSUME IInv, NEW e, ConsumeDisconnected(e) PROVE Good
<1>1. ServiceOK(svc) /\ svc \in Service /\ ThreadsInv BY DEF IInv, ServiceOK
<1>. DEFINE lost == IF svc.connected # None THEN svc.connected ELSE svc.manual
            manual == lost # None /\ lost = svc.manual
            mn == IF manual THEN None ELSE svc.manual
<1>2. lost \in Profiles \cup {None} /\ mn \in Profiles \cup {None} BY <1>1 DEF Service
<1>3. SvcStep(svc, svc')
  <2>1. svc' = svc \/ \E st \in States :
          LET s == [svc EXCEPT !.connected = None, !.state = st, !.socks = FALSE,
                      !.conn = None, !.manual = mn]
          IN svc' = s \/ svc' = ReleaseOwner(s)
    BY DEF ConsumeDisconnected, States
  <2>. HIDE DEF mn
  <2>2. ASSUME NEW st \in States,
               LET s == [svc EXCEPT !.connected = None, !.state = st, !.socks = FALSE,
                           !.conn = None, !.manual = mn]
               IN svc' = s \/ svc' = ReleaseOwner(s)
        PROVE  SvcStep(svc, svc')
    <3>. DEFINE s1 == [svc EXCEPT !.connected = None]
                s2 == [s1 EXCEPT !.state = st]
                s3 == [s2 EXCEPT !.socks = FALSE]
                s4 == [s3 EXCEPT !.conn = None]
                s5 == [s4 EXCEPT !.manual = mn]
    <3>1. s5 = [svc EXCEPT !.connected = None, !.state = st, !.socks = FALSE,
                  !.conn = None, !.manual = mn]
      OBVIOUS
    <3>2. s1 \in Service BY <1>1, Setters
    <3>3. s2 \in Service BY <3>2, Setters
    <3>4. s3 \in Service BY <3>3, Setters
    <3>5. s4 \in Service BY <3>4, Setters
    <3>6. s5 \in Service BY <1>2, <3>5, Setters
    <3>7. /\ s5.mode = svc.mode /\ s5.owner = svc.owner /\ s5.timer = svc.timer
          /\ s5.profiles = svc.profiles /\ s5.conn = None /\ s5.closed = svc.closed /\ s5.doomed = svc.doomed /\ s5.attempt = svc.attempt
          /\ s5.ctx = svc.ctx /\ s5.connected = None
      BY <1>1 DEF Service
    <3>. HIDE DEF s5
    <3>8. SvcStep(svc, s5) BY <1>1, <3>6, <3>7, ServiceKept
    <3>9. ServiceOK(s5) BY <3>8 DEF SvcStep
    <3>10. SvcStep(s5, ReleaseOwner(s5)) BY <3>9, ReleaseOwnerOK
    <3>11. svc' = s5 \/ svc' = ReleaseOwner(s5) BY <2>2, <3>1
    <3>12. QED BY <1>1, <3>8, <3>10, <3>11, SvcTrans
  <2>3. QED BY <1>1, <2>1, <2>2, SvcSame
<1>4. Moved BY <1>1, MoveNot DEF ConsumeDisconnected
<1>5. RestOK
  <2>1. pending' \in {pending, lost, None} BY DEF ConsumeDisconnected
  <2>. HIDE DEF lost
  <2>2. pending' \in Profiles \cup {None} BY <1>2, <2>1 DEF IInv
  <2>3. QED BY <2>2 DEF ConsumeDisconnected, Consume, IInv, RestOK
<1>6. QED BY <1>3, <1>4, <1>5, Together

\* ScheduleReconnect keeps the inductive invariant.
LEMMA ScheduleGood == ASSUME IInv, ScheduleReconnect PROVE Good
<1>1. ServiceOK(svc) /\ ThreadsInv /\ 1 \in 1..MaxTries BY SupervisorAssumption DEF IInv
<1>2. SvcStep(svc, svc') BY <1>1, StartReconnectOK DEF ScheduleReconnect
<1>3. Moved BY <1>1, MoveNot DEF ScheduleReconnect
<1>4. RestOK BY DEF ScheduleReconnect, IInv, RestOK
<1>5. QED BY <1>2, <1>3, <1>4, Together

\* Submit keeps the inductive invariant.
LEMMA SubmitGood ==
    ASSUME IInv, NEW a \in Clients, NEW p \in Profiles \cup {None},
           NEW kind \in AllOps \ {"create", "close"}, Submit(a, kind, p)
    PROVE  Good
<1>1. ServiceOK(svc) /\ ThreadsInv BY DEF IInv
<1>2. SvcStep(svc, svc') BY <1>1, SvcSame DEF Submit
<1>3. Moved BY <1>1, MoveNot DEF Submit
<1>4. RestOK
  <2>1. a \in Actors BY SupervisorAssumption
  <2>2. [kind |-> kind, actor |-> a, p |-> p, conn |-> None] \in Work BY <2>1 DEF Work, AllOps
  <2>3. QED BY <2>2 DEF Submit, IInv, RestOK
<1>5. QED BY <1>2, <1>3, <1>4, Together

\* CreateProfile keeps the inductive invariant.
LEMMA CreateGood ==
    ASSUME IInv, NEW a \in Clients, NEW p \in Profiles, CreateProfile(a, p) PROVE Good
<1>1. ServiceOK(svc) /\ svc \in Service /\ ThreadsInv BY DEF IInv, ServiceOK
<1>2. SvcStep(svc, svc')
  <2>. DEFINE pr == svc.profiles \cup {p}
              un == svc.unborn \ {p}
              cu == IF svc.current = None THEN p ELSE svc.current
              sh == IF svc.current = None THEN p ELSE svc.shown
              s1 == [svc EXCEPT !.profiles = pr]
              s2 == [s1 EXCEPT !.unborn = un]
              s3 == [s2 EXCEPT !.current = cu]
              s4 == [s3 EXCEPT !.shown = sh]
  <2>1. svc' = [svc EXCEPT !.profiles = pr, !.unborn = un, !.current = cu, !.shown = sh]
    BY DEF CreateProfile
  <2>2. pr \in SUBSET Profiles /\ un \in SUBSET Profiles BY <1>1 DEF Service
  <2>3. cu \in Profiles \cup {None} /\ sh \in Profiles \cup {None} BY <1>1 DEF Service
  <2>4. svc.profiles \subseteq pr OBVIOUS
  <2>. HIDE DEF pr, un, cu, sh
  <2>5. svc' = s4 BY <2>1
  <2>6. s1 \in Service BY <1>1, <2>2, Setters
  <2>7. s2 \in Service BY <2>2, <2>6, Setters
  <2>8. s3 \in Service BY <2>3, <2>7, Setters
  <2>9. s4 \in Service BY <2>3, <2>8, Setters
  <2>10. /\ svc'.mode = svc.mode /\ svc'.owner = svc.owner /\ svc'.timer = svc.timer
         /\ svc'.profiles = pr /\ svc'.conn = svc.conn /\ svc'.closed = svc.closed /\ svc'.doomed = svc.doomed /\ svc'.attempt = svc.attempt
         /\ svc'.ctx = svc.ctx /\ svc'.connected = svc.connected
    BY <1>1, <2>1 DEF Service
  <2>11. QED BY <1>1, <2>4, <2>5, <2>9, <2>10 DEF SvcStep, ServiceOK, Dooms
<1>3. Moved BY <1>1, MoveNot DEF CreateProfile
<1>4. RestOK
  <2>. DEFINE w == [kind |-> "select", actor |-> a, p |-> p, conn |-> None]
  <2>1. a \in Actors BY SupervisorAssumption
  <2>2. w \in Work BY <2>1 DEF Work
  <2>3. queue' \subseteq queue \cup {w} /\ UNCHANGED <<be, events, pending>> BY DEF CreateProfile
  <2>. HIDE DEF w
  <2>4. QED BY <2>2, <2>3 DEF IInv, RestOK
<1>5. QED BY <1>2, <1>3, <1>4, Together

\* SelectCreated keeps the inductive invariant.
LEMMA SelectCreatedGood == ASSUME IInv, NEW w \in queue, SelectCreated(w) PROVE Good
<1>1. ServiceOK(svc) /\ svc \in Service /\ ThreadsInv BY DEF IInv, ServiceOK
<1>2. SvcStep(svc, svc')
  <2>. DEFINE p == w.p
              s == [svc EXCEPT !.current = p]
  <2>1. w.p \in Profiles \cup {None} BY DEF IInv, Work
  <2>2. p \in Profiles \cup {None} /\ svc' = s BY <2>1 DEF SelectCreated
  <2>. HIDE DEF p
  <2>3. s \in Service BY <1>1, <2>2, Setters
  <2>4. /\ s.mode = svc.mode /\ s.owner = svc.owner /\ s.timer = svc.timer
        /\ s.profiles = svc.profiles /\ s.conn = svc.conn /\ s.closed = svc.closed /\ s.doomed = svc.doomed
        /\ s.attempt = svc.attempt /\ s.ctx = svc.ctx /\ s.connected = svc.connected
    BY <1>1 DEF Service
  <2>. HIDE DEF s
  <2>5. SvcStep(svc, s) BY <1>1, <2>3, <2>4, ServiceKept
  <2>6. QED BY <2>2, <2>5
<1>3. Moved BY <1>1, MoveNot DEF SelectCreated
<1>4. RestOK BY DEF SelectCreated, IInv, RestOK
<1>5. QED BY <1>2, <1>3, <1>4, Together

\* DeleteDirectly keeps the inductive invariant.
LEMMA DeleteDirectlyGood ==
    ASSUME IInv, NEW a \in Clients, NEW p \in Profiles, DeleteDirectly(a, p) PROVE Good
<1>1. ServiceOK(svc) /\ ThreadsInv /\ a \in Actors BY SupervisorAssumption DEF IInv
<1>2. SvcStep(svc, svc') BY <1>1, SvcSame DEF DeleteDirectly
<1>3. Moved BY <1>1, MoveDelete DEF DeleteDirectly
<1>4. RestOK BY Rest DEF DeleteDirectly
<1>5. QED BY <1>2, <1>3, <1>4, Together

\* Sessions end, networks change, proxies fail.
LEMMA WorldGood ==
    ASSUME IInv, \/ \E c \in be.live, code \in {"transient", "ended"} : SessionEnds(c, code)
                 \/ UnderlayChanges \/ ProxyFails
    PROVE  Good
<1>1. ServiceOK(svc) /\ svc \in Service /\ ThreadsInv /\ be \in Backend BY DEF IInv, ServiceOK
<1>2. UNCHANGED <<svc, th>> BY DEF SessionEnds, UnderlayChanges, ProxyFails
<1>3. SvcStep(svc, svc') BY <1>1, <1>2, SvcSame
<1>4. Moved BY <1>1, <1>2, MoveNot
<1>5. RestOK
  <2>1. ASSUME NEW c \in be.live, NEW code \in {"transient", "ended"}, SessionEnds(c, code)
        PROVE  RestOK
    <3>. DEFINE mon == IF be.monitor = c THEN None ELSE be.monitor
                ev == [type |-> "disconnected", conn |-> c, code |-> code]
    <3>1. be' = [be EXCEPT !.live = be.live \ {c}, !.left = be.left \ {c}, !.monitor = mon]
          /\ events' = events \cup {ev} /\ UNCHANGED <<pending, queue>>
      BY <2>1 DEF SessionEnds, Down
    <3>2. ev \in Event BY <1>1 DEF Event, Backend
    <3>3. mon \in Conns \cup {None} BY <1>1 DEF Backend
    <3>. HIDE DEF mon, ev
    <3>4. be' \in Backend BY <1>1, <3>1, <3>3 DEF Backend
    <3>5. QED BY <3>1, <3>2, <3>4 DEF IInv, RestOK
  <2>2. CASE UnderlayChanges
    <3>. DEFINE ev == [type |-> "network_change", conn |-> be.monitor, code |-> "none"]
    <3>1. be' \in Backend BY <1>1, <2>2 DEF UnderlayChanges, Backend
    <3>2. ev \in Event BY <1>1, <2>2 DEF UnderlayChanges, Event, Backend
    <3>3. events' = events \cup {ev} /\ UNCHANGED <<pending, queue>>
      BY <2>2 DEF UnderlayChanges
    <3>. HIDE DEF ev
    <3>4. QED BY <3>1, <3>2, <3>3 DEF IInv, RestOK
  <2>3. CASE ProxyFails
    <3>. DEFINE w == [kind |-> "proxy", actor |-> System, p |-> svc.connected, conn |-> svc.proxy]
    <3>1. w \in Work BY <1>1, NoneFacts DEF Work, Service
    <3>2. queue' = queue \cup {w} /\ UNCHANGED <<be, events, pending>>
      BY <2>3 DEF ProxyFails
    <3>. HIDE DEF w
    <3>3. QED BY <3>1, <3>2 DEF IInv, RestOK
  <2>4. QED BY <2>1, <2>2, <2>3
<1>6. QED BY <1>3, <1>4, <1>5, Together

-----------------------------------------------------------------------------
(* The theorems.                                                            *)

\* The initial state satisfies the inductive invariant.
LEMMA InvInit == Init => IInv
<1>. SUFFICES ASSUME Init PROVE IInv OBVIOUS
<1>1. svc \in Service /\ svc.timer = None /\ svc.attempt = None /\ svc.doomed = None /\ ~svc.closed
  <2>1. PICK current \in (Profiles \ Unborn) \cup {None},
             machine \in (MachineScope \ Unborn) \cup {None} :
         svc = [profiles |-> Profiles \ Unborn, unborn |-> Unborn, current |-> current,
                shown |-> current, connected |-> None, state |-> "Disconnected",
                attempt |-> None, ctx |-> "live", conn |-> None, owner |-> None,
                mode |-> IF machine = None THEN "user" ELSE "machine", machine |-> machine,
                manual |-> None, timer |-> None, net |-> None, proxy |-> None, socks |-> FALSE,
                closed |-> FALSE, fatal |-> FALSE, doomed |-> None]
    BY DEF Init
  <2>. DEFINE mode == IF machine = None THEN "user" ELSE "machine"
  <2>2. mode \in {"user", "machine"} OBVIOUS
  <2>3. machine \in Profiles \cup {None} /\ current \in Profiles \cup {None}
        /\ Unborn \in SUBSET Profiles /\ "Disconnected" \in States
    BY SupervisorAssumption DEF States
  <2>4. svc = [profiles |-> Profiles \ Unborn, unborn |-> Unborn, current |-> current,
                shown |-> current, connected |-> None, state |-> "Disconnected",
                attempt |-> None, ctx |-> "live", conn |-> None, owner |-> None,
                mode |-> mode, machine |-> machine,
                manual |-> None, timer |-> None, net |-> None, proxy |-> None, socks |-> FALSE,
                closed |-> FALSE, fatal |-> FALSE, doomed |-> None]
    BY <2>1
  <2>. HIDE DEF mode
  <2>5. QED BY <2>2, <2>3, <2>4 DEF Service
<1>2. ServiceOK(svc) BY <1>1 DEF ServiceOK, Dooms
<1>3. be \in Backend /\ events \subseteq Event /\ pending \in Profiles \cup {None}
      /\ queue \subseteq Work
  BY DEF Init, Backend
<1>4. ThreadsInv
  <2>1. th \in [Threads -> Thread] BY IdleFields DEF Init
  <2>2. ASSUME NEW t \in Threads PROVE ThreadOK(t, th[t])
    <3>1. th[t] = IdleThread BY DEF Init
    <3>2. IdleThread.kind = "none" BY DEF IdleThread
    <3>3. QED BY <3>1, <3>2, IdleFields DEF ThreadOK, Returns, AttemptSteps, Named
  <2>3. QED BY <2>1, <2>2 DEF ThreadsInv
<1>5. th["closer"].step = "idle" BY IdleFields DEF Init, Threads
<1>6. QED BY <1>1, <1>2, <1>3, <1>4, <1>5 DEF IInv

\* Every step keeps the inductive invariant, and machine mode its owner.
LEMMA StepGood == IInv /\ [Next]_vars => Good
<1>. SUFFICES ASSUME IInv, [Next]_vars PROVE Good OBVIOUS
<1>1. ASSUME NEW t \in Threads, ThreadStep(t) PROVE Good
  BY <1>1, CutGood, UnproxyGood, DetachGood, TeardownGood, ClearedGood, PrepareGood, CheckGood,
     BeginGood, CallBackendGood, EstablishedGood, DialErrorGood, DialFailedGood, SetProxyGood,
     RollTeardownGood, RolledBackGood, CommitGood, ResumeGood, SetModeGood, DeleteGood,
     FinishRepairGood, FinishRetryGood, FinishOperationGood
     DEF ThreadStep
<1>2. CASE StartWork
  BY <1>2, StartConnectGood, StartOthersGood, StartRepairGood, UpdateActiveGood,
     SelectCreatedGood
     DEF StartWork
<1>3. CASE StartRetry BY <1>3, StartRetryGood
<1>4. CASE StartClose \/ CancelOperation BY <1>4, StartCloseGood, CancelOperationGood
<1>5. CASE FinishClose BY <1>5, FinishCloseGood
<1>6. CASE Consumer BY <1>6, NetworkChangeGood, DisconnectedGood, ScheduleGood DEF Consumer
<1>7. CASE Client BY <1>7, SubmitGood, CreateGood, DeleteDirectlyGood DEF Client
<1>8. CASE Environment BY <1>8, WorldGood, DeadlineGood DEF Environment
<1>9. CASE UNCHANGED vars
  <2>1. ServiceOK(svc) /\ ThreadsInv BY DEF IInv
  <2>2. SvcStep(svc, svc') BY <1>9, <2>1, SvcSame DEF vars
  <2>3. Moved BY <1>9, <2>1, MoveNot DEF vars
  <2>4. RestOK BY <1>9, Rest DEF vars
  <2>5. QED BY <2>2, <2>3, <2>4, Together
<1>10. QED BY <1>1, <1>2, <1>3, <1>4, <1>5, <1>6, <1>7, <1>8, <1>9 DEF Next, Terminated

\* The inductive invariant always holds.
LEMMA Invariance == Spec => []IInv
<1>1. IInv /\ [Next]_vars => IInv' BY StepGood DEF Good
<1>2. QED BY <1>1, InvInit, PTL DEF Spec

\* The type invariant of the supervisor and the backend it drives.
THEOREM TypeCorrect == Spec => []TypeOK
<1>1. IInv => TypeOK BY DEF IInv, TypeOK, ServiceOK, ThreadsInv
<1>2. QED BY <1>1, Invariance, PTL

\* Machine mode stays locked (SetControlMode, releaseIdleOwner, disconnect): while the mode
\* is "machine" no step gives the daemon to anybody but the system, and none takes it from
\* the system, whatever is refused, retried, repaired or lost.
THEOREM MachineAlwaysLocked == Spec => MachineLocked
<1>1. IInv /\ [Next]_vars =>
        [(svc.mode = "machine" /\ svc'.mode = "machine") => svc'.owner \in {svc.owner, System}]_vars
  BY StepGood DEF Good, Locked
<1>2. QED BY <1>1, Invariance, PTL DEF Spec, MachineLocked

\* A retry is only ever scheduled for a profile that exists (startReconnectLocked,
\* DeleteProfile), however a direct delete interleaves with it.
THEOREM TimersAlwaysExist == Spec => []TimerForExisting
<1>1. IInv => TimerForExisting BY DEF IInv, TimerForExisting, ServiceOK
<1>2. QED BY <1>1, Invariance, PTL

\* The attempt Close found running is never committed (Close, connectPreparedProfile), whatever
\* operation, retry or repair it belongs to and whatever begins after it.
THEOREM ClosedAttemptsEnd == Spec => []CloseCancels
<1>1. IInv => CloseCancels BY DEF IInv, CloseCancels, ServiceOK, Dooms
<1>2. QED BY <1>1, Invariance, PTL

-----------------------------------------------------------------------------
(* The sessions.  While the daemon serves, the command goroutine, a direct   *)
(* delete, the event loop and the world outside share them; this invariant   *)
(* says who is responsible for a session that is up.                         *)

\* The steps of an attempt whose session may be up and is not committed.
Up == {"proxy", "commit", "rollback"}

\* The steps at which a goroutine neither dials nor closes a session.
Plain == Steps \ (Up \cup {"call", "dial", "teardown", "rollTeardown"})

\* Of connectedID, activeConnectionID, the backend, the unread events, the command goroutine
\* and the handler of a delete.
Sess(k, cn, b, ev, c, r) ==
    /\ b.connecting # None => c.step = "dial" /\ b.connecting = c.conn
    /\ b.live \subseteq {b.active} \cup c.drop \cup r.drop
    /\ c.step = "dial" => b.active = None
    /\ c.step \in Up => b.active \in {c.conn, None}
    /\ (b.active \in b.live /\ c.step \notin Up) =>
         (b.active \in b.left \/ (k # None /\ cn = b.active))
    /\ \A e \in ev : e.type = "disconnected" =>
         /\ e.conn \notin b.live
         /\ c.step \in {"call", "dial"} => e.conn # c.conn
    /\ c.step \in {"call", "dial"} => c.conn \notin b.live
    /\ c.step \notin {"teardown", "rollTeardown"} => c.drop = {}
    /\ r.step # "teardown" => r.drop = {}
    /\ (c.kind = "retry" /\ c.step # "finish") => k = None
    /\ (c.kind = "retry" /\ c.step = "teardown") => c.drop \cap b.live \subseteq b.left

Sessions == Sess(svc.connected, svc.conn, be, events, th["command"], th["request"])

\* Once Close runs, sessions are its business and the process ends.
SInv == ~svc.closed => Sessions

\* One goroutine moves, to a step, a kind of work and a set of sessions to close.
Moves(t, st, kd, dr) ==
    /\ th'[t].step = st /\ th'[t].kind = kd /\ th'[t].drop = dr
    /\ \A u \in Threads \ {t} : th'[u] = th[u]

\* A step that changes no session, commits or forgets none, and reports none ended.
SameSessions ==
    /\ svc'.connected = svc.connected /\ svc'.conn = svc.conn
    /\ be'.active = be.active /\ be'.connecting = be.connecting
    /\ be'.live = be.live /\ be'.left = be.left
    /\ \A e \in events' : e.type = "disconnected" => e \in events

\* Goto changes the step only.
LEMMA GotoMoves ==
    ASSUME th \in [Threads -> Thread], NEW t \in Threads, NEW a, Goto(t, a)
    PROVE  Moves(t, a, th[t].kind, th[t].drop) /\ th'[t].conn = th[t].conn
<1>1. th[t] \in Thread OBVIOUS
<1>2. th'[t] = [th[t] EXCEPT !.step = a] /\ \A u \in Threads \ {t} : th'[u] = th[u] BY DEF Goto
<1>3. QED BY <1>1, <1>2 DEF Moves, Thread

\* Return changes the step and the error only.
LEMMA ReturnMoves ==
    ASSUME th \in [Threads -> Thread], NEW t \in Threads, NEW e, Return(t, e)
    PROVE  Moves(t, "finish", th[t].kind, th[t].drop)
<1>1. th[t] \in Thread OBVIOUS
<1>2. th'[t] = [th[t] EXCEPT !.step = "finish", !.err = e] /\ \A u \in Threads \ {t} : th'[u] = th[u]
  BY DEF Return
<1>3. QED BY <1>1, <1>2 DEF Moves, Thread

\* Done leaves the goroutine idle.
LEMMA DoneMoves ==
    ASSUME th \in [Threads -> Thread], NEW t \in Threads, Done(t)
    PROVE  Moves(t, "idle", "none", {})
<1>1. th'[t] = IdleThread /\ \A u \in Threads \ {t} : th'[u] = th[u] BY DEF Done
<1>2. IdleThread.step = "idle" /\ IdleThread.kind = "none" /\ IdleThread.drop = {} BY DEF IdleThread
<1>3. QED BY <1>1, <1>2 DEF Moves

\* What a step of a goroutine other than Close's does to the two that matter.
LEMMA Two ==
    ASSUME NEW t \in {"command", "request"}, NEW st, NEW kd, NEW dr, Moves(t, st, kd, dr)
    PROVE  /\ t = "command" => /\ th'["command"].step = st /\ th'["command"].kind = kd
                               /\ th'["command"].drop = dr /\ th'["request"] = th["request"]
           /\ t = "request" => /\ th'["request"].step = st /\ th'["request"].drop = dr
                               /\ th'["command"] = th["command"]
BY DEF Moves, Threads

\* A goroutine that neither dials nor closes a session, before and after, disturbs nothing;
\* a retry begins with nothing connected.
LEMMA Calm ==
    ASSUME Sessions, NEW t \in {"command", "request"}, NEW st \in Plain, NEW kd, NEW dr,
           Moves(t, st, kd, dr), dr \subseteq th[t].drop, th[t].step \in Plain,
           (t = "command" /\ kd = "retry" /\ st # "finish") =>
              (svc.connected = None \/ (th[t].kind = "retry" /\ th[t].step # "finish")),
           SameSessions
    PROVE  Sessions'
<1>. DEFINE c == th["command"]
            r == th["request"]
            c1 == th'["command"]
            r1 == th'["request"]
<1>1. /\ t = "command" => c1.step = st /\ c1.kind = kd /\ c1.drop = dr /\ r1 = r
      /\ t = "request" => r1.step = st /\ r1.drop = dr /\ c1 = c
  BY Two
<1>2. Sess(svc.connected, svc.conn, be, events, c, r) BY DEF Sessions
<1>3. /\ t = "command" => dr \subseteq c.drop /\ c.step \in Plain
      /\ t = "request" => dr \subseteq r.drop /\ r.step \in Plain
      /\ (t = "command" /\ kd = "retry" /\ st # "finish") =>
            (svc.connected = None \/ (c.kind = "retry" /\ c.step # "finish"))
  OBVIOUS
<1>. HIDE DEF c, r, c1, r1
<1>4. Sess(svc'.connected, svc'.conn, be', events', c1, r1)
  BY <1>1, <1>2, <1>3 DEF Sess, SameSessions, Plain, Up
<1>5. QED BY <1>4 DEF Sessions, c1, r1

\* Nor does a step in which the goroutines stay where they are.
LEMMA CalmStill == ASSUME Sessions, UNCHANGED th, SameSessions PROVE Sessions'
BY DEF Sessions, Sess, SameSessions

\* Goto between plain steps.
LEMMA CalmGoto ==
    ASSUME IInv, Sessions, NEW t \in {"command", "request"}, NEW st \in Plain, Goto(t, st),
           th[t].step \in Plain \ {"finish"}, SameSessions
    PROVE  Sessions'
<1>1. t \in Threads /\ th \in [Threads -> Thread] BY DEF Threads, IInv, ThreadsInv
<1>2. Moves(t, st, th[t].kind, th[t].drop) BY <1>1, GotoMoves
<1>3. QED BY <1>2, Calm

\* Return from a plain step.
LEMMA CalmReturn ==
    ASSUME IInv, Sessions, NEW t \in {"command", "request"}, NEW e, Return(t, e),
           th[t].step \in Plain, SameSessions
    PROVE  Sessions'
<1>1. t \in Threads /\ th \in [Threads -> Thread] BY DEF Threads, IInv, ThreadsInv
<1>2. Moves(t, "finish", th[t].kind, th[t].drop) BY <1>1, ReturnMoves
<1>3. "finish" \in Plain BY DEF Plain, Steps, Up
<1>4. QED BY <1>2, <1>3, Calm

\* Done at a plain step.
LEMMA CalmDone ==
    ASSUME IInv, Sessions, NEW t \in {"command", "request"}, Done(t),
           th[t].step \in Plain, SameSessions
    PROVE  Sessions'
<1>1. t \in Threads /\ th \in [Threads -> Thread] BY DEF Threads, IInv, ThreadsInv
<1>2. Moves(t, "idle", "none", {}) BY <1>1, DoneMoves
<1>3. "idle" \in Plain BY DEF Plain, Steps, Up
<1>4. QED BY <1>2, <1>3, Calm

-----------------------------------------------------------------------------
(* The plain steps of disconnect and of an attempt.                          *)

\* What the invariant says of a goroutine that is not Close's.
LEMMA Worker ==
    ASSUME IInv, NEW t \in {"command", "request"}
    PROVE  /\ t \in Threads /\ th \in [Threads -> Thread] /\ svc \in Service /\ be \in Backend
           /\ th[t] \in Thread /\ ThreadOK(t, th[t])
           /\ th[t].step \in AttemptSteps \cup {"resume", "mode", "prepare", "check", "begin"}
                => t = "command"
BY Facts DEF Threads, IInv

\* The first section of disconnect changes no session.
LEMMA CutCalm ==
    ASSUME IInv, Sessions, NEW t \in {"command", "request"}, Cut(t) PROVE Sessions'
<1>1. /\ t \in Threads /\ th \in [Threads -> Thread] /\ svc \in Service
      /\ th[t] \in Thread /\ th[t].step = "cut"
  BY Worker DEF Cut, At
<1>2. SameSessions BY <1>1 DEF Cut, SameSessions, Service
<1>3. Moves(t, "unproxy", th[t].kind, th[t].drop)
  <2>. DEFINE active == ConnectionActive \/ svc.state \in {"Connecting", "Reconnecting"}
  <2>1. th' = [th EXCEPT ![t] = [th[t] EXCEPT !.step = "unproxy", !.active = active]]
    BY <1>1 DEF Cut
  <2>. HIDE DEF active
  <2>2. QED BY <1>1, <2>1 DEF Moves, Thread
<1>4. "unproxy" \in Plain /\ "cut" \in Plain BY DEF Plain, Steps, Up
<1>5. QED BY <1>1, <1>2, <1>3, <1>4, Calm

\* Nor does stopping the proxy.
LEMMA UnproxyCalm ==
    ASSUME IInv, Sessions, NEW t \in {"command", "request"}, Unproxy(t) PROVE Sessions'
<1>1. /\ svc \in Service /\ th[t] \in Thread /\ ThreadOK(t, th[t]) /\ th[t].step = "unproxy"
  BY Worker DEF Unproxy, At
<1>2. SameSessions BY <1>1 DEF Unproxy, SameSessions, Service, StoppedProxy, FailCleanup
<1>3. "unproxy" \in Plain \ {"finish"} /\ "detach" \in Plain /\ th[t].next \in Plain
  BY <1>1 DEF Plain, Steps, Up, ThreadOK, Returns
<1>4. CASE Goto(t, IF th[t].active THEN "detach" ELSE th[t].next)
  <2>. DEFINE a == IF th[t].active THEN "detach" ELSE th[t].next
  <2>1. a \in Plain /\ Goto(t, a) BY <1>3, <1>4
  <2>. HIDE DEF a
  <2>2. QED BY <1>1, <1>2, <1>3, <2>1, CalmGoto
<1>5. CASE Return(t, "other") BY <1>1, <1>2, <1>3, <1>5, CalmReturn
<1>6. QED BY <1>4, <1>5 DEF Unproxy

\* Connect's beginning, and the checks before an attempt, change no session.
LEMMA PrepareCalm ==
    ASSUME IInv, Sessions, NEW t \in {"command", "request"}, Prepare(t) \/ Check(t) PROVE Sessions'
<1>1. /\ svc \in Service /\ th[t].step \in {"prepare", "check"}
      /\ t \in Threads /\ th \in [Threads -> Thread] /\ th[t] \in Thread
  BY Worker DEF Prepare, Check, At
<1>2. SameSessions BY <1>1 DEF Prepare, Check, SameSessions, Service
<1>3. /\ "prepare" \in Plain \ {"finish"} /\ "check" \in Plain \ {"finish"} /\ "begin" \in Plain
      /\ "cut" \in Plain
  BY DEF Plain, Steps, Up
<1>4. CASE \E e \in {"none", "other"} : Return(t, e) BY <1>1, <1>2, <1>3, <1>4, CalmReturn
<1>5. CASE \E st \in {"check", "begin"} : Goto(t, st) BY <1>1, <1>2, <1>3, <1>5, CalmGoto
<1>6. CASE CallDisconnect(t, "begin")
  <2>1. th' = [th EXCEPT ![t] = [th[t] EXCEPT !.step = "cut", !.next = "begin"]]
    BY <1>1, <1>6 DEF CallDisconnect
  <2>2. Moves(t, "cut", th[t].kind, th[t].drop) BY <1>1, <2>1 DEF Moves, Thread
  <2>3. QED BY <1>1, <1>2, <1>3, <2>2, Calm
<1>7. QED BY <1>4, <1>5, <1>6 DEF Prepare, Check

\* An attempt that failed, or was rolled back, is forgotten; its session is gone.
LEMMA FailedCalm ==
    ASSUME IInv, Sessions, NEW t \in {"command", "request"}, DialFailed(t) \/ RolledBack(t)
    PROVE  Sessions'
<1>1. svc \in Service /\ th[t].step \in {"dialFailed", "rolledBack"}
  BY Worker DEF DialFailed, RolledBack, At
<1>2. SameSessions BY <1>1 DEF DialFailed, RolledBack, SameSessions, Service, EndAttempt
<1>3. /\ "dialFailed" \in Plain \ {"finish"} /\ "rolledBack" \in Plain \ {"finish"} /\ "finish" \in Plain
  BY DEF Plain, Steps, Up
<1>4. CASE Return(t, "other") BY <1>1, <1>2, <1>3, <1>4, CalmReturn
<1>5. CASE Goto(t, "finish") BY <1>1, <1>2, <1>3, <1>5, CalmGoto
<1>6. QED BY <1>4, <1>5 DEF DialFailed, RolledBack

\* What a repair, SetControlMode and DeleteProfile do besides changes no session.
LEMMA BetweenCalm ==
    ASSUME IInv, Sessions, NEW t \in {"command", "request"}, Resume(t) \/ SetMode(t) \/ Delete(t)
    PROVE  Sessions'
<1>1. svc \in Service /\ th[t].step \in {"resume", "mode", "delete"}
  BY Worker DEF Resume, SetMode, Delete, At
<1>2. SameSessions
  <2>1. CASE Resume(t) BY <2>1 DEF Resume, SameSessions
  <2>2. CASE SetMode(t) BY <1>1, <2>2 DEF SetMode, SameSessions, Service
  <2>3. CASE Delete(t) BY <1>1, <2>3 DEF Delete, SameSessions, Service
  <2>4. QED BY <2>1, <2>2, <2>3
<1>3. /\ "resume" \in Plain \ {"finish"} /\ "mode" \in Plain \ {"finish"} /\ "delete" \in Plain \ {"finish"}
      /\ "check" \in Plain /\ "prepare" \in Plain
  BY DEF Plain, Steps, Up
<1>4. CASE Done(t) BY <1>1, <1>2, <1>3, <1>4, CalmDone
<1>5. CASE \E st \in {"check", "prepare"} : Goto(t, st) BY <1>1, <1>2, <1>3, <1>5, CalmGoto
<1>6. QED BY <1>4, <1>5 DEF Resume, SetMode, Delete

\* The end of a repair, a retry or an operation changes no session.
LEMMA FinishCalm ==
    ASSUME IInv, Sessions, NEW t \in {"command", "request"},
           FinishRepair(t) \/ FinishRetry(t) \/ FinishOperation(t)
    PROVE  Sessions'
<1>1. svc \in Service /\ th[t].step = "finish" /\ Done(t) /\ UNCHANGED <<be, events>>
  BY Worker DEF FinishRepair, FinishRetry, FinishOperation, At
<1>2. \A s \in Service : \A p, n : /\ StartReconnect(s, p, n).connected = s.connected
                                   /\ StartReconnect(s, p, n).conn = s.conn
  BY DEF StartReconnect, Service
<1>3. \A s \in Service : ReleaseOwner(s).connected = s.connected /\ ReleaseOwner(s).conn = s.conn
  BY DEF ReleaseOwner, Service
<1>4. svc'.connected = svc.connected /\ svc'.conn = svc.conn
  <2>1. CASE FinishRepair(t)
    <3>. DEFINE s == [svc EXCEPT !.net = None]
                failed == [s EXCEPT !.state = "Error"]
    <3>1. svc' \in {svc, s, StartReconnect(failed, th[t].p, 1), ReleaseOwner(failed)}
      BY <2>1 DEF FinishRepair
    <3>2. s \in Service BY <1>1, Setters
    <3>3. failed \in Service BY <3>2, Setters DEF States
    <3>4. /\ s.connected = svc.connected /\ s.conn = svc.conn
          /\ failed.connected = svc.connected /\ failed.conn = svc.conn
      BY <1>1, <3>2 DEF Service
    <3>. HIDE DEF s, failed
    <3>5. QED BY <1>2, <1>3, <3>1, <3>2, <3>3, <3>4
  <2>2. CASE FinishRetry(t)
    <3>. DEFINE s == [svc EXCEPT !.timer = None]
                s1 == [svc EXCEPT !.state = "Error"]
                failed == [s1 EXCEPT !.timer = None]
    <3>0. [svc EXCEPT !.state = "Error", !.timer = None] = failed OBVIOUS
    <3>1. svc' \in {s, StartReconnect(svc, th[t].p, th[t].n + 1), ReleaseOwner(failed)}
      BY <2>2, <3>0 DEF FinishRetry
    <3>2. s \in Service /\ s1 \in Service BY <1>1, Setters DEF States
    <3>3. failed \in Service BY <3>2, Setters
    <3>4. /\ s.connected = svc.connected /\ s.conn = svc.conn
          /\ failed.connected = svc.connected /\ failed.conn = svc.conn
      BY <1>1, <3>2 DEF Service
    <3>. HIDE DEF s, failed, s1
    <3>5. QED BY <1>1, <1>2, <1>3, <3>1, <3>2, <3>3, <3>4
  <2>3. CASE FinishOperation(t)
    <3>1. svc' \in {svc, ReleaseOwner(svc), StartReconnect(svc, th[t].p, 1)}
      BY <2>3 DEF FinishOperation, ReleasedIdleOwner
    <3>2. QED BY <1>1, <1>2, <1>3, <3>1
  <2>4. QED BY <2>1, <2>2, <2>3
<1>5. SameSessions BY <1>1, <1>4 DEF SameSessions
<1>6. "finish" \in Plain BY DEF Plain, Steps, Up
<1>7. QED BY <1>1, <1>5, <1>6, CalmDone

-----------------------------------------------------------------------------
(* The steps that open, take over, close, commit or give up a session.       *)

\* Backend.Disconnect takes over what there is: nothing is left without somebody to close it,
\* and a retry takes over only what was given up.
LEMMA DetachSessions ==
    ASSUME IInv, Sessions, NEW t \in {"command", "request"}, Detach(t) PROVE Sessions'
<1>. DEFINE c == th["command"]
            r == th["request"]
            c1 == th'["command"]
            r1 == th'["request"]
            d == {be.active, be.connecting} \ {None}
            st == IF th[t].step = "detach" THEN "teardown" ELSE "rollTeardown"
<1>1. /\ t \in Threads /\ th \in [Threads -> Thread] /\ th[t] \in Thread /\ be \in Backend
      /\ th[t].step \in {"detach", "rollback"} /\ (t = "request" => th[t].step = "detach")
  BY Worker DEF Detach, At, AttemptSteps
<1>2. Moves(t, st, th[t].kind, d) /\ th'[t].conn = th[t].conn
  <2>1. th' = [th EXCEPT ![t] = [th[t] EXCEPT !.drop = d, !.active = FALSE, !.step = st]]
    BY <1>1 DEF Detach
  <2>. HIDE DEF d, st
  <2>2. QED BY <1>1, <2>1 DEF Moves, Thread
<1>3. /\ t = "command" => /\ c1.step = st /\ c1.kind = c.kind /\ c1.drop = d /\ r1 = r
                          /\ c1.conn = c.conn /\ c.step \in {"detach", "rollback"}
                          /\ st = IF c.step = "detach" THEN "teardown" ELSE "rollTeardown"
      /\ t = "request" => r1.step = st /\ r1.drop = d /\ c1 = c /\ st = "teardown" /\ r.step = "detach"
  BY <1>1, <1>2, Two
<1>4. /\ be'.active = None /\ be'.connecting = None /\ be'.live = be.live /\ be'.left = be.left
      /\ svc' = svc /\ events' = events /\ None \notin be.live
  BY <1>1, NoneFacts DEF Detach, Backend
<1>5. Sess(svc.connected, svc.conn, be, events, c, r) BY DEF Sessions
<1>. HIDE DEF c, r, c1, r1, st
<1>6. Sess(svc'.connected, svc'.conn, be', events', c1, r1)
  BY <1>3, <1>4, <1>5 DEF Sess, Up
<1>7. QED BY <1>6 DEF Sessions, c1, r1

\* Closing what was taken over, for a disconnect or a roll-back, ends those sessions and
\* reports them.
LEMMA ClosingSessions ==
    ASSUME IInv, Sessions, NEW t \in {"command", "request"}, NEW st \in Plain,
           Moves(t, st, th[t].kind, {}), th[t].step \in {"teardown", "rollTeardown"},
           t = "request" => th[t].step = "teardown",
           CloseLocally(th[t].drop), svc'.connected = svc.connected, svc'.conn = svc.conn
    PROVE  Sessions'
<1>. DEFINE c == th["command"]
            r == th["request"]
            c1 == th'["command"]
            r1 == th'["request"]
            d == th[t].drop
<1>1. /\ t = "command" => /\ c1.step = st /\ c1.kind = c.kind /\ c1.drop = {} /\ r1 = r
                          /\ d = c.drop /\ c.step \in {"teardown", "rollTeardown"}
      /\ t = "request" => r1.step = st /\ r1.drop = {} /\ c1 = c /\ d = r.drop /\ r.step = "teardown"
  BY Two
<1>2. be \in Backend BY DEF IInv
<1>3. /\ be'.active = be.active /\ be'.connecting = be.connecting
      /\ be'.live = be.live \ d /\ be'.left = be.left \ d
  BY <1>2 DEF CloseLocally, Down, Backend
<1>4. \A e \in events' : e \in events \/ e.conn \in d \cap be.live
  BY DEF CloseLocally, Reports
<1>5. Sess(svc.connected, svc.conn, be, events, c, r) BY DEF Sessions
<1>. HIDE DEF c, r, c1, r1, d
<1>6. Sess(svc'.connected, svc'.conn, be', events', c1, r1)
  BY <1>1, <1>3, <1>4, <1>5 DEF Sess, Up, Plain
<1>7. QED BY <1>6 DEF Sessions, c1, r1

\* Backend.Disconnect closes what it took over.
LEMMA TeardownSessions ==
    ASSUME IInv, Sessions, NEW t \in {"command", "request"}, Teardown(t) PROVE Sessions'
<1>1. /\ t \in Threads /\ th \in [Threads -> Thread] /\ th[t] \in Thread /\ svc \in Service
      /\ th[t].step = "teardown" /\ CloseLocally(th[t].drop)
  BY Worker DEF Teardown, At
<1>2. svc'.connected = svc.connected /\ svc'.conn = svc.conn
  BY <1>1 DEF Teardown, FailCleanup, Service
<1>3. "cleared" \in Plain /\ "finish" \in Plain BY DEF Plain, Steps, Up
<1>4. Moves(t, "cleared", th[t].kind, {}) \/ Moves(t, "finish", th[t].kind, {})
  BY <1>1 DEF Teardown, Moves, Thread
<1>5. QED BY <1>1, <1>2, <1>3, <1>4, ClosingSessions

\* The roll-back of an attempt closes what it took over.
LEMMA RollTeardownSessions ==
    ASSUME IInv, Sessions, NEW t \in {"command", "request"}, RollTeardown(t) PROVE Sessions'
<1>1. /\ t \in Threads /\ th \in [Threads -> Thread] /\ th[t] \in Thread /\ svc \in Service
      /\ th[t].step = "rollTeardown" /\ CloseLocally(th[t].drop) /\ t = "command"
  BY Worker DEF RollTeardown, At, AttemptSteps
<1>2. svc'.connected = svc.connected /\ svc'.conn = svc.conn
  BY <1>1 DEF RollTeardown, FailCleanup, EndAttempt, Service
<1>3. "rolledBack" \in Plain /\ "finish" \in Plain BY DEF Plain, Steps, Up
<1>4. Moves(t, "rolledBack", th[t].kind, {}) \/ Moves(t, "finish", th[t].kind, {})
  BY <1>1 DEF RollTeardown, Moves, Thread
<1>5. QED BY <1>1, <1>2, <1>3, <1>4, ClosingSessions

\* The last section of disconnect: a session that was committed meanwhile is given up.
LEMMA ClearedSessions ==
    ASSUME IInv, Sessions, NEW t \in {"command", "request"}, Cleared(t) PROVE Sessions'
<1>. DEFINE c == th["command"]
            r == th["request"]
            c1 == th'["command"]
            r1 == th'["request"]
            st == th[t].next
            g == IF svc.connected = None THEN None ELSE svc.conn
<1>1. /\ t \in Threads /\ th \in [Threads -> Thread] /\ th[t] \in Thread /\ ThreadOK(t, th[t])
      /\ th[t].step = "cleared" /\ be \in Backend /\ svc \in Service
  BY Worker DEF Cleared, At
<1>2. Moves(t, st, th[t].kind, th[t].drop) BY <1>1, GotoMoves DEF Cleared
<1>3. /\ t = "command" => /\ c1.step = st /\ c1.kind = c.kind /\ c1.drop = c.drop /\ r1 = r
                          /\ c.step = "cleared"
      /\ t = "request" => r1.step = st /\ r1.drop = r.drop /\ c1 = c /\ r.step = "cleared"
  BY <1>1, <1>2, Two
<1>4. st \in Plain BY <1>1 DEF ThreadOK, Returns, Plain, Steps, Up
<1>5. /\ be'.active = be.active /\ be'.connecting = be.connecting /\ be'.live = be.live
      /\ be'.left = be.left \cup ({g} \cap {be.active} \cap be.live) /\ events' = events
  BY <1>1 DEF Cleared, GiveUp, Backend
<1>6. svc'.connected = None
  BY <1>1 DEF Cleared, ReleaseOwner, EndAttempt, Service
<1>7. Sess(svc.connected, svc.conn, be, events, c, r) BY DEF Sessions
<1>. HIDE DEF c, r, c1, r1, st
<1>8. Sess(svc'.connected, svc'.conn, be', events', c1, r1)
  BY <1>3, <1>4, <1>5, <1>6, <1>7 DEF Sess, Up, Plain
<1>9. QED BY <1>8 DEF Sessions, c1, r1

\* An attempt begins with an identifier nothing refers to.
LEMMA BeginSessions ==
    ASSUME IInv, Sessions, NEW t \in {"command", "request"}, Begin(t) PROVE Sessions'
<1>1. /\ t \in Threads /\ th \in [Threads -> Thread] /\ th[t] \in Thread /\ svc \in Service
      /\ th[t].step = "begin" /\ t = "command" /\ be' = be /\ events' = events
  BY Worker DEF Begin, At
<1>2. CASE /\ \E e \in {"none", "other"} : Return(t, e)
           /\ UNCHANGED svc
  <2>1. SameSessions BY <1>1, <1>2 DEF SameSessions
  <2>2. "begin" \in Plain BY DEF Plain, Steps, Up
  <2>3. QED BY <1>1, <1>2, <2>1, <2>2, CalmReturn
<1>3. ASSUME NEW x \in FreshConns,
             svc' = [svc EXCEPT
                   !.state = IF Automatic(t) THEN "Reconnecting" ELSE "Connecting",
                   !.current = th[t].p, !.shown = th[t].p, !.attempt = x, !.ctx = "live",
                   !.doomed = IF @ = x THEN None ELSE @],
             th' = [th EXCEPT ![t].step = "call", ![t].conn = x]
      PROVE Sessions'
  <2>. DEFINE c == th["command"]
              r == th["request"]
              c1 == th'["command"]
              r1 == th'["request"]
  <2>1. /\ c1.step = "call" /\ c1.kind = c.kind /\ c1.drop = c.drop /\ c1.conn = x
        /\ r1 = r /\ c.step = "begin"
    BY <1>1, <1>3 DEF Thread, Threads
  <2>2. x \notin be.live /\ \A e \in events : e.conn # x BY DEF FreshConns
  <2>3. svc'.connected = svc.connected /\ svc'.conn = svc.conn BY <1>1, <1>3 DEF Service
  <2>4. Sess(svc.connected, svc.conn, be, events, c, r) BY DEF Sessions
  <2>. HIDE DEF c, r, c1, r1
  <2>5. Sess(svc'.connected, svc'.conn, be', events', c1, r1)
    BY <1>1, <2>1, <2>2, <2>3, <2>4 DEF Sess, Up
  <2>6. QED BY <2>5 DEF Sessions, c1, r1
<1>4. QED BY <1>2, <1>3 DEF Begin

\* Backend.Connect closes a connection left over before it dials.
LEMMA CallBackendSessions ==
    ASSUME IInv, Sessions, NEW t \in {"command", "request"}, CallBackend(t) PROVE Sessions'
<1>. DEFINE c == th["command"]
            r == th["request"]
            c1 == th'["command"]
            r1 == th'["request"]
            d == {be.active} \ {None}
<1>1. /\ t \in Threads /\ th \in [Threads -> Thread] /\ th[t] \in Thread /\ be \in Backend
      /\ th[t].step = "call" /\ t = "command" /\ svc' = svc /\ c.step = "call"
  BY Worker DEF CallBackend, At, AttemptSteps
<1>2. Sess(svc.connected, svc.conn, be, events, c, r) BY DEF Sessions
<1>3. be.connecting = None BY <1>1, <1>2 DEF Sess
<1>4. PICK dial \in BOOLEAN :
        /\ be' = [Down(be, d) EXCEPT
                    !.active = None, !.connecting = IF dial THEN th[t].conn ELSE None,
                    !.monitor = IF @ \in d THEN None ELSE @]
        /\ events' = events \cup Reports(d)
        /\ th' = [th EXCEPT ![t].step = IF dial THEN "dial" ELSE "dialFailed",
                            ![t].err = IF dial THEN "none" ELSE "other"]
  <2>1. PICK closed \in BOOLEAN :
          LET stale == {be.active} \ {None}
              dial == /\ be.connecting = None /\ closed
                      /\ svc.attempt = th[t].conn /\ svc.ctx = "live"
          IN /\ be' = IF be.connecting # None THEN be
                      ELSE [Down(be, stale) EXCEPT
                              !.active = None, !.connecting = IF dial THEN th[t].conn ELSE None,
                              !.monitor = IF @ \in stale THEN None ELSE @]
             /\ events' = IF be.connecting # None THEN events ELSE events \cup Reports(stale)
             /\ th' = [th EXCEPT ![t].step = IF dial THEN "dial" ELSE "dialFailed",
                                 ![t].err = IF dial THEN "none" ELSE "other"]
    BY DEF CallBackend
  <2>. DEFINE dial == /\ be.connecting = None /\ closed
                      /\ svc.attempt = th[t].conn /\ svc.ctx = "live"
  <2>2. dial \in BOOLEAN OBVIOUS
  <2>3. /\ be' = [Down(be, d) EXCEPT
                    !.active = None, !.connecting = IF dial THEN th[t].conn ELSE None,
                    !.monitor = IF @ \in d THEN None ELSE @]
        /\ events' = events \cup Reports(d)
        /\ th' = [th EXCEPT ![t].step = IF dial THEN "dial" ELSE "dialFailed",
                            ![t].err = IF dial THEN "none" ELSE "other"]
    BY <1>3, <2>1
  <2>. HIDE DEF dial
  <2>4. QED BY <2>2, <2>3
<1>5. /\ c1.step = (IF dial THEN "dial" ELSE "dialFailed") /\ c1.kind = c.kind
      /\ c1.drop = c.drop /\ c1.conn = c.conn /\ r1 = r
  BY <1>1, <1>4 DEF Thread, Threads
<1>6. /\ be'.active = None /\ be'.connecting = IF dial THEN c.conn ELSE None
      /\ be'.live = be.live \ d /\ be'.left = be.left \ d /\ None \notin be.live
  BY <1>1, <1>4, NoneFacts DEF Down, Backend
<1>7. \A e \in events' : e \in events \/ e.conn \in d \cap be.live BY <1>4 DEF Reports
<1>. HIDE DEF c, r, c1, r1
<1>8. Sess(svc'.connected, svc'.conn, be', events', c1, r1)
  BY <1>1, <1>2, <1>3, <1>5, <1>6, <1>7 DEF Sess, Up
<1>9. QED BY <1>8 DEF Sessions, c1, r1

\* The session comes up and is the attempt's.
LEMMA EstablishedSessions ==
    ASSUME IInv, Sessions, NEW t \in {"command", "request"}, Established(t) PROVE Sessions'
<1>. DEFINE c == th["command"]
            r == th["request"]
            c1 == th'["command"]
            r1 == th'["request"]
<1>1. /\ t \in Threads /\ th \in [Threads -> Thread] /\ th[t] \in Thread /\ be \in Backend
      /\ t = "command" /\ svc' = svc /\ events' = events /\ c.step = "dial"
  BY Worker DEF Established, At, AttemptSteps
<1>2. /\ c1.step = "proxy" /\ c1.kind = c.kind /\ c1.drop = c.drop /\ c1.conn = c.conn /\ r1 = r
  BY <1>1, GotoMoves, Two DEF Established, Moves
<1>3. /\ be'.active = c.conn /\ be'.connecting = None /\ be'.live = be.live \cup {c.conn}
      /\ be'.left = be.left /\ None \notin be.live
  BY <1>1, NoneFacts DEF Established, Backend
<1>4. Sess(svc.connected, svc.conn, be, events, c, r) BY DEF Sessions
<1>. HIDE DEF c, r, c1, r1
<1>5. Sess(svc'.connected, svc'.conn, be', events', c1, r1)
  BY <1>1, <1>2, <1>3, <1>4 DEF Sess, Up
<1>6. QED BY <1>5 DEF Sessions, c1, r1

\* The dial fails.
LEMMA DialErrorSessions ==
    ASSUME IInv, Sessions, NEW t \in {"command", "request"}, DialError(t) PROVE Sessions'
<1>. DEFINE c == th["command"]
            r == th["request"]
            c1 == th'["command"]
            r1 == th'["request"]
<1>1. /\ t \in Threads /\ th \in [Threads -> Thread] /\ th[t] \in Thread /\ be \in Backend
      /\ t = "command" /\ svc' = svc /\ events' = events /\ c.step = "dial"
  BY Worker DEF DialError, At, AttemptSteps
<1>2. /\ c1.step = "dialFailed" /\ c1.kind = c.kind /\ c1.drop = c.drop /\ r1 = r
  BY <1>1 DEF DialError, Thread, Threads
<1>3. /\ be'.active = be.active /\ be'.connecting = (IF be.connecting = c.conn THEN None ELSE be.connecting)
      /\ be'.live = be.live /\ be'.left = be.left /\ None \notin be.live
  BY <1>1, NoneFacts DEF DialError, Backend
<1>4. Sess(svc.connected, svc.conn, be, events, c, r) BY DEF Sessions
<1>. HIDE DEF c, r, c1, r1
<1>5. Sess(svc'.connected, svc'.conn, be', events', c1, r1)
  BY <1>1, <1>2, <1>3, <1>4 DEF Sess, Up
<1>6. QED BY <1>5 DEF Sessions, c1, r1

\* The proxy starts, stops or fails: the session is the attempt's still.
LEMMA SetProxySessions ==
    ASSUME IInv, Sessions, NEW t \in {"command", "request"}, SetProxy(t) PROVE Sessions'
<1>. DEFINE c == th["command"]
            r == th["request"]
            c1 == th'["command"]
            r1 == th'["request"]
<1>1. /\ t \in Threads /\ th \in [Threads -> Thread] /\ th[t] \in Thread /\ svc \in Service
      /\ t = "command" /\ be' = be /\ events' = events /\ c.step = "proxy"
  BY Worker DEF SetProxy, At, AttemptSteps
<1>2. PICK st \in {"commit", "rollback"} : Goto(t, st) BY DEF SetProxy
<1>3. c1.step = st /\ c1.kind = c.kind /\ c1.drop = c.drop /\ c1.conn = c.conn /\ r1 = r
  BY <1>1, <1>2, GotoMoves, Two DEF Moves
<1>4. svc'.connected = svc.connected /\ svc'.conn = svc.conn
  BY <1>1 DEF SetProxy, StoppedProxy, Service
<1>5. Sess(svc.connected, svc.conn, be, events, c, r) BY DEF Sessions
<1>. HIDE DEF c, r, c1, r1
<1>6. Sess(svc'.connected, svc'.conn, be', events', c1, r1)
  BY <1>1, <1>2, <1>3, <1>4, <1>5 DEF Sess, Up
<1>7. QED BY <1>6 DEF Sessions, c1, r1

\* Only the current attempt becomes the connection; any other gives its session up.
LEMMA CommitSessions ==
    ASSUME IInv, Sessions, NEW t \in {"command", "request"}, Commit(t) PROVE Sessions'
<1>. DEFINE c == th["command"]
            r == th["request"]
            c1 == th'["command"]
            r1 == th'["request"]
<1>1. /\ t \in Threads /\ th \in [Threads -> Thread] /\ th[t] \in Thread /\ svc \in Service
      /\ be \in Backend /\ t = "command" /\ events' = events /\ c.step = "commit" /\ ThreadOK(t, c)
  BY Worker DEF Commit, At, AttemptSteps
<1>2. c.p # None BY <1>1 DEF ThreadOK, Named, AttemptSteps
<1>3. \E e \in {"none", "other"} : Return(t, e) BY DEF Commit
<1>4. c1.step = "finish" /\ c1.kind = c.kind /\ c1.drop = c.drop /\ r1 = r
  BY <1>1, <1>3, ReturnMoves, Two DEF Moves
<1>5. \/ svc'.connected = c.p /\ svc'.conn = c.conn /\ be' = be
      \/ /\ svc' = svc /\ be'.active = be.active /\ be'.connecting = be.connecting
         /\ be'.live = be.live /\ be'.left = be.left \cup ({c.conn} \cap {be.active} \cap be.live)
  BY <1>1 DEF Commit, EndAttempt, GiveUp, Service, Backend
<1>6. Sess(svc.connected, svc.conn, be, events, c, r) BY DEF Sessions
<1>7. None \notin be.live BY <1>1, NoneFacts DEF Backend
<1>. HIDE DEF c, r, c1, r1
<1>8. Sess(svc'.connected, svc'.conn, be', events', c1, r1)
  BY <1>1, <1>2, <1>4, <1>5, <1>6, <1>7 DEF Sess, Up
<1>9. QED BY <1>8 DEF Sessions, c1, r1

\* The end of a session is applied: it was the connection's, which is not up any more.
LEMMA DisconnectedSessions ==
    ASSUME IInv, Sessions, NEW e, ConsumeDisconnected(e) PROVE Sessions'
<1>1. /\ svc \in Service /\ be \in Backend /\ th' = th /\ be' = be /\ events' \subseteq events
      /\ e \in events /\ e.type = "disconnected"
  BY DEF ConsumeDisconnected, Consume, IInv, ServiceOK
<1>2. CASE Stale(e)
  <2>1. SameSessions BY <1>1, <1>2 DEF ConsumeDisconnected, SameSessions
  <2>2. QED BY <1>1, <2>1, CalmStill
<1>3. CASE ~Stale(e)
  <2>1. svc'.connected = None
    <3>. DEFINE manual == /\ (IF svc.connected # None THEN svc.connected ELSE svc.manual) # None
                          /\ (IF svc.connected # None THEN svc.connected ELSE svc.manual) = svc.manual
    <3>1. PICK state \in States :
            LET s == [svc EXCEPT !.connected = None, !.state = state,
                        !.socks = FALSE, !.conn = None,
                        !.manual = IF manual THEN None ELSE @]
            IN svc' \in {s, ReleaseOwner(s)}
      BY <1>3 DEF ConsumeDisconnected, States
    <3>. HIDE DEF manual
    <3>2. QED BY <1>1, <3>1 DEF ReleaseOwner, Service
  <2>2. svc.conn = None \/ e.conn = svc.conn BY <1>3 DEF Stale
  <2>3. None \notin be.live BY <1>1, NoneFacts DEF Backend
  <2>4. QED BY <1>1, <2>1, <2>2, <2>3 DEF Sessions, Sess
<1>4. QED BY <1>2, <1>3

\* A session that ends by itself is reported.
LEMMA SessionEndsSessions ==
    ASSUME IInv, Sessions, NEW x, NEW code, SessionEnds(x, code) PROVE Sessions'
<1>1. be \in Backend /\ svc' = svc /\ th' = th /\ x \in be.live BY DEF SessionEnds, IInv
<1>2. /\ be'.active = be.active /\ be'.connecting = be.connecting
      /\ be'.live = be.live \ {x} /\ be'.left = be.left \ {x}
  BY <1>1 DEF SessionEnds, Down, Backend
<1>3. \A e \in events' : e \in events \/ e.conn = x BY DEF SessionEnds
<1>4. QED BY <1>1, <1>2, <1>3 DEF Sessions, Sess

-----------------------------------------------------------------------------
(* What waits is taken, and what happens beside the goroutines.              *)

\* A goroutine that was idle begins something that is not a retry.
LEMMA CalmBegins ==
    ASSUME Sessions, NEW t \in {"command", "request"}, NEW st \in Plain, NEW kd, kd # "retry",
           Moves(t, st, kd, {}), th[t].step = "idle", SameSessions
    PROVE  Sessions'
<1>1. "idle" \in Plain BY DEF Plain, Steps, Up
<1>2. {} \subseteq th[t].drop OBVIOUS
<1>3. QED BY <1>1, <1>2, Calm

\* Run gives the idle command goroutine its work.
LEMMA RunMoves ==
    ASSUME th \in [Threads -> Thread], NEW w, NEW st, NEW nx, Run(w, st, nx)
    PROVE  Moves("command", st, w.kind, {})
<1>. DEFINE k == w.kind
            x == [IdleThread EXCEPT !.kind = k, !.actor = w.actor, !.p = w.p, !.rep = w.conn,
                    !.step = st, !.next = nx]
<1>1. th' = [th EXCEPT !["command"] = x] BY DEF Run
<1>. HIDE DEF k
<1>2. x.step = st /\ x.kind = k /\ x.drop = {} BY DEF IdleThread
<1>. HIDE DEF x
<1>3. QED BY <1>1, <1>2 DEF Moves, Threads, k

\* EnterDelete gives an idle goroutine a delete.
LEMMA DeleteMoves ==
    ASSUME th \in [Threads -> Thread], NEW t \in Threads, NEW a, NEW p, EnterDelete(t, a, p)
    PROVE  \E st \in {"cut", "delete"} : Moves(t, st, "delete", {})
<1>. DEFINE st == IF ProfileIsActive(p) THEN "cut" ELSE "delete"
            x == [IdleThread EXCEPT !.kind = "delete", !.actor = a, !.p = p, !.next = "delete",
                    !.step = st]
<1>1. th' = [th EXCEPT ![t] = x] BY DEF EnterDelete
<1>2. st \in {"cut", "delete"} OBVIOUS
<1>. HIDE DEF st
<1>3. x.step = st /\ x.kind = "delete" /\ x.drop = {} BY DEF IdleThread
<1>. HIDE DEF x
<1>4. Moves(t, st, "delete", {}) BY <1>1, <1>3 DEF Moves
<1>5. QED BY <1>2, <1>4

\* The plain steps an operation begins at.
LEMMA StartSteps == \A st \in {"cut", "mode", "prepare", "delete", "finish"} : st \in Plain
BY DEF Plain, Steps, Up

\* Operations, repairs and proxy failures begin without touching a session.
LEMMA StartCalm ==
    ASSUME IInv, Sessions, NEW w \in queue,
           \/ StartConnect(w) \/ StartDisconnect(w) \/ StartControlMode(w) \/ UpdateActive(w)
           \/ StartReapply(w) \/ StartDelete(w) \/ StartRepair(w) \/ StartProxyFailure(w)
           \/ SelectCreated(w)
    PROVE  Sessions'
<1>1. /\ svc \in Service /\ th \in [Threads -> Thread] /\ w \in Work /\ w.kind # "retry"
  BY DEF IInv, ServiceOK, ThreadsInv, Work
<1>2. SameSessions
  BY <1>1 DEF StartConnect, StartDisconnect, StartControlMode, UpdateActive, StartReapply, StartDelete,
     StartRepair, StartProxyFailure, SelectCreated, SameSessions, Service
<1>3. UNCHANGED th \/ th["command"].step = "idle"
  BY DEF StartConnect, StartDisconnect, StartControlMode, UpdateActive, StartReapply, StartDelete,
     StartRepair, StartProxyFailure, SelectCreated, Take, At
<1>4. \/ UNCHANGED th
      \/ \E st \in {"cut", "mode", "prepare", "finish", "delete"} :
           \E kd : kd # "retry" /\ Moves("command", st, kd, {})
  <2>1. CASE StartConnect(w) \/ StartDisconnect(w) \/ StartControlMode(w) \/ StartReapply(w)
             \/ StartProxyFailure(w)
    <3>1. UNCHANGED th \/ \E st \in {"cut", "mode", "prepare"}, nx \in Steps : Run(w, st, nx)
      BY <2>1 DEF StartConnect, StartDisconnect, StartControlMode, StartReapply, StartProxyFailure, Steps
    <3>2. QED BY <1>1, <3>1, RunMoves
  <2>2. CASE UpdateActive(w) \/ SelectCreated(w) BY <2>2 DEF UpdateActive, SelectCreated
  <2>3. CASE StartDelete(w)
    <3>1. "command" \in Threads BY DEF Threads
    <3>2. UNCHANGED th \/ EnterDelete("command", w.actor, w.p) BY <2>3 DEF StartDelete
    <3>3. QED BY <1>1, <3>1, <3>2, DeleteMoves
  <2>4. CASE StartRepair(w)
    <3>1. CASE UNCHANGED th BY <3>1
    <3>2. CASE Run([w EXCEPT !.p = svc.net.p], "cut", "resume")
      <4>. DEFINE w1 == [w EXCEPT !.p = svc.net.p]
      <4>1. w1.kind = "repair" BY <1>1, <2>4 DEF StartRepair, Work
      <4>2. Run(w1, "cut", "resume") BY <3>2
      <4>. HIDE DEF w1
      <4>3. Moves("command", "cut", w1.kind, {}) BY <1>1, <4>2, RunMoves
      <4>4. QED BY <4>1, <4>3
    <3>3. CASE th' = [th EXCEPT !["command"] = [IdleThread EXCEPT
                          !.kind = "repair", !.p = svc.net.p, !.rep = w.conn,
                          !.step = "finish", !.err = "other"]]
      <4>. DEFINE x == [IdleThread EXCEPT !.kind = "repair", !.p = svc.net.p, !.rep = w.conn,
                          !.step = "finish", !.err = "other"]
      <4>1. x.step = "finish" /\ x.kind = "repair" /\ x.drop = {} BY DEF IdleThread
      <4>2. th' = [th EXCEPT !["command"] = x] BY <3>3
      <4>. HIDE DEF x
      <4>3. Moves("command", "finish", "repair", {}) BY <1>1, <4>1, <4>2 DEF Moves, Threads
      <4>4. QED BY <4>3
    <3>4. QED BY <2>4, <3>1, <3>2, <3>3 DEF StartRepair
  <2>5. QED BY <2>1, <2>2, <2>3, <2>4
<1>5. CASE UNCHANGED th BY <1>2, <1>5, CalmStill
<1>6. CASE ~UNCHANGED th BY <1>2, <1>3, <1>4, <1>6, CalmBegins, StartSteps
<1>7. QED BY <1>5, <1>6

\* A retry begins with nothing connected, or does not begin.
LEMMA RetryCalm == ASSUME IInv, Sessions, StartRetry PROVE Sessions'
<1>1. /\ svc \in Service /\ th \in [Threads -> Thread] /\ th["command"].step = "idle"
      /\ UNCHANGED <<be, events>>
  BY DEF IInv, ServiceOK, ThreadsInv, StartRetry, At
<1>2. SameSessions BY <1>1 DEF StartRetry, SameSessions, Service
<1>3. CASE UNCHANGED th BY <1>2, <1>3, CalmStill
<1>4. CASE ~UNCHANGED th
  <2>. DEFINE x == [IdleThread EXCEPT !.kind = "retry", !.p = svc.timer.p, !.n = svc.timer.n,
                      !.step = "cut", !.next = "check"]
  <2>1. svc.connected = None /\ th' = [th EXCEPT !["command"] = x] BY <1>4 DEF StartRetry
  <2>2. x.step = "cut" /\ x.kind = "retry" /\ x.drop = {} BY DEF IdleThread
  <2>. HIDE DEF x
  <2>3. Moves("command", "cut", "retry", {}) BY <1>1, <2>1, <2>2 DEF Moves, Threads
  <2>4. "cut" \in Plain /\ "idle" \in Plain BY DEF Plain, Steps, Up
  <2>5. QED BY <1>1, <1>2, <2>1, <2>3, <2>4, Calm
<1>5. QED BY <1>3, <1>4

\* Requests, and what only the event loop or the world outside does, touch no session.
LEMMA AsideCalm ==
    ASSUME IInv, Sessions,
           \/ \E e : ConsumeNetworkChange(e)
           \/ ScheduleReconnect \/ CancelOperation \/ Client \/ UnderlayChanges \/ ProxyFails
           \/ \E t \in Threads : DeadlineExpires(t)
    PROVE  Sessions'
<1>1. svc \in Service /\ be \in Backend /\ th \in [Threads -> Thread]
  BY DEF IInv, ServiceOK, ThreadsInv
<1>2. CASE \E e : ConsumeNetworkChange(e)
  <2>1. SameSessions /\ UNCHANGED th
    BY <1>1, <1>2 DEF ConsumeNetworkChange, Consume, SameSessions, Service
  <2>2. QED BY <2>1, CalmStill
<1>3. CASE ScheduleReconnect \/ CancelOperation \/ \E t \in Threads : DeadlineExpires(t)
  <2>1. SameSessions /\ UNCHANGED th
    BY <1>1, <1>3
    DEF ScheduleReconnect, CancelOperation, DeadlineExpires, StartReconnect, SameSessions, Service
  <2>2. QED BY <2>1, CalmStill
<1>4. CASE UnderlayChanges \/ ProxyFails
  <2>1. SameSessions /\ UNCHANGED th
    BY <1>1, <1>4 DEF UnderlayChanges, ProxyFails, SameSessions, Backend
  <2>2. QED BY <2>1, CalmStill
<1>5. ASSUME NEW a, NEW kind, NEW p, Submit(a, kind, p) \/ CreateProfile(a, p) PROVE Sessions'
  <2>1. SameSessions /\ UNCHANGED th
    BY <1>1, <1>5 DEF Submit, CreateProfile, SameSessions, Service
  <2>2. QED BY <2>1, CalmStill
<1>6. ASSUME NEW a, NEW p, DeleteDirectly(a, p) PROVE Sessions'
  <2>1. SameSessions BY <1>6 DEF DeleteDirectly, SameSessions
  <2>2. "request" \in Threads /\ th["request"].step = "idle" /\ EnterDelete("request", a, p)
    BY <1>6 DEF DeleteDirectly, At, Threads
  <2>3. \E st \in {"cut", "delete"} : Moves("request", st, "delete", {})
    BY <1>1, <2>2, DeleteMoves
  <2>4. QED BY <2>1, <2>2, <2>3, CalmBegins, StartSteps
<1>7. CASE Client BY <1>5, <1>6, <1>7 DEF Client
<1>8. QED BY <1>2, <1>3, <1>4, <1>7

-----------------------------------------------------------------------------
(* Together.                                                                 *)

\* The daemon starts without sessions.
LEMMA SessionsInit == Init => SInv
<1>. SUFFICES ASSUME Init PROVE Sessions BY DEF SInv
<1>1. svc.connected = None BY DEF Init
<1>2. be.active = None /\ be.connecting = None /\ be.live = {} /\ events = {} BY DEF Init
<1>3. th["command"] = IdleThread /\ th["request"] = IdleThread BY DEF Init, Threads
<1>4. IdleThread.step = "idle" /\ IdleThread.kind = "none" /\ IdleThread.drop = {}
  BY DEF IdleThread
<1>5. QED BY <1>1, <1>2, <1>3, <1>4 DEF Sessions, Sess, Up

\* No step of any goroutine loses sight of a session while the daemon serves.
LEMMA SessionsStep == IInv /\ SInv /\ [Next]_vars => SInv'
<1>. SUFFICES ASSUME IInv, SInv, [Next]_vars, ~svc'.closed PROVE Sessions' BY DEF SInv
<1>1. ~svc.closed BY StepGood DEF Good
<1>2. Sessions BY <1>1 DEF SInv
<1>3. th["closer"].step = "idle" BY <1>1 DEF IInv
<1>4. ASSUME NEW t \in Threads, ThreadStep(t) PROVE Sessions'
  <2>1. CASE t = "closer"
    BY <1>3, <1>4, <2>1
    DEF ThreadStep, At, Cut, Unproxy, Detach, Teardown, Cleared, Prepare, Check, Begin, CallBackend,
        Established, DialError, DialFailed, SetProxy, RollTeardown, RolledBack, Commit, Resume,
        SetMode, Delete, FinishRepair, FinishRetry, FinishOperation
  <2>2. CASE t \in {"command", "request"}
    BY <1>2, <1>4, <2>2, CutCalm, UnproxyCalm, PrepareCalm, FailedCalm, BetweenCalm, FinishCalm,
       DetachSessions, TeardownSessions, RollTeardownSessions, ClearedSessions, BeginSessions,
       CallBackendSessions, EstablishedSessions, DialErrorSessions, SetProxySessions, CommitSessions
    DEF ThreadStep
  <2>3. QED BY <2>1, <2>2 DEF Threads
<1>5. CASE StartWork BY <1>2, <1>5, StartCalm DEF StartWork
<1>6. CASE StartRetry BY <1>2, <1>6, RetryCalm
<1>7. CASE StartClose
  <2>1. svc \in Service BY DEF IInv, ServiceOK
  <2>2. svc'.closed BY <1>7, <2>1 DEF StartClose, Service
  <2>3. QED BY <2>2
<1>8. CASE FinishClose BY <1>3, <1>8 DEF FinishClose, At
<1>9. CASE Consumer BY <1>2, <1>9, AsideCalm, DisconnectedSessions DEF Consumer
<1>10. CASE Client \/ CancelOperation BY <1>2, <1>10, AsideCalm
<1>11. CASE Environment BY <1>2, <1>11, AsideCalm, SessionEndsSessions DEF Environment
<1>12. CASE UNCHANGED vars
  <2>1. SameSessions /\ UNCHANGED th BY <1>12 DEF SameSessions, vars
  <2>2. QED BY <1>2, <2>1, CalmStill
<1>13. QED BY <1>4, <1>5, <1>6, <1>7, <1>8, <1>9, <1>10, <1>11, <1>12 DEF Next, Terminated

\* The sessions are always accounted for.
LEMMA SessionsInvariance == Spec => [](IInv /\ SInv)
BY StepGood, SessionsInit, SessionsStep, Invariance, PTL DEF Spec, Good

\* When no operation is under way a session that is up is the connected one or was given up
\* at a commit or at the end of a disconnect (daemon.go:1937): a direct delete, a deadline, a
\* failed proxy, a lost race or a failed cleanup loses no other (connectPreparedProfile,
\* disconnect, Backend.Connect and Disconnect), with every operation and every fault.
THEOREM TunnelsNeverForgotten == Spec => []NoGhostTunnel
<1>1. IInv /\ SInv => NoGhostTunnel
  <2>. SUFFICES ASSUME IInv, SInv, Quiet
                PROVE  be.live \subseteq be.left \cup (IF svc.connected = None THEN {} ELSE {svc.conn})
    BY DEF NoGhostTunnel
  <2>1. \A t \in Threads : th[t].step = "idle" BY DEF Quiet
  <2>2. /\ th["command"].step = "idle" /\ th["request"].step = "idle" /\ th["closer"].step = "idle"
    BY <2>1 DEF Threads
  <2>3. Sessions BY <2>2 DEF IInv, SInv
  <2>4. be.live \subseteq {be.active} BY <2>2, <2>3 DEF Sessions, Sess
  <2>5. be.active \in be.live =>
          (be.active \in be.left \/ (svc.connected # None /\ svc.conn = be.active))
    BY <2>2, <2>3 DEF Sessions, Sess, Up
  <2>6. QED BY <2>4, <2>5
<1>2. QED BY <1>1, SessionsInvariance, PTL

\* A scheduled reconnect that got commandMu (runScheduledReconnect) cuts no session in use,
\* with every operation and every fault, as long as the daemon serves.
THEOREM RetriesCutNothing == Spec => []RetryCutsNothing
<1>1. IInv /\ SInv => RetryCutsNothing
  <2>. SUFFICES ASSUME IInv, SInv, ~svc.closed, th["command"].kind = "retry",
                       th["command"].step \in {"cut", "unproxy", "detach", "teardown"}
                PROVE  be.live \subseteq be.left \cup th["request"].drop
    BY DEF RetryCutsNothing
  <2>1. Sessions BY DEF SInv
  <2>2. svc.connected = None /\ th["command"].step \notin Up /\ th["command"].step # "finish"
    BY <2>1 DEF Sessions, Sess, Up
  <2>3. be.active \in be.live => be.active \in be.left BY <2>1, <2>2 DEF Sessions, Sess
  <2>4. th["command"].drop \cap be.live \subseteq be.left BY <2>1 DEF Sessions, Sess
  <2>5. QED BY <2>1, <2>3, <2>4 DEF Sessions, Sess
<1>2. QED BY <1>1, SessionsInvariance, PTL

=============================================================================
