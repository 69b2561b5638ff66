----------------------------- MODULE ProfileTxn -----------------------------
(***************************************************************************)
(* The durable profile and secret transaction of internal/appd: the state  *)
(* file, the secret store, the persisted intent and its recovery at        *)
(* startup, and every API request that rewrites the state file.            *)
(*                                                                         *)
(* A request is a thread.  The service mutex s.mu makes a critical section *)
(* indivisible to the other requests, not to a crash: every durable write  *)
(* inside a section is a step of its own, and the daemon may stop between  *)
(* any two of them.  A write that reports an error may or may not have     *)
(* reached the disk (Save and saveLocked can fail after their rename).     *)
(*                                                                         *)
(* A profile is abstracted to its secret reference and a revision standing *)
(* for the rest of its contents.  A reference is "profile/<id>/<nonce>",   *)
(* here <<id, nonce>>.  The connection itself is the Supervisor module's;  *)
(* the requests below are those of a daemon with no active connection.     *)
(***************************************************************************)
EXTENDS Naturals

CONSTANTS
    ProfileIDs,    \* the identifiers newProfile may draw
    Nonces,        \* the random part of a secret reference
    Revs,          \* distinguishable contents of a profile
    Actors,        \* local identities (Actor.ID)
    System,        \* the actor with Actor.System set
    Admins,        \* actors with Actor.Admin set
    Clients,       \* the actors the IPC transport hands to the API: on Unix
                   \* every caller is System, on Windows each caller is its SID
    Owner,         \* [ProfileIDs -> Actors], the OwnerID of a profile
    MachineScope,  \* the profiles created with scope "machine"
    Requests,      \* request threads that may overlap
    None

ASSUME ProfileTxnAssumption ==
    /\ System \in Actors /\ System \in Admins /\ Admins \subseteq Actors /\ Clients \subseteq Actors
    /\ Owner \in [ProfileIDs -> Actors]
    /\ MachineScope \subseteq ProfileIDs
    /\ \A id \in MachineScope : Owner[id] = System
    /\ None \notin ProfileIDs \cup Requests \cup Nonces \cup Actors

Refs == ProfileIDs \X Nonces
Profile == [ref : Refs, rev : Revs]

Intent == [kind : {"upsert", "delete"}, id : ProfileIDs,
           new : Profile \cup {None}, old : Refs \cup {None}]

\* None is none of the values it stands for the absence of.
ASSUME NoneAssumption == None \notin Refs \cup Profile \cup Intent

VARIABLES
    mem,        \* the fields of Service that persist() writes
    disk,       \* the state file
    secrets,    \* the references present in the secret store
    storeOK,    \* health["store"].Ready
    secretOK,   \* health["secret"].Ready
    daemon,     \* "down", the step of load() it is in, or "up"
    mu,         \* the request inside a critical section of s.mu, or None
    req,        \* what each request is doing
    unusedIDs, unusedNonces,    \* what newID has not drawn yet
    acked,      \* history: each profile as the last success reported it
    doubtful,   \* history: profiles whose last mutation reported an error
    abandoned   \* history: references whose intent a delete overwrote

vars == <<mem, disk, secrets, storeOK, secretOK, daemon, mu, req,
          unusedIDs, unusedNonces, acked, doubtful, abandoned>>

-----------------------------------------------------------------------------
Data == [profiles : [ProfileIDs -> Profile \cup {None}],
         current  : ProfileIDs \cup {None},
         selected : [Actors -> ProfileIDs \cup {None}],
         mode     : {"user", "machine"},
         machine  : ProfileIDs \cup {None},
         intent   : Intent \cup {None}]

Ops == {"create", "update", "delete", "connect", "machine", "user"}
Steps == {"idle", "start", "secret", "commit", "dropOld", "clear", "current",
          "select", "delCommit", "delSecret", "delClear", "begin"}
DaemonSteps == {"down", "recover", "recDrop", "recClear", "up"}

Request == [step : Steps, op : Ops, actor : Actors, id : ProfileIDs \cup {None}]

TypeOK ==
    /\ mem \in Data /\ disk \in Data
    /\ secrets \subseteq Refs
    /\ storeOK \in BOOLEAN /\ secretOK \in BOOLEAN
    /\ daemon \in DaemonSteps
    /\ mu \in Requests \cup {None}
    /\ req \in [Requests -> Request]
    /\ unusedIDs \subseteq ProfileIDs /\ unusedNonces \subseteq Nonces
    /\ acked \in [ProfileIDs -> Profile \cup {None}]
    /\ doubtful \subseteq ProfileIDs
    /\ abandoned \subseteq Refs

EmptyData ==
    [profiles |-> [id \in ProfileIDs |-> None], current |-> None,
     selected |-> [a \in Actors |-> None], mode |-> "user", machine |-> None,
     intent |-> None]

Idle == [step |-> "idle", op |-> "user", actor |-> System, id |-> None]

\* A fresh installation: no state file, an empty secret store.
Init ==
    /\ mem = EmptyData /\ disk = EmptyData
    /\ secrets = {}
    /\ storeOK = TRUE /\ secretOK = TRUE
    /\ daemon = "up" /\ mu = None
    /\ req = [r \in Requests |-> Idle]
    /\ unusedIDs = ProfileIDs /\ unusedNonces = Nonces
    /\ acked = [id \in ProfileIDs |-> None]
    /\ doubtful = {}
    /\ abandoned = {}

-----------------------------------------------------------------------------
(* Durable writes.                                                         *)

\* Store.Save returned nil: the file was replaced and synchronised.
SaveOk(d) == disk' = d /\ storeOK' = TRUE

\* Mutant of SaveFails: persist forgets to record the failure.
SaveFailsQuietly(d) == disk' \in {disk, d} /\ UNCHANGED storeOK

\* Store.Save returned an error, before or after the rename.
SaveFails(d) == disk' \in {disk, d} /\ storeOK' = FALSE

SecretPut(ref, ok) ==
    /\ secrets' \in IF ok THEN {secrets \cup {ref}}
                          ELSE {secrets, secrets \cup {ref}}
    /\ secretOK' = ok

SecretDelete(ref, ok) ==
    /\ secrets' \in IF ok THEN {secrets \ {ref}} ELSE {secrets, secrets \ {ref}}
    /\ secretOK' = ok

-----------------------------------------------------------------------------
(* Authorization and the life of a request.                                *)

\* The part of authorize and authorizeAdministrativeWrite that looks at this
\* module's state.
WritesAllowed == mem.intent = None /\ storeOK /\ secretOK

Authorized(a, op) ==
    IF op \in {"machine", "user"}
    THEN a \in Admins /\ WritesAllowed
    ELSE \/ a = System
         \/ WritesAllowed /\ (mem.mode = "machine" => a \in Admins)

CanMutate(a, id) ==
    \/ a = System
    \/ IF id \in MachineScope THEN a \in Admins ELSE Owner[id] = a

\* Operations started by StartOperation hold commandMu to their end.
CommandOps == {"connect", "machine", "user"}
CommandMuFree == \A r \in Requests : req[r].step = "idle" \/ req[r].op \notin CommandOps

Goto(r, step) == req' = [req EXCEPT ![r].step = step]

\* The handler's authorization and profile lookup; the work itself takes s.mu
\* again, so other requests may run in between.
StartRequest(r, op, a, id) ==
    /\ daemon = "up" /\ mu = None /\ req[r].step = "idle"
    /\ Authorized(a, op)
    /\ CASE op = "create"  -> /\ id \in unusedIDs
                              /\ IF id \in MachineScope THEN a \in Admins ELSE Owner[id] = a
         [] op = "user"    -> id = None
         [] OTHER          -> id # None /\ mem.profiles[id] # None /\ CanMutate(a, id)
    /\ op = "delete" => ~(mem.mode = "machine" /\ mem.machine = id)
    /\ op = "machine" => id \in MachineScope
    /\ op \in CommandOps => CommandMuFree
    /\ req' = [req EXCEPT ![r] = [step |-> "start", op |-> op, actor |-> a, id |-> id]]
    /\ unusedIDs' = IF op = "create" THEN unusedIDs \ {id} ELSE unusedIDs
    /\ UNCHANGED <<abandoned, mem, disk, secrets, storeOK, secretOK, daemon, mu,
                   unusedNonces, acked, doubtful>>

\* The section enters with s.mu free or goes on holding it.
Running(r, step) ==
    /\ daemon = "up" /\ mu \in {None, r}
    /\ req[r].step = step

\* A mutation of profile id reports an error.
Fail(r) ==
    /\ mu' = None /\ req' = [req EXCEPT ![r] = Idle]
    /\ doubtful' = doubtful \cup {req[r].id}
    /\ UNCHANGED acked

\* A mutation reports success, leaving profile id with value v.
Acknowledge(r, v) ==
    /\ acked' = [acked EXCEPT ![req[r].id] = v]
    /\ doubtful' = doubtful \ {req[r].id}

-----------------------------------------------------------------------------
(* commitProfileLocked, reached from CreateProfile and updateProfile.       *)

OldRef(id) == IF mem.profiles[id] = None THEN None ELSE mem.profiles[id].ref

\* The profile vanished before the section, or an intent is still pending.
RefuseUpsert(r) ==
    /\ Running(r, "start") /\ req[r].op \in {"create", "update"}
    /\ \/ req[r].op = "update" /\ mem.profiles[req[r].id] = None
       \/ mem.intent # None
    /\ req' = [req EXCEPT ![r] = Idle]
    /\ UNCHANGED <<abandoned, mem, disk, secrets, storeOK, secretOK, daemon, mu,
                   unusedIDs, unusedNonces, acked, doubtful>>

\* A create always has a password; an update may keep the old reference.
NewProfiles(r) ==
    {p \in Profile : /\ p.ref[1] = req[r].id
                     /\ \/ p.ref[2] \in unusedNonces
                        \/ req[r].op = "update" /\ p.ref = OldRef(req[r].id)}

WriteIntent(r) ==
    /\ Running(r, "start") /\ req[r].op \in {"create", "update"}
    /\ req[r].op = "update" => mem.profiles[req[r].id] # None
    /\ mem.intent = None
    /\ \E new \in NewProfiles(r) :
        LET old == OldRef(req[r].id)
            m == [mem EXCEPT !.intent =
                    [kind |-> "upsert", id |-> req[r].id, new |-> new, old |-> old]]
        IN /\ unusedNonces' = unusedNonces \ {new.ref[2]}
           /\ \/ /\ SaveOk(m) /\ mem' = m /\ mu' = r
                 /\ Goto(r, IF new.ref = old THEN "commit" ELSE "secret")
                 /\ UNCHANGED <<acked, doubtful>>
              \/ SaveFails(m) /\ mem' = mem /\ Fail(r)
    /\ UNCHANGED <<abandoned, secrets, secretOK, daemon, unusedIDs>>

\* Mutant of PutSecret: the old secret goes before the profile is committed.
PutSecretDropsOld(r) ==
    /\ Running(r, "secret")
    /\ secrets' = (secrets \ {mem.intent.old}) \cup {mem.intent.new.ref}
    /\ Goto(r, "commit")
    /\ UNCHANGED <<abandoned, mem, disk, storeOK, secretOK, daemon, mu, unusedIDs, unusedNonces,
                   acked, doubtful>>

PutSecret(r) ==
    /\ Running(r, "secret")
    /\ \/ /\ SecretPut(mem.intent.new.ref, TRUE) /\ Goto(r, "commit")
          /\ UNCHANGED <<mu, acked, doubtful>>
       \/ SecretPut(mem.intent.new.ref, FALSE) /\ Fail(r)
    /\ UNCHANGED <<abandoned, mem, disk, storeOK, daemon, unusedIDs, unusedNonces>>

\* Mutant of CommitProfile: the replaced secret is never removed.
CommitProfileKeepsOld(r) ==
    /\ Running(r, "commit")
    /\ mem' = [mem EXCEPT !.profiles[req[r].id] = mem.intent.new]
    /\ SaveOk(mem') /\ Goto(r, "clear")
    /\ UNCHANGED <<abandoned, secrets, secretOK, daemon, mu, unusedIDs, unusedNonces,
                   acked, doubtful>>

CommitProfile(r) ==
    /\ Running(r, "commit")
    /\ mem' = [mem EXCEPT !.profiles[req[r].id] = mem.intent.new]
    /\ \/ /\ SaveOk(mem')
          /\ Goto(r, IF mem.intent.old \in {None, mem.intent.new.ref}
                     THEN "clear" ELSE "dropOld")
          /\ UNCHANGED <<mu, acked, doubtful>>
       \/ SaveFails(mem') /\ Fail(r)
    /\ UNCHANGED <<abandoned, secrets, secretOK, daemon, unusedIDs, unusedNonces>>

DropOldSecret(r) ==
    /\ Running(r, "dropOld")
    /\ \/ /\ SecretDelete(mem.intent.old, TRUE) /\ Goto(r, "clear")
          /\ UNCHANGED <<mu, acked, doubtful>>
       \/ SecretDelete(mem.intent.old, FALSE) /\ Fail(r)
    /\ UNCHANGED <<abandoned, mem, disk, storeOK, daemon, unusedIDs, unusedNonces>>

\* The last write of commitProfileLocked; CreateProfile keeps s.mu and goes on.
ClearIntent(r) ==
    /\ Running(r, "clear")
    /\ LET m == [mem EXCEPT !.intent = None]
       IN \/ /\ SaveOk(m) /\ mem' = m
             /\ Acknowledge(r, mem.intent.new)
             /\ IF req[r].op = "create"
                THEN Goto(r, "current") /\ mu' = mu
                ELSE req' = [req EXCEPT ![r] = Idle] /\ mu' = None
          \/ SaveFails(m) /\ mem' = mem /\ Fail(r)
    /\ UNCHANGED <<abandoned, secrets, secretOK, daemon, unusedIDs, unusedNonces>>

\* The tail of CreateProfile: the first profile becomes the current one.
SetFirstCurrent(r) ==
    /\ Running(r, "current")
    /\ mem' = [mem EXCEPT !.current = IF @ = None THEN req[r].id ELSE @]
    /\ \/ /\ SaveOk(mem') /\ mu' = None /\ Goto(r, "select")
          /\ UNCHANGED <<acked, doubtful>>
       \/ SaveFails(mem') /\ Fail(r)
    /\ UNCHANGED <<abandoned, secrets, secretOK, daemon, unusedIDs, unusedNonces>>

\* CreateProfileFor takes s.mu again to select what CreateProfile made.
SelectCreated(r) ==
    /\ Running(r, "select")
    /\ LET id == req[r].id
           a == req[r].actor
       IN mem' = [mem EXCEPT
                    !.selected[a] = IF id \in MachineScope THEN @ ELSE id,
                    !.current = IF a \in Admins THEN id ELSE @]
    /\ SaveOk(mem') \/ SaveFails(mem')
    /\ req' = [req EXCEPT ![r] = Idle]
    /\ UNCHANGED <<abandoned, secrets, secretOK, daemon, mu, unusedIDs, unusedNonces,
                   acked, doubtful>>

-----------------------------------------------------------------------------
(* DeleteProfile.  It does not look for a pending intent.                  *)

RefuseDelete(r) ==
    /\ Running(r, "start") /\ req[r].op = "delete"
    /\ mem.profiles[req[r].id] = None
    /\ req' = [req EXCEPT ![r] = Idle]
    /\ UNCHANGED <<abandoned, mem, disk, secrets, storeOK, secretOK, daemon, mu,
                   unusedIDs, unusedNonces, acked, doubtful>>

\* The references a file's profiles use, and the ones an intent names.
Live(d) == {d.profiles[id].ref : id \in {p \in ProfileIDs : d.profiles[p] # None}}
Named(i) == IF i = None THEN {} ELSE {i.old} \cup (IF i.new = None THEN {} ELSE {i.new.ref})

\* The delete intent replaces whatever intent was pending, and a failed save
\* drops it: what that intent still had to remove is remembered by nobody.
WriteDeleteIntent(r) ==
    /\ Running(r, "start") /\ req[r].op = "delete"
    /\ mem.profiles[req[r].id] # None
    /\ abandoned' = abandoned \cup ((Named(mem.intent) \cap secrets) \ Live(mem))
    /\ LET m == [mem EXCEPT !.intent = [kind |-> "delete", id |-> req[r].id,
                                        new |-> None, old |-> OldRef(req[r].id)]]
       IN \/ /\ SaveOk(m) /\ mem' = m /\ mu' = r /\ Goto(r, "delCommit")
             /\ UNCHANGED <<acked, doubtful>>
          \/ SaveFails(m) /\ mem' = [mem EXCEPT !.intent = None] /\ Fail(r)
    /\ UNCHANGED <<secrets, secretOK, daemon, unusedIDs, unusedNonces>>

\* The profiles left once id is gone.
Remaining(id) == {p \in ProfileIDs \ {id} : mem.profiles[p] # None}

Unselect(id) == [a \in Actors |-> IF mem.selected[a] = id THEN None ELSE mem.selected[a]]

CurrentAfterDelete(id) ==
    IF mem.current # id THEN mem.current
    ELSE IF \E p \in ProfileIDs : Remaining(id) = {p}
         THEN CHOOSE p \in ProfileIDs : Remaining(id) = {p}
         ELSE None

\* Mutant of CommitDelete: the list is cut at the profile, not around it.
CommitDeleteTruncates(r) ==
    /\ Running(r, "delCommit")
    /\ mem' = [mem EXCEPT !.profiles = [id \in ProfileIDs |-> None],
                          !.selected = Unselect(req[r].id),
                          !.current = CurrentAfterDelete(req[r].id)]
    /\ SaveOk(mem') /\ Goto(r, "delSecret")
    /\ UNCHANGED <<abandoned, secrets, secretOK, daemon, mu, unusedIDs, unusedNonces,
                   acked, doubtful>>

CommitDelete(r) ==
    /\ Running(r, "delCommit")
    /\ LET id == req[r].id
       IN mem' = [mem EXCEPT !.profiles[id] = None,
                             !.selected = Unselect(id),
                             !.current = CurrentAfterDelete(id)]
    /\ \/ SaveOk(mem') /\ Goto(r, "delSecret") /\ UNCHANGED <<mu, acked, doubtful>>
       \/ SaveFails(mem') /\ Fail(r)
    /\ UNCHANGED <<abandoned, secrets, secretOK, daemon, unusedIDs, unusedNonces>>

DeleteSecret(r) ==
    /\ Running(r, "delSecret")
    /\ \/ /\ SecretDelete(mem.intent.old, TRUE) /\ Goto(r, "delClear")
          /\ UNCHANGED <<mu, acked, doubtful>>
       \/ SecretDelete(mem.intent.old, FALSE) /\ Fail(r)
    /\ UNCHANGED <<abandoned, mem, disk, storeOK, daemon, unusedIDs, unusedNonces>>

ClearDeleteIntent(r) ==
    /\ Running(r, "delClear")
    /\ LET m == [mem EXCEPT !.intent = None]
       IN \/ /\ SaveOk(m) /\ mem' = m /\ mu' = None
             /\ Acknowledge(r, None) /\ req' = [req EXCEPT ![r] = Idle]
          \/ SaveFails(m) /\ mem' = mem /\ Fail(r)
    /\ UNCHANGED <<abandoned, secrets, secretOK, daemon, unusedIDs, unusedNonces>>

-----------------------------------------------------------------------------
(* The other requests that rewrite the state file.                         *)

\* Connect found the profile, or reports that it is gone.
Found(r) ==
    IF mem.profiles[req[r].id] # None THEN Goto(r, "begin") ELSE req' = [req EXCEPT ![r] = Idle]

\* ConnectFor selects the profile that StartRequest looked up.  The claim of
\* the daemon by another user (activeOwnerID) is the Supervisor's; here nobody
\* holds it.  Once that is saved, Connect copies the profile if it still exists
\* and goes on to connect the copy.
SelectForConnect(r) ==
    /\ Running(r, "start") /\ req[r].op = "connect"
    /\ LET id == req[r].id
           a == req[r].actor
       IN IF id \in MachineScope /\ ~(mem.mode = "machine" /\ mem.machine = id)
          THEN req' = [req EXCEPT ![r] = Idle] /\ UNCHANGED <<mem, disk, storeOK>>
          ELSE /\ mem' = [mem EXCEPT
                    !.selected[a] = IF id \notin MachineScope /\ Owner[id] = a THEN id ELSE @,
                    !.current = id]
               /\ \/ SaveOk(mem') /\ Found(r)
                  \/ SaveFails(mem') /\ req' = [req EXCEPT ![r] = Idle]
    /\ UNCHANGED <<abandoned, secrets, secretOK, daemon, mu, unusedIDs, unusedNonces,
                   acked, doubtful>>

\* Mutant of SetControlMode: the state file gets a mode load() does not know.
SetControlModeRaw(r) ==
    /\ Running(r, "start") /\ req[r].op \in {"machine", "user"}
    /\ mem' = [mem EXCEPT !.mode = "", !.machine = req[r].id]
    /\ SaveOk(mem') \/ SaveFails(mem')
    /\ req' = [req EXCEPT ![r] = Idle]
    /\ UNCHANGED <<abandoned, secrets, secretOK, daemon, mu, unusedIDs, unusedNonces,
                   acked, doubtful>>

SetControlMode(r) ==
    /\ Running(r, "start") /\ req[r].op \in {"machine", "user"}
    /\ mem' = IF req[r].op = "machine"
              THEN [mem EXCEPT !.mode = "machine", !.machine = req[r].id,
                               !.current = req[r].id]
              ELSE [mem EXCEPT !.mode = "user", !.machine = None]
    /\ \/ SaveOk(mem') /\ req[r].op = "machine" /\ Found(r)
       \/ SaveOk(mem') /\ req[r].op = "user" /\ req' = [req EXCEPT ![r] = Idle]
       \/ SaveFails(mem') /\ req' = [req EXCEPT ![r] = Idle]
    /\ UNCHANGED <<abandoned, secrets, secretOK, daemon, mu, unusedIDs, unusedNonces,
                   acked, doubtful>>

\* A due retry or a network repair, under commandMu, found the current profile
\* and goes on to connect the copy it took.
StartReconnect(r) ==
    /\ daemon = "up" /\ mu = None /\ req[r].step = "idle" /\ CommandMuFree
    /\ mem.current # None /\ mem.profiles[mem.current] # None
    /\ req' = [req EXCEPT ![r] = [step |-> "begin", op |-> "connect",
                                  actor |-> System, id |-> mem.current]]
    /\ UNCHANGED <<abandoned, mem, disk, secrets, storeOK, secretOK, daemon, mu,
                   unusedIDs, unusedNonces, acked, doubtful>>

\* connectPreparedProfile: the copied profile becomes the current one in memory,
\* whatever was selected or deleted since, and nothing is saved; or its secret
\* cannot be read, or the service is connected or connecting already.
BeginConnect(r) ==
    /\ Running(r, "begin")
    /\ mem' \in {mem, [mem EXCEPT !.current = req[r].id]}
    /\ req' = [req EXCEPT ![r] = Idle]
    /\ UNCHANGED <<abandoned, disk, secrets, storeOK, secretOK, daemon, mu,
                   unusedIDs, unusedNonces, acked, doubtful>>

-----------------------------------------------------------------------------
(* Crash, and load() with recoverIntentLocked at the next start.           *)

InFlight == IF mu = None THEN {} ELSE {req[mu].id}

Stop ==
    /\ daemon' = "down" /\ mem' = EmptyData /\ mu' = None
    /\ req' = [r \in Requests |-> Idle]
    /\ doubtful' = doubtful \cup InFlight
    /\ UNCHANGED <<unusedIDs, unusedNonces, acked>>

Crash ==
    /\ daemon # "down"
    /\ Stop
    /\ UNCHANGED <<abandoned, disk, secrets, storeOK, secretOK>>

\* What load() requires of the state file.
Loadable(d) ==
    /\ d.current # None => d.profiles[d.current] # None
    /\ \A a \in Actors :
         LET id == d.selected[a]
         IN id # None => /\ d.profiles[id] # None
                         /\ id \notin MachineScope /\ Owner[id] = a
    /\ IF d.mode = "machine"
       THEN d.machine \in MachineScope /\ d.profiles[d.machine] # None
       ELSE d.machine = None

\* load() is done: the service is constructed with what memory now holds.
Serve(m) ==
    /\ daemon' = "up" /\ acked' = m.profiles /\ doubtful' = {}

Load ==
    /\ daemon = "down" /\ Loadable(disk)
    /\ mem' = disk /\ storeOK' = TRUE /\ secretOK' = TRUE
    /\ IF disk.intent = None THEN Serve(disk)
       ELSE daemon' = "recover" /\ UNCHANGED <<acked, doubtful>>
    /\ UNCHANGED <<abandoned, disk, secrets, mu, req, unusedIDs, unusedNonces>>

\* recoverIntentLocked, an upsert whose new secret never reached the store.
DropIntent ==
    /\ daemon = "recover" /\ mem.intent.kind = "upsert"
    /\ mem.intent.new.ref \notin secrets
    /\ LET m == [mem EXCEPT !.intent = None]
       IN \/ SaveOk(m) /\ mem' = m /\ Serve(m)
             /\ UNCHANGED <<mu, req, unusedIDs, unusedNonces>>
          \/ SaveFails(m) /\ Stop
    /\ UNCHANGED <<abandoned, secrets, secretOK>>

Recovered(d, sec) ==
    IF d.intent = None THEN d.profiles
    ELSE IF d.intent.kind = "delete" THEN [d.profiles EXCEPT ![d.intent.id] = None]
    ELSE IF d.intent.new.ref \in sec THEN [d.profiles EXCEPT ![d.intent.id] = d.intent.new]
    ELSE d.profiles

\* recoverIntentLocked, the profile list is completed and saved.
RecoverProfiles ==
    /\ daemon = "recover"
    /\ mem.intent.kind = "upsert" => mem.intent.new.ref \in secrets
    /\ LET m == [mem EXCEPT !.profiles = Recovered(mem, secrets)]
           drop == /\ mem.intent.old # None
                   /\ mem.intent.kind = "upsert" => mem.intent.old # mem.intent.new.ref
       IN \/ /\ SaveOk(m) /\ mem' = m
             /\ daemon' = IF drop THEN "recDrop" ELSE "recClear"
             /\ UNCHANGED <<mu, req, unusedIDs, unusedNonces, acked, doubtful>>
          \/ SaveFails(m) /\ Stop
    /\ UNCHANGED <<abandoned, secrets, secretOK>>

RecoverSecret ==
    /\ daemon = "recDrop"
    /\ \/ /\ SecretDelete(mem.intent.old, TRUE) /\ daemon' = "recClear"
          /\ UNCHANGED <<mem, mu, req, unusedIDs, unusedNonces, acked, doubtful>>
       \/ SecretDelete(mem.intent.old, FALSE) /\ Stop
    /\ UNCHANGED <<abandoned, disk, storeOK>>

RecoverClear ==
    /\ daemon = "recClear"
    /\ LET m == [mem EXCEPT !.intent = None]
       IN \/ /\ SaveOk(m) /\ mem' = m /\ Serve(m)
             /\ UNCHANGED <<mu, req, unusedIDs, unusedNonces>>
          \/ SaveFails(m) /\ Stop
    /\ UNCHANGED <<abandoned, secrets, secretOK>>

Recovery == Load \/ DropIntent \/ RecoverProfiles \/ RecoverSecret \/ RecoverClear

-----------------------------------------------------------------------------
RequestStep(r) ==
    \/ RefuseUpsert(r) \/ WriteIntent(r) \/ PutSecret(r) \/ CommitProfile(r)
    \/ DropOldSecret(r) \/ ClearIntent(r) \/ SetFirstCurrent(r) \/ SelectCreated(r)
    \/ RefuseDelete(r) \/ WriteDeleteIntent(r) \/ CommitDelete(r)
    \/ DeleteSecret(r) \/ ClearDeleteIntent(r)
    \/ SelectForConnect(r) \/ SetControlMode(r) \/ BeginConnect(r)

Next ==
    \/ \E r \in Requests :
        \/ \E op \in Ops, a \in Clients, id \in ProfileIDs \cup {None} :
              StartRequest(r, op, a, id)
        \/ StartReconnect(r)
        \/ RequestStep(r)
    \/ Crash
    \/ Recovery

Spec == Init /\ [][Next]_vars

-----------------------------------------------------------------------------
(* Properties.                                                             *)

\* A profile that load() could read back never points at a secret that is
\* gone: the order "new secret, state file, old secret" of commitProfileLocked
\* and of recoverIntentLocked keeps every credential reachable, through any
\* failed write and any crash.
CredentialsReachable ==
    \A id \in ProfileIDs :
        disk.profiles[id] # None => disk.profiles[id].ref \in secrets

\* A mutation that reported success survives: what a restart would rebuild from
\* the disk agrees with the last answer for every profile without an
\* unresolved mutation.
AckedDurable ==
    \A id \in ProfileIDs \ (doubtful \cup InFlight) :
        Recovered(disk, secrets)[id] = acked[id]

\* A healthy, idle daemon holds the credential of each of its profiles and no
\* other: a password replaced or deleted is removed from the secret store
\* through every failed write, crash and overlap of requests.  The exception is
\* what a delete abandoned when it wrote its intent over a pending one
\* (daemon.go:828), which only System can ask for.
NoOrphanSecrets ==
    (daemon = "up" /\ mu = None /\ WritesAllowed) =>
        Live(mem) \subseteq secrets /\ secrets \subseteq Live(mem) \cup abandoned

\* What persist() wrote, without the current profile: connectPreparedProfile
\* moves that in memory only.
ButCurrent(d) == [d EXCEPT !.current = None]

\* health["store"] tells the truth: whenever it is ready the state file holds
\* what memory holds, so a refused write is never refused too late.  The
\* current profile is left out, since a connection attempt sets it unsaved.
StoreHealthHonest == (daemon # "down" /\ storeOK) => ButCurrent(disk) = ButCurrent(mem)

-----------------------------------------------------------------------------
(* The inductive invariant behind CredentialsReachable and                 *)
(* StoreHealthHonest.                                                       *)

\* References carry the profile they were made for, so removing one profile's
\* secret cannot touch another's.
IntentOwned(i) ==
    i # None => /\ i.old # None => i.old[1] = i.id
                /\ i.new # None => i.new.ref[1] = i.id
                /\ i.kind = "upsert" => i.new # None
                /\ i.kind = "delete" => i.old # None

RefsOwned(d) ==
    /\ \A id \in ProfileIDs : d.profiles[id] # None => d.profiles[id].ref[1] = id
    /\ IntentOwned(d.intent)

Reachable(d, sec) ==
    \A id \in ProfileIDs : d.profiles[id] # None => d.profiles[id].ref \in sec

UpsertSteps == {"secret", "commit", "dropOld", "clear"}
DeleteSteps == {"delCommit", "delSecret", "delClear"}
InsideSteps == UpsertSteps \cup DeleteSteps \cup {"current"}

\* s.mu is held exactly by the request that is inside a section.
MutexInv ==
    /\ \A r \in Requests : req[r].step \in InsideSteps <=> mu = r
    /\ mu # None => daemon = "up" /\ storeOK
    /\ \A r \in Requests : req[r].step # "idle" => daemon = "up"
    /\ \A r \in Requests : req[r].step # "idle" /\ req[r].op # "user" => req[r].id # None
    /\ \A r \in Requests : req[r].step \in InsideSteps \cup {"select"} =>
                             req[r].op \in {"create", "update", "delete"}

\* What the holder of s.mu has established at each step of its transaction.
SectionInv ==
    \A r \in Requests :
      /\ req[r].step \in UpsertSteps =>
           mem.intent # None /\ mem.intent.kind = "upsert" /\ mem.intent.id = req[r].id
      /\ req[r].step \in DeleteSteps =>
           mem.intent # None /\ mem.intent.kind = "delete" /\ mem.intent.id = req[r].id
      /\ req[r].step = "commit" => mem.intent.new.ref \in secrets
      /\ req[r].step = "dropOld" =>
           /\ mem.profiles[req[r].id] = mem.intent.new
           /\ mem.intent.old # None /\ mem.intent.old # mem.intent.new.ref
      /\ req[r].step = "delSecret" => mem.profiles[req[r].id] = None

RecoveryInv ==
    /\ daemon \in {"recover", "recDrop", "recClear"} => mem.intent # None
    /\ daemon = "recDrop" =>
         /\ storeOK /\ mem.intent.old # None
         /\ mem.profiles[mem.intent.id] =
              IF mem.intent.kind = "upsert" THEN mem.intent.new ELSE None
         /\ mem.intent.kind = "upsert" => mem.intent.old # mem.intent.new.ref

IInv ==
    /\ TypeOK
    /\ RefsOwned(mem) /\ RefsOwned(disk)
    /\ Reachable(mem, secrets) /\ Reachable(disk, secrets)
    /\ MutexInv /\ SectionInv /\ RecoveryInv
    /\ StoreHealthHonest

=============================================================================
