-------------------------- MODULE ProfileTxnProofs --------------------------
(* Proofs about ProfileTxn, for every set of profiles, actors and requests.  *)
EXTENDS ProfileTxn, TLAPS

\* A state file whose references are well formed and all present in sec.
Good(d, sec) == d \in Data /\ RefsOwned(d) /\ Reachable(d, sec)

\* The conjuncts of TypeOK that are not about mem and disk.
RestOK ==
    /\ secrets \subseteq Refs
    /\ storeOK \in BOOLEAN /\ secretOK \in BOOLEAN
    /\ daemon \in DaemonSteps
    /\ mu \in Requests \cup {None}
    /\ req \in [Requests -> Request]
    /\ unusedIDs \subseteq ProfileIDs /\ unusedNonces \subseteq Nonces
    /\ acked \in [ProfileIDs -> Profile \cup {None}]
    /\ doubtful \subseteq ProfileIDs
    /\ abandoned \subseteq Refs

\* What a healthy store promises of the two files, as far as the proofs need it.
Twin == disk.profiles = mem.profiles /\ disk.intent = mem.intent

-----------------------------------------------------------------------------
(* Facts about the operators the actions are built from.                    *)

\* The initial state file and the idle request are well typed.
LEMMA ConstantsTyped ==
    Idle \in Request /\ \A sec : Good(EmptyData, sec)
BY ProfileTxnAssumption
   DEF EmptyData, Idle, Request, Steps, Ops, Data, Good, RefsOwned, IntentOwned, Reachable

\* Replacing the intent keeps the profiles and so their references.
LEMMA EditIntent ==
    ASSUME NEW d, NEW sec, Good(d, sec), NEW i \in Intent \cup {None}, IntentOwned(i)
    PROVE  /\ Good([d EXCEPT !.intent = i], sec)
           /\ [d EXCEPT !.intent = i].intent = i
           /\ [d EXCEPT !.intent = i].profiles = d.profiles
BY DEF Good, Data, RefsOwned, Reachable

\* Writing one profile keeps the file good when its new secret is stored.
LEMMA EditProfile ==
    ASSUME NEW d, NEW sec, Good(d, sec), NEW id \in ProfileIDs,
           NEW v \in Profile \cup {None},
           v # None => v.ref[1] = id /\ v.ref \in sec
    PROVE  /\ Good([d EXCEPT !.profiles[id] = v], sec)
           /\ [d EXCEPT !.profiles[id] = v].intent = d.intent
           /\ [d EXCEPT !.profiles[id] = v].profiles[id] = v
<1> DEFINE e == [d EXCEPT !.profiles[id] = v]
<1>1. e \in Data
  BY DEF Good, Data
<1>2. e.intent = d.intent /\ e.profiles = [d.profiles EXCEPT ![id] = v]
  BY DEF Good, Data
<1>3. \A p \in ProfileIDs : e.profiles[p] = IF p = id THEN v ELSE d.profiles[p]
  BY <1>2 DEF Good, Data
<1> HIDE DEF e
<1>4. RefsOwned(e) /\ Reachable(e, sec)
  BY <1>2, <1>3 DEF Good, RefsOwned, Reachable
<1>5. e.profiles[id] = v
  BY <1>3
<1> QED
  BY <1>1, <1>2, <1>4, <1>5 DEF e, Good

\* Selections play no part in what Good says, as long as they are typed.
LEMMA EditSelection ==
    ASSUME NEW d, NEW e \in Data, NEW sec, Good(d, sec),
           e.profiles = d.profiles, e.intent = d.intent
    PROVE  Good(e, sec)
BY DEF Good, RefsOwned, Reachable

\* Moving the current profile changes nothing else of the file.
LEMMA EditCurrent ==
    ASSUME NEW d \in Data, NEW c \in ProfileIDs \cup {None}
    PROVE  /\ [d EXCEPT !.current = c] \in Data
           /\ [d EXCEPT !.current = c].profiles = d.profiles
           /\ [d EXCEPT !.current = c].intent = d.intent
           /\ ButCurrent([d EXCEPT !.current = c]) = ButCurrent(d)
BY DEF Data, ButCurrent

\* Two files that differ in the current profile only have the same profiles and intent.
LEMMA ButCurrentTwin ==
    ASSUME NEW d \in Data, NEW e \in Data, ButCurrent(d) = ButCurrent(e)
    PROVE  d.profiles = e.profiles /\ d.intent = e.intent
<1>1. /\ ButCurrent(d).profiles = d.profiles /\ ButCurrent(d).intent = d.intent
      /\ ButCurrent(e).profiles = e.profiles /\ ButCurrent(e).intent = e.intent
  BY DEF ButCurrent, Data
<1> QED
  BY <1>1

\* More secrets never hurt.
LEMMA MoreSecrets ==
    ASSUME NEW d, NEW sec, NEW more, Good(d, sec), sec \subseteq more
    PROVE  Good(d, more)
BY DEF Good, Reachable

\* Dropping a secret of profile id that id no longer uses keeps the file good.
LEMMA FewerSecrets ==
    ASSUME NEW d, NEW sec, Good(d, sec), NEW ref \in Refs,
           d.profiles[ref[1]] # None => d.profiles[ref[1]].ref # ref
    PROVE  Good(d, sec \ {ref})
BY DEF Good, Reachable, RefsOwned

\* Moving or resetting one request keeps every request well typed.
LEMMA GotoTyped ==
    ASSUME req \in [Requests -> Request], NEW r \in Requests, NEW s \in Steps, Goto(r, s)
    PROVE  req' \in [Requests -> Request]
BY DEF Request, Goto

\* A request that gives up is idle again and still well typed.
LEMMA FailTyped ==
    ASSUME req \in [Requests -> Request], NEW r \in Requests, Fail(r)
    PROVE  req' \in [Requests -> Request]
BY ConstantsTyped DEF Fail

\* The typing half of IInv, split into the two files and the rest.
LEMMA TypeParts == IInv => Good(mem, secrets) /\ Good(disk, secrets) /\ RestOK
BY DEF IInv, TypeOK, Good, RestOK

\* A healthy store has the profiles and the intent of memory.
LEMMA HealthyTwin == IInv /\ daemon # "down" /\ storeOK => Twin
<1> SUFFICES ASSUME IInv, daemon # "down", storeOK PROVE Twin
  OBVIOUS
<1>1. disk \in Data /\ mem \in Data /\ ButCurrent(disk) = ButCurrent(mem)
  BY DEF IInv, TypeOK, StoreHealthHonest
<1> QED
  BY <1>1, ButCurrentTwin DEF Twin

-----------------------------------------------------------------------------
(* Every step of a request preserves the inductive invariant: one lemma per *)
(* action, in the order of the specification.                               *)

\* The parts of IInv put together again.
LEMMA Assemble ==
    ASSUME Good(mem, secrets)', Good(disk, secrets)', RestOK',
           MutexInv', SectionInv', RecoveryInv', StoreHealthHonest'
    PROVE  IInv'
BY DEF IInv, TypeOK, Good, RestOK

\* commitProfileLocked refusing a create or an update touches only the request.
LEMMA RefuseUpsertInv ==
    ASSUME IInv, NEW r \in Requests, RefuseUpsert(r)
    PROVE  IInv'
<1> USE ProfileTxnAssumption, NoneAssumption
<1>0. Good(mem, secrets) /\ Good(disk, secrets) /\ RestOK
  BY TypeParts
<1>0a. MutexInv /\ SectionInv /\ RecoveryInv /\ StoreHealthHonest
  BY DEF IInv
<1>0b. req[r] \in Request /\ req[r].id \in ProfileIDs \cup {None}
  BY <1>0 DEF RestOK, Request
<1>1. Good(mem, secrets)' /\ Good(disk, secrets)'
  BY <1>0 DEF RefuseUpsert
<1>2. RestOK'
  BY <1>0, <1>0a, <1>0b, ConstantsTyped DEF RestOK, Steps, MutexInv, InsideSteps, UpsertSteps, DeleteSteps, RefuseUpsert, Running, Goto, Fail, Acknowledge, SaveOk, SaveFails, SecretPut, SecretDelete
<1>3. MutexInv'
  BY <1>0, <1>0a, <1>0b DEF RestOK, Request, MutexInv, InsideSteps, UpsertSteps, DeleteSteps, RefuseUpsert, Running, Goto, Fail, Acknowledge, SaveOk, SaveFails, SecretPut, SecretDelete, Idle
<1>4. SectionInv'
  BY <1>0, <1>0a, <1>0b DEF RestOK, Request, Good, Data, SectionInv, MutexInv, InsideSteps, UpsertSteps, DeleteSteps, RefuseUpsert, Running, Goto, Fail, Acknowledge, SaveOk, SaveFails, SecretPut, SecretDelete, Idle
<1>5. RecoveryInv' /\ StoreHealthHonest'
  BY <1>0, <1>0a DEF RestOK, RecoveryInv, StoreHealthHonest, MutexInv, InsideSteps, UpsertSteps, DeleteSteps, RefuseUpsert, Running, Goto, Fail, Acknowledge, SaveOk, SaveFails, SecretPut, SecretDelete
<1> QED
  BY <1>1, <1>2, <1>3, <1>4, <1>5, Assemble

\* Saving the intent first: the old and the new reference both belong to the
\* profile, and neither file refers to a secret that is not stored.
LEMMA WriteIntentInv ==
    ASSUME IInv, NEW r \in Requests, WriteIntent(r)
    PROVE  IInv'
<1> USE ProfileTxnAssumption, NoneAssumption
<1>0. Good(mem, secrets) /\ Good(disk, secrets) /\ RestOK
  BY TypeParts
<1>0a. MutexInv /\ SectionInv /\ RecoveryInv /\ StoreHealthHonest
  BY DEF IInv
<1>0b. req[r] \in Request /\ req[r].id \in ProfileIDs \cup {None}
  BY <1>0 DEF RestOK, Request
<1>0c. req[r].id \in ProfileIDs
  BY <1>0a, <1>0b DEF WriteIntent, Running, MutexInv
<1>1. Good(mem, secrets)' /\ Good(disk, secrets)'
  <2> PICK new \in NewProfiles(r) :
        LET m == [mem EXCEPT !.intent = [kind |-> "upsert", id |-> req[r].id,
                                         new |-> new, old |-> OldRef(req[r].id)]]
        IN (SaveOk(m) /\ mem' = m) \/ (SaveFails(m) /\ mem' = mem)
    BY DEF WriteIntent
  <2> DEFINE i == [kind |-> "upsert", id |-> req[r].id, new |-> new, old |-> OldRef(req[r].id)]
  <2>1. i \in Intent /\ IntentOwned(i)
    BY <1>0, <1>0a, <1>0b, <1>0c DEF NewProfiles, Intent, IntentOwned, OldRef, Good, Data, RefsOwned, Profile
  <2>2. Good([mem EXCEPT !.intent = i], secrets)
    BY <1>0, <2>1, EditIntent
  <2>3. secrets' = secrets
    BY DEF WriteIntent
  <2> QED
    BY <1>0, <2>2, <2>3 DEF SaveOk, SaveFails
<1>2. RestOK'
  <2>1. req' \in [Requests -> Request]
    BY <1>0, ConstantsTyped DEF RestOK, WriteIntent, Fail, Goto, Steps, Request
  <2>2. acked' \in [ProfileIDs -> Profile \cup {None}] /\ doubtful' \subseteq ProfileIDs
    BY <1>0, <1>0c DEF RestOK, WriteIntent, Fail, Acknowledge
  <2> QED
    BY <1>0, <1>0c, <2>1, <2>2 DEF RestOK, WriteIntent, Running, Fail, SaveOk, SaveFails, SecretPut, SecretDelete
<1>3. MutexInv'
  BY <1>0, <1>0a, <1>0b DEF RestOK, Request, MutexInv, InsideSteps, UpsertSteps, DeleteSteps, WriteIntent, Running, Goto, Fail, Acknowledge, SaveOk, SaveFails, SecretPut, SecretDelete, Idle
<1>4. SectionInv'
  <2> PICK new \in NewProfiles(r) :
        LET old == OldRef(req[r].id)
            m == [mem EXCEPT !.intent = [kind |-> "upsert", id |-> req[r].id,
                                         new |-> new, old |-> old]]
        IN \/ /\ mem' = m
              /\ req' = [req EXCEPT ![r].step = IF new.ref = old THEN "commit" ELSE "secret"]
           \/ mem' = mem /\ req' = [req EXCEPT ![r] = Idle]
    BY DEF WriteIntent, Goto, Fail
  <2>1. mu = None /\ \A q \in Requests : req[q].step \notin InsideSteps
    BY <1>0, <1>0a DEF WriteIntent, Running, MutexInv, InsideSteps, UpsertSteps, DeleteSteps
  <2>2. new.ref = OldRef(req[r].id) => new.ref \in secrets
    BY <1>0, <1>0c DEF OldRef, Good, Reachable, NewProfiles, Profile
  <2>3. secrets' = secrets
    BY DEF WriteIntent
  <2>4. CASE mem' = mem /\ req' = [req EXCEPT ![r] = Idle]
    BY <1>0, <2>1, <2>3, <2>4 DEF RestOK, SectionInv, Idle, InsideSteps, UpsertSteps, DeleteSteps
  <2>5. CASE /\ mem'.intent = [kind |-> "upsert", id |-> req[r].id,
                               new |-> new, old |-> OldRef(req[r].id)]
             /\ req' = [req EXCEPT ![r].step = IF new.ref = OldRef(req[r].id)
                                               THEN "commit" ELSE "secret"]
    <3>1. mem'.intent # None
      BY <1>0, <1>0c, <2>5 DEF Intent, NewProfiles, OldRef, Good, Data, Profile
    <3>2. \A q \in Requests : q # r => req'[q].step \notin InsideSteps
      BY <1>0, <2>1, <2>5 DEF RestOK
    <3>3. /\ req'[r].id = req[r].id /\ req'[r].step \in {"commit", "secret"}
          /\ req'[r].step = "commit" => new.ref = OldRef(req[r].id)
      BY <1>0, <2>5 DEF RestOK, Request
    <3> QED
      BY <2>2, <2>3, <2>5, <3>1, <3>2, <3>3 DEF SectionInv, InsideSteps, UpsertSteps, DeleteSteps
  <2> QED
    BY <1>0, <2>4, <2>5 DEF Good, Data
<1>5. RecoveryInv' /\ StoreHealthHonest'
  BY <1>0, <1>0a DEF RestOK, RecoveryInv, StoreHealthHonest, MutexInv, InsideSteps, UpsertSteps, DeleteSteps, WriteIntent, Running, Goto, Fail, Acknowledge, SaveOk, SaveFails, SecretPut, SecretDelete
<1> QED
  BY <1>1, <1>2, <1>3, <1>4, <1>5, Assemble

\* Storing the new secret, or failing to, removes none: the old one is still there.
LEMMA PutSecretInv ==
    ASSUME IInv, NEW r \in Requests, PutSecret(r)
    PROVE  IInv'
<1> USE ProfileTxnAssumption, NoneAssumption
<1>0. Good(mem, secrets) /\ Good(disk, secrets) /\ RestOK
  BY TypeParts
<1>0a. MutexInv /\ SectionInv /\ RecoveryInv /\ StoreHealthHonest
  BY DEF IInv
<1>0b. req[r] \in Request /\ req[r].id \in ProfileIDs \cup {None}
  BY <1>0 DEF RestOK, Request
<1>0c. mem.intent \in Intent /\ mem.intent.new.ref \in Refs /\ req[r].id \in ProfileIDs
  BY <1>0, <1>0a, <1>0b DEF PutSecret, Running, SectionInv, Good, Data, RefsOwned, IntentOwned,
     UpsertSteps, Intent, Profile
<1>1. Good(mem, secrets)' /\ Good(disk, secrets)'
  BY <1>0, MoreSecrets DEF PutSecret, SecretPut, Fail, Goto
<1>2. RestOK'
  <2>1. req' \in [Requests -> Request]
    BY <1>0, GotoTyped, FailTyped DEF RestOK, PutSecret, Steps
  <2>2. acked' \in [ProfileIDs -> Profile \cup {None}] /\ doubtful' \subseteq ProfileIDs
    BY <1>0, <1>0c DEF RestOK, PutSecret, Fail, Acknowledge
  <2> QED
    BY <1>0, <1>0c, <2>1, <2>2 DEF RestOK, PutSecret, Running, Fail, SaveOk, SaveFails, SecretPut, SecretDelete
<1>3. MutexInv'
  BY <1>0, <1>0a, <1>0b DEF RestOK, Request, MutexInv, InsideSteps, UpsertSteps, DeleteSteps, PutSecret, Running, Goto, Fail, Acknowledge, SaveOk, SaveFails, SecretPut, SecretDelete, Idle
<1>4. SectionInv'
  BY <1>0, <1>0a, <1>0b DEF RestOK, Request, Good, Data, SectionInv, MutexInv, InsideSteps, UpsertSteps, DeleteSteps, PutSecret, Running, Goto, Fail, Acknowledge, SaveOk, SaveFails, SecretPut, SecretDelete, Idle
<1>5. RecoveryInv' /\ StoreHealthHonest'
  BY <1>0, <1>0a DEF RestOK, RecoveryInv, StoreHealthHonest, MutexInv, InsideSteps, UpsertSteps, DeleteSteps, PutSecret, Running, Goto, Fail, Acknowledge, SaveOk, SaveFails, SecretPut, SecretDelete
<1> QED
  BY <1>1, <1>2, <1>3, <1>4, <1>5, Assemble

\* The profile switches to the new reference only after that secret was stored.
LEMMA CommitProfileInv ==
    ASSUME IInv, NEW r \in Requests, CommitProfile(r)
    PROVE  IInv'
<1> USE ProfileTxnAssumption, NoneAssumption
<1>0. Good(mem, secrets) /\ Good(disk, secrets) /\ RestOK
  BY TypeParts
<1>0a. MutexInv /\ SectionInv /\ RecoveryInv /\ StoreHealthHonest
  BY DEF IInv
<1>0b. req[r] \in Request /\ req[r].id \in ProfileIDs \cup {None}
  BY <1>0 DEF RestOK, Request
<1>0c. /\ mem.intent.new \in Profile /\ mem.intent.new.ref[1] = req[r].id
       /\ mem.intent.new.ref \in secrets /\ req[r].id \in ProfileIDs
  BY <1>0, <1>0a, <1>0b DEF CommitProfile, Running, SectionInv, Good, Data, RefsOwned, IntentOwned,
     UpsertSteps, Intent
<1>1. Good(mem, secrets)' /\ Good(disk, secrets)'
  <2>1. Good(mem', secrets)
    BY <1>0, <1>0c, EditProfile DEF CommitProfile
  <2> QED
    BY <1>0, <2>1 DEF CommitProfile, SaveOk, SaveFails
<1>2. RestOK'
  <2>1. req' \in [Requests -> Request]
    BY <1>0, ConstantsTyped DEF RestOK, CommitProfile, Fail, Goto, Steps, Request
  <2>2. acked' \in [ProfileIDs -> Profile \cup {None}] /\ doubtful' \subseteq ProfileIDs
    BY <1>0, <1>0c DEF RestOK, CommitProfile, Fail, Acknowledge
  <2> QED
    BY <1>0, <1>0c, <2>1, <2>2 DEF RestOK, CommitProfile, Running, Fail, SaveOk, SaveFails, SecretPut, SecretDelete
<1>3. MutexInv'
  BY <1>0, <1>0a, <1>0b DEF RestOK, Request, MutexInv, InsideSteps, UpsertSteps, DeleteSteps, CommitProfile, Running, Goto, Fail, Acknowledge, SaveOk, SaveFails, SecretPut, SecretDelete, Idle
<1>4. SectionInv'
  BY <1>0, <1>0a, <1>0b DEF RestOK, Request, Good, Data, SectionInv, MutexInv, InsideSteps, UpsertSteps, DeleteSteps, CommitProfile, Running, Goto, Fail, Acknowledge, SaveOk, SaveFails, SecretPut, SecretDelete, Idle
<1>5. RecoveryInv' /\ StoreHealthHonest'
  BY <1>0, <1>0a DEF RestOK, RecoveryInv, StoreHealthHonest, MutexInv, InsideSteps, UpsertSteps, DeleteSteps, CommitProfile, Running, Goto, Fail, Acknowledge, SaveOk, SaveFails, SecretPut, SecretDelete
<1> QED
  BY <1>1, <1>2, <1>3, <1>4, <1>5, Assemble

\* The old secret goes only when neither the file nor memory uses it any more.
LEMMA DropOldSecretInv ==
    ASSUME IInv, NEW r \in Requests, DropOldSecret(r)
    PROVE  IInv'
<1> USE ProfileTxnAssumption, NoneAssumption
<1>0. Good(mem, secrets) /\ Good(disk, secrets) /\ RestOK
  BY TypeParts
<1>0a. MutexInv /\ SectionInv /\ RecoveryInv /\ StoreHealthHonest
  BY DEF IInv
<1>0b. req[r] \in Request /\ req[r].id \in ProfileIDs \cup {None}
  BY <1>0 DEF RestOK, Request
<1>0c. /\ mem.intent.old \in Refs /\ mem.intent.old[1] = req[r].id
       /\ req[r].id \in ProfileIDs /\ daemon # "down" /\ storeOK
  BY <1>0, <1>0a, <1>0b DEF DropOldSecret, Running, SectionInv, MutexInv, Good, Data, RefsOwned, IntentOwned,
     UpsertSteps, DeleteSteps, InsideSteps, Intent
<1>0d. mem.profiles[req[r].id] # None => mem.profiles[req[r].id].ref # mem.intent.old
  BY <1>0a DEF DropOldSecret, Running, SectionInv
<1>1. Good(mem, secrets)' /\ Good(disk, secrets)'
  <2>1. Good(mem, secrets \ {mem.intent.old})
    BY <1>0, <1>0c, <1>0d, FewerSecrets
  <2>2. Good(disk, secrets \ {mem.intent.old})
    BY <1>0, <1>0c, <1>0d, HealthyTwin, FewerSecrets DEF Twin
  <2> QED
    BY <1>0, <1>0c, <2>1, <2>2 DEF DropOldSecret, SecretDelete, Fail
<1>2. RestOK'
  <2>1. req' \in [Requests -> Request]
    BY <1>0, GotoTyped, FailTyped DEF RestOK, DropOldSecret, Steps
  <2>2. acked' \in [ProfileIDs -> Profile \cup {None}] /\ doubtful' \subseteq ProfileIDs
    BY <1>0, <1>0c DEF RestOK, DropOldSecret, Fail, Acknowledge
  <2> QED
    BY <1>0, <1>0c, <2>1, <2>2 DEF RestOK, DropOldSecret, Running, Fail, SaveOk, SaveFails, SecretPut, SecretDelete
<1>3. MutexInv'
  BY <1>0, <1>0a, <1>0b DEF RestOK, Request, MutexInv, InsideSteps, UpsertSteps, DeleteSteps, DropOldSecret, Running, Goto, Fail, Acknowledge, SaveOk, SaveFails, SecretPut, SecretDelete, Idle
<1>4. SectionInv'
  BY <1>0, <1>0a, <1>0b DEF RestOK, Request, Good, Data, SectionInv, MutexInv, InsideSteps, UpsertSteps, DeleteSteps, DropOldSecret, Running, Goto, Fail, Acknowledge, SaveOk, SaveFails, SecretPut, SecretDelete, Idle
<1>5. RecoveryInv' /\ StoreHealthHonest'
  BY <1>0, <1>0a DEF RestOK, RecoveryInv, StoreHealthHonest, MutexInv, InsideSteps, UpsertSteps, DeleteSteps, DropOldSecret, Running, Goto, Fail, Acknowledge, SaveOk, SaveFails, SecretPut, SecretDelete
<1> QED
  BY <1>1, <1>2, <1>3, <1>4, <1>5, Assemble

\* Clearing the intent changes no reference; a failed save leaves health honest.
LEMMA ClearIntentInv ==
    ASSUME IInv, NEW r \in Requests, ClearIntent(r)
    PROVE  IInv'
<1> USE ProfileTxnAssumption, NoneAssumption
<1>0. Good(mem, secrets) /\ Good(disk, secrets) /\ RestOK
  BY TypeParts
<1>0a. MutexInv /\ SectionInv /\ RecoveryInv /\ StoreHealthHonest
  BY DEF IInv
<1>0b. req[r] \in Request /\ req[r].id \in ProfileIDs \cup {None}
  BY <1>0 DEF RestOK, Request
<1>0c. req[r].id \in ProfileIDs
  BY <1>0a, <1>0b DEF ClearIntent, Running, MutexInv, InsideSteps, UpsertSteps, DeleteSteps
<1>0d. mem.intent.new \in Profile
  BY <1>0, <1>0a DEF ClearIntent, Running, SectionInv, Good, Data, RefsOwned, IntentOwned,
     UpsertSteps, Intent
<1>1. Good(mem, secrets)' /\ Good(disk, secrets)'
  <2>1. Good([mem EXCEPT !.intent = None], secrets)
    BY <1>0, EditIntent DEF IntentOwned
  <2> QED
    BY <1>0, <2>1 DEF ClearIntent, SaveOk, SaveFails, Fail
<1>2. RestOK'
  <2>1. req' \in [Requests -> Request]
    BY <1>0, ConstantsTyped DEF RestOK, ClearIntent, Fail, Goto, Steps, Request
  <2>2. acked' \in [ProfileIDs -> Profile \cup {None}] /\ doubtful' \subseteq ProfileIDs
    BY <1>0, <1>0c, <1>0d DEF RestOK, ClearIntent, Fail, Acknowledge
  <2> QED
    BY <1>0, <1>0c, <2>1, <2>2 DEF RestOK, ClearIntent, Running, Fail, SaveOk, SaveFails, SecretPut, SecretDelete
<1>3. MutexInv'
  BY <1>0, <1>0a, <1>0b DEF RestOK, Request, MutexInv, InsideSteps, UpsertSteps, DeleteSteps, ClearIntent, Running, Goto, Fail, Acknowledge, SaveOk, SaveFails, SecretPut, SecretDelete, Idle
<1>4. SectionInv'
  BY <1>0, <1>0a, <1>0b DEF RestOK, Request, Good, Data, SectionInv, MutexInv, InsideSteps, UpsertSteps, DeleteSteps, ClearIntent, Running, Goto, Fail, Acknowledge, SaveOk, SaveFails, SecretPut, SecretDelete, Idle
<1>5. RecoveryInv' /\ StoreHealthHonest'
  BY <1>0, <1>0a DEF RestOK, RecoveryInv, StoreHealthHonest, MutexInv, InsideSteps, UpsertSteps, DeleteSteps, ClearIntent, Running, Goto, Fail, Acknowledge, SaveOk, SaveFails, SecretPut, SecretDelete
<1> QED
  BY <1>1, <1>2, <1>3, <1>4, <1>5, Assemble

\* The save that makes a first profile current changes only the selection.
LEMMA SetFirstCurrentInv ==
    ASSUME IInv, NEW r \in Requests, SetFirstCurrent(r)
    PROVE  IInv'
<1> USE ProfileTxnAssumption, NoneAssumption
<1>0. Good(mem, secrets) /\ Good(disk, secrets) /\ RestOK
  BY TypeParts
<1>0a. MutexInv /\ SectionInv /\ RecoveryInv /\ StoreHealthHonest
  BY DEF IInv
<1>0b. req[r] \in Request /\ req[r].id \in ProfileIDs \cup {None}
  BY <1>0 DEF RestOK, Request
<1>0c. req[r].id \in ProfileIDs
  BY <1>0a, <1>0b DEF SetFirstCurrent, Running, MutexInv, InsideSteps, UpsertSteps, DeleteSteps
<1>1. Good(mem, secrets)' /\ Good(disk, secrets)'
  <2>1. mem' \in Data /\ mem'.profiles = mem.profiles /\ mem'.intent = mem.intent
    BY <1>0, <1>0b, <1>0c DEF SetFirstCurrent, Running, Good, Data, Request
  <2>2. Good(mem', secrets)
    BY <1>0, <2>1, EditSelection
  <2> QED
    BY <1>0, <2>2 DEF SetFirstCurrent, SaveOk, SaveFails
<1>2. RestOK'
  <2>1. req' \in [Requests -> Request]
    BY <1>0, ConstantsTyped DEF RestOK, SetFirstCurrent, Fail, Goto, Steps, Request
  <2>2. acked' \in [ProfileIDs -> Profile \cup {None}] /\ doubtful' \subseteq ProfileIDs
    BY <1>0, <1>0c DEF RestOK, SetFirstCurrent, Fail, Acknowledge
  <2> QED
    BY <1>0, <1>0c, <2>1, <2>2 DEF RestOK, SetFirstCurrent, Running, Fail, SaveOk, SaveFails, SecretPut, SecretDelete
<1>3. MutexInv'
  BY <1>0, <1>0a, <1>0b DEF RestOK, Request, MutexInv, InsideSteps, UpsertSteps, DeleteSteps, SetFirstCurrent, Running, Goto, Fail, Acknowledge, SaveOk, SaveFails, SecretPut, SecretDelete, Idle
<1>4. SectionInv'
  BY <1>0, <1>0a, <1>0b DEF RestOK, Request, Good, Data, SectionInv, MutexInv, InsideSteps, UpsertSteps, DeleteSteps, SetFirstCurrent, Running, Goto, Fail, Acknowledge, SaveOk, SaveFails, SecretPut, SecretDelete, Idle
<1>5. RecoveryInv' /\ StoreHealthHonest'
  BY <1>0, <1>0a DEF RestOK, RecoveryInv, StoreHealthHonest, MutexInv, InsideSteps, UpsertSteps, DeleteSteps, SetFirstCurrent, Running, Goto, Fail, Acknowledge, SaveOk, SaveFails, SecretPut, SecretDelete
<1> QED
  BY <1>1, <1>2, <1>3, <1>4, <1>5, Assemble

\* CreateProfileFor selecting the new profile changes only the selection.
LEMMA SelectCreatedInv ==
    ASSUME IInv, NEW r \in Requests, SelectCreated(r)
    PROVE  IInv'
<1> USE ProfileTxnAssumption, NoneAssumption
<1>0. Good(mem, secrets) /\ Good(disk, secrets) /\ RestOK
  BY TypeParts
<1>0a. MutexInv /\ SectionInv /\ RecoveryInv /\ StoreHealthHonest
  BY DEF IInv
<1>0b. req[r] \in Request /\ req[r].id \in ProfileIDs \cup {None}
  BY <1>0 DEF RestOK, Request
<1>0c. req[r].id \in ProfileIDs
  BY <1>0a, <1>0b DEF SelectCreated, Running, MutexInv
<1>1. Good(mem, secrets)' /\ Good(disk, secrets)'
  <2>1. mem' \in Data /\ mem'.profiles = mem.profiles /\ mem'.intent = mem.intent
    BY <1>0, <1>0b, <1>0c DEF SelectCreated, Running, Good, Data, Request
  <2>2. Good(mem', secrets)
    BY <1>0, <2>1, EditSelection
  <2> QED
    BY <1>0, <2>2 DEF SelectCreated, SaveOk, SaveFails
<1>2. RestOK'
  <2>1. req' \in [Requests -> Request]
    BY <1>0, ConstantsTyped DEF RestOK, SelectCreated, Fail, Goto, Steps, Request
  <2>2. acked' \in [ProfileIDs -> Profile \cup {None}] /\ doubtful' \subseteq ProfileIDs
    BY <1>0, <1>0c DEF RestOK, SelectCreated, Fail, Acknowledge
  <2> QED
    BY <1>0, <1>0c, <2>1, <2>2 DEF RestOK, SelectCreated, Running, Fail, SaveOk, SaveFails, SecretPut, SecretDelete
<1>3. MutexInv'
  BY <1>0, <1>0a, <1>0b DEF RestOK, Request, MutexInv, InsideSteps, UpsertSteps, DeleteSteps, SelectCreated, Running, Goto, Fail, Acknowledge, SaveOk, SaveFails, SecretPut, SecretDelete, Idle
<1>4. SectionInv'
  BY <1>0, <1>0a, <1>0b DEF RestOK, Request, Good, Data, SectionInv, MutexInv, InsideSteps, UpsertSteps, DeleteSteps, SelectCreated, Running, Goto, Fail, Acknowledge, SaveOk, SaveFails, SecretPut, SecretDelete, Idle
<1>5. RecoveryInv' /\ StoreHealthHonest'
  BY <1>0, <1>0a DEF RestOK, RecoveryInv, StoreHealthHonest, MutexInv, InsideSteps, UpsertSteps, DeleteSteps, SelectCreated, Running, Goto, Fail, Acknowledge, SaveOk, SaveFails, SecretPut, SecretDelete
<1> QED
  BY <1>1, <1>2, <1>3, <1>4, <1>5, Assemble

\* DeleteProfile refusing an unknown profile touches only the request.
LEMMA RefuseDeleteInv ==
    ASSUME IInv, NEW r \in Requests, RefuseDelete(r)
    PROVE  IInv'
<1> USE ProfileTxnAssumption, NoneAssumption
<1>0. Good(mem, secrets) /\ Good(disk, secrets) /\ RestOK
  BY TypeParts
<1>0a. MutexInv /\ SectionInv /\ RecoveryInv /\ StoreHealthHonest
  BY DEF IInv
<1>0b. req[r] \in Request /\ req[r].id \in ProfileIDs \cup {None}
  BY <1>0 DEF RestOK, Request
<1>1. Good(mem, secrets)' /\ Good(disk, secrets)'
  BY <1>0 DEF RefuseDelete
<1>2. RestOK'
  BY <1>0, <1>0a, <1>0b, ConstantsTyped DEF RestOK, Steps, MutexInv, InsideSteps, UpsertSteps, DeleteSteps, RefuseDelete, Running, Goto, Fail, Acknowledge, SaveOk, SaveFails, SecretPut, SecretDelete
<1>3. MutexInv'
  BY <1>0, <1>0a, <1>0b DEF RestOK, Request, MutexInv, InsideSteps, UpsertSteps, DeleteSteps, RefuseDelete, Running, Goto, Fail, Acknowledge, SaveOk, SaveFails, SecretPut, SecretDelete, Idle
<1>4. SectionInv'
  BY <1>0, <1>0a, <1>0b DEF RestOK, Request, Good, Data, SectionInv, MutexInv, InsideSteps, UpsertSteps, DeleteSteps, RefuseDelete, Running, Goto, Fail, Acknowledge, SaveOk, SaveFails, SecretPut, SecretDelete, Idle
<1>5. RecoveryInv' /\ StoreHealthHonest'
  BY <1>0, <1>0a DEF RestOK, RecoveryInv, StoreHealthHonest, MutexInv, InsideSteps, UpsertSteps, DeleteSteps, RefuseDelete, Running, Goto, Fail, Acknowledge, SaveOk, SaveFails, SecretPut, SecretDelete
<1> QED
  BY <1>1, <1>2, <1>3, <1>4, <1>5, Assemble

\* The delete intent names the reference the profile still has.
LEMMA WriteDeleteIntentInv ==
    ASSUME IInv, NEW r \in Requests, WriteDeleteIntent(r)
    PROVE  IInv'
<1> USE ProfileTxnAssumption, NoneAssumption
<1>0. Good(mem, secrets) /\ Good(disk, secrets) /\ RestOK
  BY TypeParts
<1>0a. MutexInv /\ SectionInv /\ RecoveryInv /\ StoreHealthHonest
  BY DEF IInv
<1>0b. req[r] \in Request /\ req[r].id \in ProfileIDs \cup {None}
  BY <1>0 DEF RestOK, Request
<1>0c. req[r].id \in ProfileIDs
  BY <1>0a, <1>0b DEF WriteDeleteIntent, Running, MutexInv
<1>1. Good(mem, secrets)' /\ Good(disk, secrets)'
  <2> DEFINE i == [kind |-> "delete", id |-> req[r].id, new |-> None, old |-> OldRef(req[r].id)]
  <2>1. i \in Intent /\ IntentOwned(i)
    BY <1>0, <1>0c DEF WriteDeleteIntent, Intent, IntentOwned, OldRef, Good, Data, RefsOwned, Profile
  <2>2. Good([mem EXCEPT !.intent = i], secrets) /\ Good([mem EXCEPT !.intent = None], secrets)
    BY <1>0, <2>1, EditIntent DEF IntentOwned
  <2> QED
    BY <1>0, <2>2 DEF WriteDeleteIntent, SaveOk, SaveFails, Fail
<1>2. RestOK'
  <2>1. req' \in [Requests -> Request]
    BY <1>0, ConstantsTyped DEF RestOK, WriteDeleteIntent, Fail, Goto, Steps, Request
  <2>2. acked' \in [ProfileIDs -> Profile \cup {None}] /\ doubtful' \subseteq ProfileIDs
    BY <1>0, <1>0c DEF RestOK, WriteDeleteIntent, Fail, Acknowledge
  <2> QED
    BY <1>0, <1>0c, <2>1, <2>2 DEF RestOK, WriteDeleteIntent, Running, Fail, SaveOk, SaveFails, SecretPut, SecretDelete
<1>3. MutexInv'
  BY <1>0, <1>0a, <1>0b DEF RestOK, Request, MutexInv, InsideSteps, UpsertSteps, DeleteSteps, WriteDeleteIntent, Running, Goto, Fail, Acknowledge, SaveOk, SaveFails, SecretPut, SecretDelete, Idle
<1>4. SectionInv'
  <2> DEFINE i == [kind |-> "delete", id |-> req[r].id, new |-> None, old |-> OldRef(req[r].id)]
  <2>1. mu = None /\ \A q \in Requests : req[q].step \notin InsideSteps
    BY <1>0, <1>0a DEF WriteDeleteIntent, Running, MutexInv, InsideSteps, UpsertSteps, DeleteSteps
  <2>2. CASE req' = [req EXCEPT ![r] = Idle]
    BY <1>0, <2>1, <2>2 DEF RestOK, SectionInv, Idle, InsideSteps, UpsertSteps, DeleteSteps
  <2>3. CASE mem' = [mem EXCEPT !.intent = i] /\ req' = [req EXCEPT ![r].step = "delCommit"]
    <3>1. mem'.intent = i /\ i # None
      BY <1>0, <1>0c, <2>3 DEF WriteDeleteIntent, Intent, OldRef, Good, Data, Profile
    <3>2. \A q \in Requests : q # r => req'[q].step \notin InsideSteps
      BY <1>0, <2>1, <2>3 DEF RestOK
    <3>3. req'[r].id = req[r].id /\ req'[r].step = "delCommit"
      BY <1>0, <2>3 DEF RestOK, Request
    <3> QED
      BY <3>1, <3>2, <3>3 DEF SectionInv, InsideSteps, UpsertSteps, DeleteSteps
  <2> QED
    BY <2>2, <2>3 DEF WriteDeleteIntent, Goto, Fail
<1>5. RecoveryInv' /\ StoreHealthHonest'
  BY <1>0, <1>0a DEF RestOK, RecoveryInv, StoreHealthHonest, MutexInv, InsideSteps, UpsertSteps, DeleteSteps, WriteDeleteIntent, Running, Goto, Fail, Acknowledge, SaveOk, SaveFails, SecretPut, SecretDelete
<1> QED
  BY <1>1, <1>2, <1>3, <1>4, <1>5, Assemble

\* Removing a profile leaves the references of the others alone.
LEMMA CommitDeleteInv ==
    ASSUME IInv, NEW r \in Requests, CommitDelete(r)
    PROVE  IInv'
<1> USE ProfileTxnAssumption, NoneAssumption
<1>0. Good(mem, secrets) /\ Good(disk, secrets) /\ RestOK
  BY TypeParts
<1>0a. MutexInv /\ SectionInv /\ RecoveryInv /\ StoreHealthHonest
  BY DEF IInv
<1>0b. req[r] \in Request /\ req[r].id \in ProfileIDs \cup {None}
  BY <1>0 DEF RestOK, Request
<1>0c. req[r].id \in ProfileIDs
  BY <1>0a, <1>0b DEF CommitDelete, Running, MutexInv, InsideSteps, UpsertSteps, DeleteSteps
<1>1. Good(mem, secrets)' /\ Good(disk, secrets)'
  <2> DEFINE e == [mem EXCEPT !.profiles[req[r].id] = None]
  <2>1. Good(e, secrets) /\ e.intent = mem.intent
    BY <1>0, <1>0c, EditProfile
  <2>2. CurrentAfterDelete(req[r].id) \in ProfileIDs \cup {None}
    BY <1>0 DEF CurrentAfterDelete, Good, Data
  <2>3. Unselect(req[r].id) \in [Actors -> ProfileIDs \cup {None}]
    BY <1>0 DEF Unselect, Good, Data
  <2>4. mem' \in Data /\ mem'.profiles = e.profiles /\ mem'.intent = e.intent
    BY <1>0, <1>0c, <2>2, <2>3 DEF CommitDelete, Good, Data
  <2>5. Good(mem', secrets)
    BY <2>1, <2>4, EditSelection
  <2> QED
    BY <1>0, <2>5 DEF CommitDelete, SaveOk, SaveFails
<1>2. RestOK'
  <2>1. req' \in [Requests -> Request]
    BY <1>0, GotoTyped, FailTyped DEF RestOK, CommitDelete, Steps
  <2>2. acked' \in [ProfileIDs -> Profile \cup {None}] /\ doubtful' \subseteq ProfileIDs
    BY <1>0, <1>0c DEF RestOK, CommitDelete, Fail, Acknowledge
  <2> QED
    BY <1>0, <1>0c, <2>1, <2>2 DEF RestOK, CommitDelete, Running, Fail, SaveOk, SaveFails, SecretPut, SecretDelete
<1>3. MutexInv'
  BY <1>0, <1>0a, <1>0b DEF RestOK, Request, MutexInv, InsideSteps, UpsertSteps, DeleteSteps, CommitDelete, Running, Goto, Fail, Acknowledge, SaveOk, SaveFails, SecretPut, SecretDelete, Idle
<1>4. SectionInv'
  BY <1>0, <1>0a, <1>0b DEF RestOK, Request, Good, Data, SectionInv, MutexInv, InsideSteps, UpsertSteps, DeleteSteps, CommitDelete, Running, Goto, Fail, Acknowledge, SaveOk, SaveFails, SecretPut, SecretDelete, Idle
<1>5. RecoveryInv' /\ StoreHealthHonest'
  BY <1>0, <1>0a DEF RestOK, RecoveryInv, StoreHealthHonest, MutexInv, InsideSteps, UpsertSteps, DeleteSteps, CommitDelete, Running, Goto, Fail, Acknowledge, SaveOk, SaveFails, SecretPut, SecretDelete
<1> QED
  BY <1>1, <1>2, <1>3, <1>4, <1>5, Assemble

\* The deleted profile's secret goes when no file refers to it.
LEMMA DeleteSecretInv ==
    ASSUME IInv, NEW r \in Requests, DeleteSecret(r)
    PROVE  IInv'
<1> USE ProfileTxnAssumption, NoneAssumption
<1>0. Good(mem, secrets) /\ Good(disk, secrets) /\ RestOK
  BY TypeParts
<1>0a. MutexInv /\ SectionInv /\ RecoveryInv /\ StoreHealthHonest
  BY DEF IInv
<1>0b. req[r] \in Request /\ req[r].id \in ProfileIDs \cup {None}
  BY <1>0 DEF RestOK, Request
<1>0c. /\ mem.intent.old \in Refs /\ mem.intent.old[1] = req[r].id
       /\ req[r].id \in ProfileIDs /\ daemon # "down" /\ storeOK
  BY <1>0, <1>0a, <1>0b DEF DeleteSecret, Running, SectionInv, MutexInv, Good, Data, RefsOwned, IntentOwned,
     UpsertSteps, DeleteSteps, InsideSteps, Intent
<1>0d. mem.profiles[req[r].id] # None => mem.profiles[req[r].id].ref # mem.intent.old
  BY <1>0a DEF DeleteSecret, Running, SectionInv
<1>1. Good(mem, secrets)' /\ Good(disk, secrets)'
  <2>1. Good(mem, secrets \ {mem.intent.old})
    BY <1>0, <1>0c, <1>0d, FewerSecrets
  <2>2. Good(disk, secrets \ {mem.intent.old})
    BY <1>0, <1>0c, <1>0d, HealthyTwin, FewerSecrets DEF Twin
  <2> QED
    BY <1>0, <1>0c, <2>1, <2>2 DEF DeleteSecret, SecretDelete, Fail
<1>2. RestOK'
  <2>1. req' \in [Requests -> Request]
    BY <1>0, GotoTyped, FailTyped DEF RestOK, DeleteSecret, Steps
  <2>2. acked' \in [ProfileIDs -> Profile \cup {None}] /\ doubtful' \subseteq ProfileIDs
    BY <1>0, <1>0c DEF RestOK, DeleteSecret, Fail, Acknowledge
  <2> QED
    BY <1>0, <1>0c, <2>1, <2>2 DEF RestOK, DeleteSecret, Running, Fail, SaveOk, SaveFails, SecretPut, SecretDelete
<1>3. MutexInv'
  BY <1>0, <1>0a, <1>0b DEF RestOK, Request, MutexInv, InsideSteps, UpsertSteps, DeleteSteps, DeleteSecret, Running, Goto, Fail, Acknowledge, SaveOk, SaveFails, SecretPut, SecretDelete, Idle
<1>4. SectionInv'
  BY <1>0, <1>0a, <1>0b DEF RestOK, Request, Good, Data, SectionInv, MutexInv, InsideSteps, UpsertSteps, DeleteSteps, DeleteSecret, Running, Goto, Fail, Acknowledge, SaveOk, SaveFails, SecretPut, SecretDelete, Idle
<1>5. RecoveryInv' /\ StoreHealthHonest'
  BY <1>0, <1>0a DEF RestOK, RecoveryInv, StoreHealthHonest, MutexInv, InsideSteps, UpsertSteps, DeleteSteps, DeleteSecret, Running, Goto, Fail, Acknowledge, SaveOk, SaveFails, SecretPut, SecretDelete
<1> QED
  BY <1>1, <1>2, <1>3, <1>4, <1>5, Assemble

\* Clearing the delete intent changes no reference.
LEMMA ClearDeleteIntentInv ==
    ASSUME IInv, NEW r \in Requests, ClearDeleteIntent(r)
    PROVE  IInv'
<1> USE ProfileTxnAssumption, NoneAssumption
<1>0. Good(mem, secrets) /\ Good(disk, secrets) /\ RestOK
  BY TypeParts
<1>0a. MutexInv /\ SectionInv /\ RecoveryInv /\ StoreHealthHonest
  BY DEF IInv
<1>0b. req[r] \in Request /\ req[r].id \in ProfileIDs \cup {None}
  BY <1>0 DEF RestOK, Request
<1>0c. req[r].id \in ProfileIDs
  BY <1>0a, <1>0b DEF ClearDeleteIntent, Running, MutexInv, InsideSteps, UpsertSteps, DeleteSteps
<1>1. Good(mem, secrets)' /\ Good(disk, secrets)'
  <2>1. Good([mem EXCEPT !.intent = None], secrets)
    BY <1>0, EditIntent DEF IntentOwned
  <2> QED
    BY <1>0, <2>1 DEF ClearDeleteIntent, SaveOk, SaveFails, Fail
<1>2. RestOK'
  <2>1. req' \in [Requests -> Request]
    BY <1>0, ConstantsTyped DEF RestOK, ClearDeleteIntent, Fail, Goto, Steps, Request
  <2>2. acked' \in [ProfileIDs -> Profile \cup {None}] /\ doubtful' \subseteq ProfileIDs
    BY <1>0, <1>0c DEF RestOK, ClearDeleteIntent, Fail, Acknowledge
  <2> QED
    BY <1>0, <1>0c, <2>1, <2>2 DEF RestOK, ClearDeleteIntent, Running, Fail, SaveOk, SaveFails, SecretPut, SecretDelete
<1>3. MutexInv'
  BY <1>0, <1>0a, <1>0b DEF RestOK, Request, MutexInv, InsideSteps, UpsertSteps, DeleteSteps, ClearDeleteIntent, Running, Goto, Fail, Acknowledge, SaveOk, SaveFails, SecretPut, SecretDelete, Idle
<1>4. SectionInv'
  BY <1>0, <1>0a, <1>0b DEF RestOK, Request, Good, Data, SectionInv, MutexInv, InsideSteps, UpsertSteps, DeleteSteps, ClearDeleteIntent, Running, Goto, Fail, Acknowledge, SaveOk, SaveFails, SecretPut, SecretDelete, Idle
<1>5. RecoveryInv' /\ StoreHealthHonest'
  BY <1>0, <1>0a DEF RestOK, RecoveryInv, StoreHealthHonest, MutexInv, InsideSteps, UpsertSteps, DeleteSteps, ClearDeleteIntent, Running, Goto, Fail, Acknowledge, SaveOk, SaveFails, SecretPut, SecretDelete
<1> QED
  BY <1>1, <1>2, <1>3, <1>4, <1>5, Assemble

\* ConnectFor changes only the selection.
LEMMA SelectForConnectInv ==
    ASSUME IInv, NEW r \in Requests, SelectForConnect(r)
    PROVE  IInv'
<1> USE ProfileTxnAssumption, NoneAssumption
<1>0. Good(mem, secrets) /\ Good(disk, secrets) /\ RestOK
  BY TypeParts
<1>0a. MutexInv /\ SectionInv /\ RecoveryInv /\ StoreHealthHonest
  BY DEF IInv
<1>0b. req[r] \in Request /\ req[r].id \in ProfileIDs \cup {None}
  BY <1>0 DEF RestOK, Request
<1>0c. req[r].id \in ProfileIDs
  BY <1>0a, <1>0b DEF SelectForConnect, Running, MutexInv
<1>1. Good(mem, secrets)' /\ Good(disk, secrets)'
  <2>1. mem' \in Data /\ mem'.profiles = mem.profiles /\ mem'.intent = mem.intent
    <3>1. CASE mem' = mem
      BY <1>0, <3>1 DEF Good
    <3>2. CASE mem' # mem
      <4>1. mem' = [mem EXCEPT
                !.selected[req[r].actor] =
                    IF req[r].id \notin MachineScope /\ Owner[req[r].id] = req[r].actor
                    THEN req[r].id ELSE @,
                !.current = req[r].id]
        BY <3>2 DEF SelectForConnect
      <4> QED
        BY <1>0, <1>0b, <1>0c, <4>1 DEF Good, Data, Request
    <3> QED
      BY <3>1, <3>2
  <2>2. Good(mem', secrets)
    BY <1>0, <2>1, EditSelection
  <2> QED
    BY <1>0, <2>2 DEF SelectForConnect, SaveOk, SaveFails
<1>2. RestOK'
  <2>1. req' \in [Requests -> Request]
    BY <1>0, ConstantsTyped DEF RestOK, SelectForConnect, Found, Fail, Goto, Steps, Request
  <2>2. acked' \in [ProfileIDs -> Profile \cup {None}] /\ doubtful' \subseteq ProfileIDs
    BY <1>0, <1>0c DEF RestOK, SelectForConnect, Fail, Acknowledge
  <2> QED
    BY <1>0, <1>0c, <2>1, <2>2 DEF RestOK, SelectForConnect, Running, Fail, SaveOk, SaveFails, SecretPut, SecretDelete
<1>3. MutexInv'
  BY <1>0, <1>0a, <1>0b DEF RestOK, Request, MutexInv, InsideSteps, UpsertSteps, DeleteSteps, SelectForConnect, Found, Running, Goto, Fail, Acknowledge, SaveOk, SaveFails, SecretPut, SecretDelete, Idle
<1>4. SectionInv'
  BY <1>0, <1>0a, <1>0b DEF RestOK, Request, Good, Data, SectionInv, MutexInv, InsideSteps, UpsertSteps, DeleteSteps, SelectForConnect, Found, Running, Goto, Fail, Acknowledge, SaveOk, SaveFails, SecretPut, SecretDelete, Idle
<1>5. RecoveryInv' /\ StoreHealthHonest'
  BY <1>0, <1>0a DEF RestOK, RecoveryInv, StoreHealthHonest, MutexInv, InsideSteps, UpsertSteps, DeleteSteps, SelectForConnect, Found, Running, Goto, Fail, Acknowledge, SaveOk, SaveFails, SecretPut, SecretDelete
<1> QED
  BY <1>1, <1>2, <1>3, <1>4, <1>5, Assemble

\* SetControlMode changes only mode and selection.
LEMMA SetControlModeInv ==
    ASSUME IInv, NEW r \in Requests, SetControlMode(r)
    PROVE  IInv'
<1> USE ProfileTxnAssumption, NoneAssumption
<1>0. Good(mem, secrets) /\ Good(disk, secrets) /\ RestOK
  BY TypeParts
<1>0a. MutexInv /\ SectionInv /\ RecoveryInv /\ StoreHealthHonest
  BY DEF IInv
<1>0b. req[r] \in Request /\ req[r].id \in ProfileIDs \cup {None}
  BY <1>0 DEF RestOK, Request
<1>0c. req[r].id \in ProfileIDs \cup {None}
  BY <1>0b
<1>1. Good(mem, secrets)' /\ Good(disk, secrets)'
  <2>1. mem' \in Data /\ mem'.profiles = mem.profiles /\ mem'.intent = mem.intent
    BY <1>0, <1>0b, <1>0c DEF SetControlMode, Running, Good, Data, Request
  <2>2. Good(mem', secrets)
    BY <1>0, <2>1, EditSelection
  <2> QED
    BY <1>0, <2>2 DEF SetControlMode, SaveOk, SaveFails
<1>2. RestOK'
  <2>1. req' \in [Requests -> Request]
    BY <1>0, ConstantsTyped DEF RestOK, SetControlMode, Found, Fail, Goto, Steps, Request
  <2>2. acked' \in [ProfileIDs -> Profile \cup {None}] /\ doubtful' \subseteq ProfileIDs
    BY <1>0, <1>0c DEF RestOK, SetControlMode, Fail, Acknowledge
  <2> QED
    BY <1>0, <1>0c, <2>1, <2>2 DEF RestOK, SetControlMode, Running, Fail, SaveOk, SaveFails, SecretPut, SecretDelete
<1>3. MutexInv'
  <2>1. \/ req' = [req EXCEPT ![r] = Idle]
        \/ req' = [req EXCEPT ![r].step = "begin"] /\ req[r].op = "machine"
    BY DEF SetControlMode, Found, Goto
  <2>2. /\ daemon = "up" /\ mu \in {None, r} /\ req[r].step = "start"
        /\ UNCHANGED <<daemon, mu>>
    BY DEF SetControlMode, Running
  <2>3. mu = None
    BY <1>0a, <2>2 DEF MutexInv, InsideSteps, UpsertSteps, DeleteSteps
  <2> QED
    BY <1>0, <1>0a, <1>0b, <2>1, <2>2, <2>3 DEF RestOK, Request, MutexInv, InsideSteps, UpsertSteps,
       DeleteSteps, Idle
<1>4. SectionInv'
  BY <1>0, <1>0a, <1>0b DEF RestOK, Request, Good, Data, SectionInv, MutexInv, InsideSteps, UpsertSteps, DeleteSteps, SetControlMode, Found, Running, Goto, Fail, Acknowledge, SaveOk, SaveFails, SecretPut, SecretDelete, Idle
<1>5. RecoveryInv' /\ StoreHealthHonest'
  BY <1>0, <1>0a DEF RestOK, RecoveryInv, StoreHealthHonest, MutexInv, InsideSteps, UpsertSteps, DeleteSteps, SetControlMode, Found, Running, Goto, Fail, Acknowledge, SaveOk, SaveFails, SecretPut, SecretDelete
<1> QED
  BY <1>1, <1>2, <1>3, <1>4, <1>5, Assemble

\* A reconnection that starts has changed nothing yet.
LEMMA StartReconnectInv ==
    ASSUME IInv, NEW r \in Requests, StartReconnect(r)
    PROVE  IInv'
<1> USE ProfileTxnAssumption, NoneAssumption
<1>0. Good(mem, secrets) /\ Good(disk, secrets) /\ RestOK
  BY TypeParts
<1>0a. MutexInv /\ SectionInv /\ RecoveryInv /\ StoreHealthHonest
  BY DEF IInv
<1>0b. mem.current \in ProfileIDs
  BY <1>0 DEF StartReconnect, Good, Data
<1>1. Good(mem, secrets)' /\ Good(disk, secrets)'
  BY <1>0 DEF StartReconnect
<1>2. RestOK'
  BY <1>0, <1>0b DEF RestOK, StartReconnect, Request, Steps, Ops
<1>3. MutexInv'
  BY <1>0, <1>0a, <1>0b DEF RestOK, Request, MutexInv, InsideSteps, UpsertSteps, DeleteSteps,
     StartReconnect
<1>4. SectionInv'
  BY <1>0, <1>0a DEF RestOK, Request, SectionInv, MutexInv, UpsertSteps, DeleteSteps,
     StartReconnect
<1>5. RecoveryInv' /\ StoreHealthHonest'
  BY <1>0a DEF RecoveryInv, StoreHealthHonest, StartReconnect
<1> QED
  BY <1>1, <1>2, <1>3, <1>4, <1>5, Assemble

\* A connection attempt moves the current profile in memory and nothing else.
LEMMA BeginConnectInv ==
    ASSUME IInv, NEW r \in Requests, BeginConnect(r)
    PROVE  IInv'
<1> USE ProfileTxnAssumption, NoneAssumption
<1>0. Good(mem, secrets) /\ Good(disk, secrets) /\ RestOK
  BY TypeParts
<1>0a. MutexInv /\ SectionInv /\ RecoveryInv /\ StoreHealthHonest
  BY DEF IInv
<1>0b. req[r] \in Request /\ req[r].id \in ProfileIDs \cup {None}
  BY <1>0 DEF RestOK, Request
<1>0c. /\ mem' \in Data /\ mem'.profiles = mem.profiles /\ mem'.intent = mem.intent
       /\ ButCurrent(mem') = ButCurrent(mem)
  <2> DEFINE m == [mem EXCEPT !.current = req[r].id]
  <2>1. /\ m \in Data /\ m.profiles = mem.profiles /\ m.intent = mem.intent
        /\ ButCurrent(m) = ButCurrent(mem)
    BY <1>0, <1>0b, EditCurrent DEF Good
  <2>2. mem' = mem \/ mem' = m
    BY DEF BeginConnect
  <2> HIDE DEF m
  <2> QED
    BY <1>0, <2>1, <2>2 DEF Good
<1>1. Good(mem, secrets)' /\ Good(disk, secrets)'
  BY <1>0, <1>0c, EditSelection DEF BeginConnect
<1>2. RestOK'
  BY <1>0, <1>0b, ConstantsTyped DEF RestOK, BeginConnect
<1>3. MutexInv'
  BY <1>0, <1>0a, <1>0b DEF RestOK, Request, MutexInv, InsideSteps, UpsertSteps, DeleteSteps, BeginConnect, Running, Idle
<1>4. SectionInv'
  BY <1>0, <1>0a, <1>0c DEF RestOK, SectionInv, MutexInv, InsideSteps, UpsertSteps, DeleteSteps, BeginConnect, Running, Idle
<1>5. RecoveryInv' /\ StoreHealthHonest'
  BY <1>0a, <1>0c DEF RecoveryInv, StoreHealthHonest, BeginConnect, Running
<1> QED
  BY <1>1, <1>2, <1>3, <1>4, <1>5, Assemble

\* A request that starts has changed nothing yet.
LEMMA StartRequestInv ==
    ASSUME IInv, NEW r \in Requests, NEW op \in Ops, NEW a \in Clients,
           NEW id \in ProfileIDs \cup {None}, StartRequest(r, op, a, id)
    PROVE  IInv'
<1> USE ProfileTxnAssumption, NoneAssumption
<1>0. Good(mem, secrets) /\ Good(disk, secrets) /\ RestOK
  BY TypeParts
<1>0a. MutexInv /\ SectionInv /\ RecoveryInv /\ StoreHealthHonest
  BY DEF IInv
<1>1. Good(mem, secrets)' /\ Good(disk, secrets)'
  BY <1>0 DEF StartRequest
<1>2. RestOK'
  BY <1>0 DEF RestOK, StartRequest, Request, Steps
<1>2a. op # "user" => id # None
  BY <1>0 DEF StartRequest, RestOK
<1>3. MutexInv'
  BY <1>0, <1>0a, <1>2a DEF RestOK, Request, MutexInv, InsideSteps, UpsertSteps, DeleteSteps,
     StartRequest
<1>4. SectionInv'
  BY <1>0, <1>0a DEF RestOK, Request, SectionInv, MutexInv, UpsertSteps, DeleteSteps,
     StartRequest
<1>5. RecoveryInv' /\ StoreHealthHonest'
  BY <1>0a DEF RecoveryInv, StoreHealthHonest, StartRequest
<1> QED
  BY <1>1, <1>2, <1>3, <1>4, <1>5, Assemble

-----------------------------------------------------------------------------
(* Crash and recovery.                                                      *)

\* Whatever the disk and the secrets are when the daemon stops, a stopped
\* daemon asks nothing more than that they are good.
LEMMA StopInv ==
    ASSUME IInv, Stop, UNCHANGED abandoned, Good(disk, secrets)', secrets' \subseteq Refs,
           storeOK' \in BOOLEAN, secretOK' \in BOOLEAN
    PROVE  IInv'
<1> USE ProfileTxnAssumption, NoneAssumption
<1>0. RestOK /\ MutexInv
  BY TypeParts DEF IInv
<1>1. Good(mem, secrets)'
  BY ConstantsTyped DEF Stop
<1>2. InFlight \subseteq ProfileIDs
  BY <1>0 DEF InFlight, RestOK, Request, MutexInv, InsideSteps, UpsertSteps, DeleteSteps
<1>3. RestOK'
  BY <1>0, <1>2, ConstantsTyped DEF RestOK, Stop, DaemonSteps
<1>4. MutexInv' /\ SectionInv'
  BY DEF Stop, Idle, MutexInv, SectionInv, InsideSteps, UpsertSteps, DeleteSteps
<1>5. RecoveryInv' /\ StoreHealthHonest'
  BY DEF Stop, RecoveryInv, StoreHealthHonest
<1> QED
  BY <1>1, <1>3, <1>4, <1>5, Assemble

\* A recovery step moves nothing but the daemon, its files and the history.
LEMMA ServeInv ==
    ASSUME IInv, daemon # "up", UNCHANGED <<mu, req, unusedIDs, unusedNonces, abandoned>>,
           Good(mem, secrets)', Good(disk, secrets)', secrets' \subseteq Refs,
           storeOK' \in BOOLEAN, secretOK' \in BOOLEAN, daemon' \in DaemonSteps,
           acked' \in [ProfileIDs -> Profile \cup {None}], doubtful' \subseteq ProfileIDs,
           RecoveryInv', StoreHealthHonest'
    PROVE  IInv'
<1> USE ProfileTxnAssumption
<1>0. RestOK /\ MutexInv
  BY TypeParts DEF IInv
<1>1. mu = None /\ \A r \in Requests : req[r].step = "idle"
  BY <1>0 DEF RestOK, MutexInv
<1>2. RestOK'
  BY <1>0 DEF RestOK
<1>3. MutexInv' /\ SectionInv'
  BY <1>1 DEF MutexInv, SectionInv, InsideSteps, UpsertSteps, DeleteSteps
<1> QED
  BY <1>2, <1>3, Assemble

\* A crash keeps both files as they are on disk.
LEMMA CrashInv == IInv /\ Crash => IInv'
BY StopInv, TypeParts DEF Crash, RestOK

\* load() reads a good file, or refuses to serve.
LEMMA LoadInv == IInv /\ Load => IInv'
<1> SUFFICES ASSUME IInv, Load PROVE IInv'
  OBVIOUS
<1>0. Good(disk, secrets) /\ RestOK /\ disk.profiles \in [ProfileIDs -> Profile \cup {None}]
  BY TypeParts DEF Good, Data
<1>1. Good(mem, secrets)' /\ Good(disk, secrets)'
  BY <1>0 DEF Load
<1>2. RecoveryInv' /\ StoreHealthHonest'
  BY DEF Load, Serve, RecoveryInv, StoreHealthHonest
<1>3. daemon' \in DaemonSteps /\ acked' \in [ProfileIDs -> Profile \cup {None}]
      /\ doubtful' \subseteq ProfileIDs
  BY <1>0 DEF Load, Serve, DaemonSteps, RestOK
<1> QED
  BY <1>0, <1>1, <1>2, <1>3, ServeInv DEF Load, RestOK

\* Both ways of clearing the intent at the end of recovery.
LEMMA ClearedInv ==
    ASSUME IInv, daemon # "up", UNCHANGED <<abandoned, secrets, secretOK>>,
           LET m == [mem EXCEPT !.intent = None]
           IN \/ SaveOk(m) /\ mem' = m /\ Serve(m)
                 /\ UNCHANGED <<mu, req, unusedIDs, unusedNonces>>
              \/ SaveFails(m) /\ Stop
    PROVE  IInv'
<1> DEFINE m == [mem EXCEPT !.intent = None]
<1>0. Good(mem, secrets) /\ Good(disk, secrets) /\ RestOK
  BY TypeParts
<1>1. Good(m, secrets) /\ m.profiles \in [ProfileIDs -> Profile \cup {None}]
  BY <1>0, EditIntent DEF IntentOwned, Good, Data
<1> HIDE DEF m
<1>2. CASE SaveFails(m) /\ Stop
  BY <1>0, <1>1, <1>2, StopInv DEF SaveFails, RestOK
<1>3. CASE SaveOk(m) /\ mem' = m /\ Serve(m) /\ UNCHANGED <<mu, req, unusedIDs, unusedNonces>>
  <2>1. RecoveryInv' /\ StoreHealthHonest'
    BY <1>3 DEF Serve, SaveOk, RecoveryInv, StoreHealthHonest
  <2> QED
    BY <1>0, <1>1, <1>3, <2>1, ServeInv DEF SaveOk, Serve, RestOK, DaemonSteps
<1> QED
  BY <1>2, <1>3 DEF m

\* recoverIntentLocked completes the profile list only with a new reference whose
\* secret is stored.
LEMMA RecoverProfilesInv == IInv /\ RecoverProfiles => IInv'
<1> SUFFICES ASSUME IInv, RecoverProfiles PROVE IInv'
  OBVIOUS
<1> DEFINE m == [mem EXCEPT !.profiles = Recovered(mem, secrets)]
<1>0. Good(mem, secrets) /\ Good(disk, secrets) /\ RestOK /\ RecoveryInv
  BY TypeParts DEF IInv
<1>0a. mem.intent \in Intent /\ mem.intent.id \in ProfileIDs
  BY <1>0 DEF RecoverProfiles, RecoveryInv, Good, Data, Intent
<1> DEFINE v == IF mem.intent.kind = "upsert" THEN mem.intent.new ELSE None
<1>0b. Recovered(mem, secrets) = [mem.profiles EXCEPT ![mem.intent.id] = v]
  BY <1>0, <1>0a DEF RecoverProfiles, RecoveryInv, Recovered, Intent
<1>0c. v \in Profile \cup {None} /\ (v # None => v.ref[1] = mem.intent.id /\ v.ref \in secrets)
  BY <1>0, <1>0a, NoneAssumption DEF RecoverProfiles, Good, RefsOwned, IntentOwned, Intent
<1>0d. m = [mem EXCEPT !.profiles[mem.intent.id] = v]
  BY <1>0b
<1> HIDE DEF m, v
<1>1. Good(m, secrets) /\ m.intent = mem.intent /\ m.profiles[mem.intent.id] = v
  BY <1>0, <1>0a, <1>0c, <1>0d, EditProfile
<1>2. CASE SaveFails(m) /\ Stop
  BY <1>0, <1>1, <1>2, StopInv DEF SaveFails, RestOK, RecoverProfiles
<1>3. CASE ~(SaveFails(m) /\ Stop)
  <2>1. /\ SaveOk(m) /\ mem' = m
        /\ daemon' = IF /\ mem.intent.old # None
                        /\ mem.intent.kind = "upsert" => mem.intent.old # mem.intent.new.ref
                     THEN "recDrop" ELSE "recClear"
        /\ UNCHANGED <<mu, req, unusedIDs, unusedNonces, acked, doubtful>>
    BY <1>3 DEF RecoverProfiles, m
  <2>2. RecoveryInv' /\ StoreHealthHonest'
    BY <1>0, <1>1, <2>1 DEF RecoverProfiles, SaveOk, RecoveryInv, StoreHealthHonest, v
  <2> QED
    BY <1>0, <1>1, <2>1, <2>2, ServeInv DEF RecoverProfiles, SaveOk, RestOK, DaemonSteps
<1> QED
  BY <1>2, <1>3

\* recoverIntentLocked removes the secret the recovered file does not use.
LEMMA RecoverSecretInv == IInv /\ RecoverSecret => IInv'
<1> SUFFICES ASSUME IInv, RecoverSecret PROVE IInv'
  OBVIOUS
<1>0. Good(mem, secrets) /\ Good(disk, secrets) /\ RestOK /\ RecoveryInv /\ StoreHealthHonest
  BY TypeParts DEF IInv
<1>1. /\ mem.intent \in Intent /\ mem.intent.old \in Refs
      /\ daemon # "down" /\ storeOK
  BY <1>0 DEF RecoverSecret, RecoveryInv, Good, Data, Intent
<1>2. mem.intent.old[1] = mem.intent.id
  BY <1>0, <1>1, NoneAssumption DEF Good, RefsOwned, IntentOwned
<1>3. mem.profiles[mem.intent.id] # None => mem.profiles[mem.intent.id].ref # mem.intent.old
  BY <1>0 DEF RecoverSecret, RecoveryInv
<1>4. Good(mem, secrets \ {mem.intent.old}) /\ Good(disk, secrets \ {mem.intent.old})
  BY <1>0, <1>1, <1>2, <1>3, HealthyTwin, FewerSecrets DEF Twin
<1>5. Good(mem, secrets') /\ Good(disk, secrets') /\ secrets' \subseteq Refs /\ secretOK' \in BOOLEAN
  BY <1>0, <1>1, <1>4 DEF RecoverSecret, SecretDelete, RestOK
<1>6. CASE Stop
  BY <1>0, <1>5, <1>6, StopInv DEF RecoverSecret, RestOK
<1>7. CASE ~Stop
  <2>1. daemon' = "recClear" /\ UNCHANGED <<mem, mu, req, unusedIDs, unusedNonces, acked, doubtful>>
    BY <1>7 DEF RecoverSecret
  <2>2. RecoveryInv' /\ StoreHealthHonest'
    BY <1>0, <2>1 DEF RecoverSecret, RecoveryInv, StoreHealthHonest
  <2> QED
    BY <1>0, <1>5, <2>1, <2>2, ServeInv DEF RecoverSecret, RestOK, DaemonSteps
<1> QED
  BY <1>6, <1>7

-----------------------------------------------------------------------------
(* The theorems.                                                            *)

\* The inductive invariant is inductive.
LEMMA NextIInv == IInv /\ [Next]_vars => IInv'
<1> SUFFICES ASSUME IInv, [Next]_vars PROVE IInv'
  OBVIOUS
<1>1. ASSUME NEW r \in Requests, RequestStep(r) PROVE IInv'
  BY <1>1, RefuseUpsertInv, WriteIntentInv, PutSecretInv, CommitProfileInv, DropOldSecretInv,
     ClearIntentInv, SetFirstCurrentInv, SelectCreatedInv, RefuseDeleteInv, WriteDeleteIntentInv,
     CommitDeleteInv, DeleteSecretInv, ClearDeleteIntentInv, SelectForConnectInv,
     SetControlModeInv, BeginConnectInv DEF RequestStep
<1>2. CASE Crash
  BY <1>2, CrashInv
<1>3. CASE Recovery
  <2>1. CASE DropIntent
    BY <2>1, ClearedInv DEF DropIntent
  <2>2. CASE RecoverClear
    BY <2>2, ClearedInv DEF RecoverClear
  <2> QED
    BY <1>3, <2>1, <2>2, LoadInv, RecoverProfilesInv, RecoverSecretInv DEF Recovery
<1>4. CASE UNCHANGED vars
  BY <1>4 DEF vars, IInv, TypeOK, RefsOwned, IntentOwned, Reachable, MutexInv, SectionInv, RecoveryInv,
     StoreHealthHonest
<1> QED
  BY <1>1, <1>2, <1>3, <1>4, StartRequestInv, StartReconnectInv DEF Next

\* The daemon starts on an empty, good state file.
LEMMA InitIInv == Init => IInv
<1> SUFFICES ASSUME Init PROVE IInv
  OBVIOUS
<1>1. Good(mem, secrets) /\ Good(disk, secrets)
  BY ConstantsTyped DEF Init
<1>2. RestOK
  BY ConstantsTyped, ProfileTxnAssumption DEF Init, RestOK, DaemonSteps
<1>3. MutexInv /\ SectionInv /\ RecoveryInv /\ StoreHealthHonest
  BY ProfileTxnAssumption DEF Init, Idle, MutexInv, SectionInv, RecoveryInv, InsideSteps,
     UpsertSteps, DeleteSteps, StoreHealthHonest
<1> QED
  BY <1>1, <1>2, <1>3 DEF Good, RestOK, TypeOK, IInv

\* IInv holds in every state of the profile store, crashes and failing saves included:
\* what TypeOK, CredentialsReachable and StoreHealthHonest need to be inductive.
THEOREM InductiveInvariant == Spec => []IInv
BY InitIInv, NextIInv, PTL DEF Spec

\* Every variable of the transaction keeps its type: requests of load(),
\* commitProfileLocked, DeleteProfile and recoverIntentLocked included.
THEOREM TypeCorrect == Spec => []TypeOK
<1>1. IInv => TypeOK
  BY DEF IInv
<1> QED
  BY <1>1, InductiveInvariant, PTL

\* For every number of profiles, actors, overlapping requests, failed writes
\* and crashes, no profile in the state file points at a secret that was
\* removed.
THEOREM CredentialsAlwaysReachable == Spec => []CredentialsReachable
<1>1. IInv => CredentialsReachable
  BY DEF IInv, Reachable, CredentialsReachable
<1> QED
  BY <1>1, InductiveInvariant, PTL

\* A ready store health always means that the state file equals memory, but for
\* the current profile that connectPreparedProfile moves unsaved.
THEOREM StoreHealthAlwaysHonest == Spec => []StoreHealthHonest
<1>1. IInv => StoreHealthHonest
  BY DEF IInv
<1> QED
  BY <1>1, InductiveInvariant, PTL

-----------------------------------------------------------------------------
(* AckedDurable.  On top of IInv it needs to know where a mutation is       *)
(* allowed to be unfinished: only on the profiles that are open.            *)

\* The profiles with a mutation that has not been answered with success.
Open == doubtful \cup InFlight

\* A state that agrees with the answers given, but for the open profiles.
Agrees(d, open, answers) ==
    /\ d.intent # None => d.intent.id \in open
    /\ \A id \in ProfileIDs \ open : d.profiles[id] = answers[id]

\* What a section that is about to answer has already written.
AnswerInv ==
    \A r \in Requests :
        /\ req[r].step = "clear" => mem.profiles[req[r].id] = mem.intent.new
        /\ req[r].step = "delClear" => mem.profiles[req[r].id] = None
        /\ req[r].step = "current" =>
             mem.intent = None /\ mem.profiles[req[r].id] = acked[req[r].id]

AckInv ==
    /\ Agrees(disk, Open, acked)
    /\ daemon # "down" => Agrees(mem, Open, acked)
    /\ AnswerInv

\* Opening more profiles never breaks the agreement.
LEMMA AgreesMore ==
    ASSUME NEW d, NEW o, NEW p, NEW a, Agrees(d, o, a), o \subseteq p
    PROVE  Agrees(d, p, a)
BY DEF Agrees

\* Selections play no part in the agreement.
LEMMA AgreesSame ==
    ASSUME NEW d, NEW e, NEW o, NEW a, Agrees(d, o, a),
           e.profiles = d.profiles, e.intent = d.intent
    PROVE  Agrees(e, o, a)
BY DEF Agrees

\* An intent on an open profile, or none, keeps the agreement.
LEMMA AgreesIntent ==
    ASSUME NEW d \in Data, NEW o, NEW a, Agrees(d, o, a), NEW i, i # None => i.id \in o
    PROVE  Agrees([d EXCEPT !.intent = i], o, a)
BY DEF Agrees, Data

\* Rewriting an open profile keeps the agreement.
LEMMA AgreesProfile ==
    ASSUME NEW d \in Data, NEW o, NEW a, Agrees(d, o, a), NEW id \in o, NEW v
    PROVE  Agrees([d EXCEPT !.profiles[id] = v], o, a)
BY DEF Agrees, Data

\* A request that is not inside a section finds s.mu free, one that is holds it.
LEMMA Holder ==
    ASSUME IInv, NEW r \in Requests, mu \in {None, r}
    PROVE  /\ req[r].step \in InsideSteps => mu = r /\ InFlight = {req[r].id}
           /\ req[r].step \notin InsideSteps => mu = None /\ InFlight = {}
           /\ daemon = "up" => Open \subseteq doubtful \cup {req[r].id}
<1>1. r # None
  BY ProfileTxnAssumption
<1>2. MutexInv
  BY DEF IInv
<1>3. req[r].step \in InsideSteps => mu = r
  BY <1>2 DEF MutexInv
<1>4. req[r].step \notin InsideSteps => mu = None
  BY <1>2 DEF MutexInv
<1>5. mu = r => storeOK /\ daemon = "up" /\ InFlight = {req[r].id}
  BY <1>1, <1>2 DEF MutexInv, InFlight
<1>6. mu = None => InFlight = {}
  BY DEF InFlight
<1> QED
  BY <1>2, <1>3, <1>4, <1>5, <1>6 DEF Open

\* With s.mu free no section is about to answer.
LEMMA AckFree ==
    ASSUME IInv', mu' = None, Agrees(disk, Open, acked)',
           daemon' # "down" => Agrees(mem, Open, acked)'
    PROVE  AckInv'
<1>1. MutexInv'
  BY DEF IInv
<1>2. \A r \in Requests : req'[r].step \notin InsideSteps
  BY <1>1, ProfileTxnAssumption DEF MutexInv
<1>3. AnswerInv'
  BY <1>2 DEF AnswerInv, InsideSteps, UpsertSteps, DeleteSteps
<1> QED
  BY <1>3 DEF AckInv

\* With s.mu held only the holder may be about to answer.
LEMMA AckHeld ==
    ASSUME IInv', NEW r \in Requests, mu' = r,
           Agrees(disk, Open, acked)', Agrees(mem, Open, acked)',
           req'[r].step = "clear" => mem'.profiles[req'[r].id] = mem'.intent.new,
           req'[r].step = "delClear" => mem'.profiles[req'[r].id] = None,
           req'[r].step = "current" =>
             mem'.intent = None /\ mem'.profiles[req'[r].id] = acked'[req'[r].id]
    PROVE  AckInv'
<1>1. MutexInv'
  BY DEF IInv
<1>2. \A q \in Requests : q # r => req'[q].step \notin InsideSteps
  BY <1>1 DEF MutexInv
<1>3. AnswerInv'
  BY <1>2 DEF AnswerInv, InsideSteps, UpsertSteps, DeleteSteps
<1> QED
  BY <1>3 DEF AckInv

\* A mutation that reports an error leaves its profile open.
LEMMA AckFail ==
    ASSUME IInv, IInv', AckInv, NEW r \in Requests, mu \in {None, r}, daemon = "up",
           daemon' = "up", Fail(r),
           Agrees(mem', doubtful \cup {req[r].id}, acked),
           Agrees(disk', doubtful \cup {req[r].id}, acked)
    PROVE  AckInv'
<1>1. mu' = None /\ acked' = acked /\ doubtful' = doubtful \cup {req[r].id}
  BY DEF Fail
<1>2. Open' = doubtful \cup {req[r].id}
  BY <1>1 DEF Open, InFlight
<1> QED
  BY <1>1, <1>2, AckFree

\* A step that changes no profile and no intent.
LEMMA AckQuiet ==
    ASSUME IInv, IInv', AckInv, daemon = "up", mu = None,
           UNCHANGED <<daemon, mu, acked, doubtful>>,
           mem'.profiles = mem.profiles, mem'.intent = mem.intent, disk' \in {disk, mem'}
    PROVE  AckInv'
<1>1. Agrees(disk, Open, acked) /\ Agrees(mem, Open, acked)
  BY DEF AckInv
<1>2. Open' = Open
  BY DEF Open, InFlight
<1>3. Agrees(mem', Open, acked)
  BY <1>1, AgreesSame
<1> QED
  BY <1>1, <1>2, <1>3, AckFree

\* A daemon that stops opens what it was doing.
LEMMA AckStop ==
    ASSUME IInv', Stop, Agrees(disk', Open, acked)
    PROVE  AckInv'
<1>1. mu' = None /\ acked' = acked /\ doubtful' = Open /\ daemon' = "down"
  BY DEF Stop, Open
<1>2. Open' = Open
  BY <1>1 DEF Open, InFlight
<1> QED
  BY <1>1, <1>2, AckFree

\* Both files of an open section are typed and agree with the answers given.
LEMMA AckParts ==
    ASSUME IInv, AckInv, daemon = "up"
    PROVE  /\ mem \in Data /\ disk \in Data
           /\ Agrees(mem, Open, acked) /\ Agrees(disk, Open, acked)
BY DEF IInv, TypeOK, AckInv

\* Saving the intent opens the profile before anything about it changes.
LEMMA WriteIntentAck ==
    ASSUME IInv, IInv', AckInv, NEW r \in Requests, WriteIntent(r) \/ WriteDeleteIntent(r)
    PROVE  AckInv'
<1> DEFINE o == doubtful \cup {req[r].id}
<1>1. daemon = "up" /\ mu \in {None, r} /\ req[r].step = "start" /\ daemon' = daemon
  BY DEF WriteIntent, WriteDeleteIntent, Running
<1>2. req[r].step \notin InsideSteps
  BY <1>1 DEF InsideSteps, UpsertSteps, DeleteSteps
<1>3. Open \subseteq o /\ mu = None
  BY <1>1, <1>2, Holder
<1>4. /\ mem \in Data /\ disk \in Data /\ Agrees(mem, o, acked) /\ Agrees(disk, o, acked)
  BY <1>1, <1>3, AckParts, AgreesMore
<1>5. PICK i : /\ i.id = req[r].id
               /\ \/ /\ SaveOk([mem EXCEPT !.intent = i]) /\ mem' = [mem EXCEPT !.intent = i]
                     /\ mu' = r /\ UNCHANGED <<acked, doubtful>>
                     /\ \E s \in {"commit", "secret", "delCommit"} : Goto(r, s)
                  \/ /\ SaveFails([mem EXCEPT !.intent = i]) /\ Fail(r)
                     /\ mem' \in {mem, [mem EXCEPT !.intent = None]}
  <2>1. CASE WriteIntent(r)
    <3>1. PICK new \in NewProfiles(r) :
            LET old == OldRef(req[r].id)
                m == [mem EXCEPT !.intent =
                        [kind |-> "upsert", id |-> req[r].id, new |-> new, old |-> old]]
            IN \/ /\ SaveOk(m) /\ mem' = m /\ mu' = r
                  /\ Goto(r, IF new.ref = old THEN "commit" ELSE "secret")
                  /\ UNCHANGED <<acked, doubtful>>
               \/ SaveFails(m) /\ mem' = mem /\ Fail(r)
      BY <2>1 DEF WriteIntent
    <3> DEFINE i == [kind |-> "upsert", id |-> req[r].id, new |-> new, old |-> OldRef(req[r].id)]
    <3>2. i.id = req[r].id
      OBVIOUS
    <3>3. \/ /\ SaveOk([mem EXCEPT !.intent = i]) /\ mem' = [mem EXCEPT !.intent = i]
             /\ mu' = r /\ UNCHANGED <<acked, doubtful>>
             /\ \E s \in {"commit", "secret", "delCommit"} : Goto(r, s)
          \/ /\ SaveFails([mem EXCEPT !.intent = i]) /\ Fail(r) /\ mem' = mem
      BY <3>1
    <3> HIDE DEF i
    <3> QED
      BY <3>2, <3>3
  <2>2. CASE WriteDeleteIntent(r)
    <3> DEFINE i == [kind |-> "delete", id |-> req[r].id, new |-> None, old |-> OldRef(req[r].id)]
    <3>2. i.id = req[r].id
      OBVIOUS
    <3>3. \/ /\ SaveOk([mem EXCEPT !.intent = i]) /\ mem' = [mem EXCEPT !.intent = i]
             /\ mu' = r /\ UNCHANGED <<acked, doubtful>>
             /\ \E s \in {"commit", "secret", "delCommit"} : Goto(r, s)
          \/ /\ SaveFails([mem EXCEPT !.intent = i]) /\ Fail(r)
             /\ mem' = [mem EXCEPT !.intent = None]
      BY <2>2 DEF WriteDeleteIntent
    <3> HIDE DEF i
    <3> QED
      BY <3>2, <3>3
  <2> QED
    BY <2>1, <2>2
<1>6. Agrees([mem EXCEPT !.intent = i], o, acked) /\ Agrees([mem EXCEPT !.intent = None], o, acked)
  BY <1>4, <1>5, AgreesIntent
<1>7. CASE Fail(r)
  <2>1. Agrees(mem', o, acked) /\ Agrees(disk', o, acked)
    <3>1. CASE SaveOk([mem EXCEPT !.intent = i]) /\ mem' = [mem EXCEPT !.intent = i]
      BY <1>6, <3>1 DEF SaveOk
    <3>2. CASE SaveFails([mem EXCEPT !.intent = i]) /\ mem' \in {mem, [mem EXCEPT !.intent = None]}
      BY <1>4, <1>6, <3>2 DEF SaveFails
    <3> QED
      BY <1>5, <3>1, <3>2
  <2> QED
    BY <1>1, <1>7, <2>1, AckFail
<1>8. CASE /\ SaveOk([mem EXCEPT !.intent = i]) /\ mem' = [mem EXCEPT !.intent = i]
           /\ mu' = r /\ UNCHANGED <<acked, doubtful>>
           /\ \E s \in {"commit", "secret", "delCommit"} : Goto(r, s)
  <2>1. Agrees(mem', o, acked) /\ Agrees(disk', o, acked)
    BY <1>6, <1>8 DEF SaveOk
  <2>2. req'[r].id = req[r].id /\ req'[r].step \in {"commit", "secret", "delCommit"}
    BY <1>8, TypeParts DEF Goto, RestOK, Request
  <2>3. Open' = o
    BY <1>8, <2>2, ProfileTxnAssumption DEF Open, InFlight
  <2> QED
    BY <1>8, <2>1, <2>2, <2>3, AckHeld
<1> QED
  BY <1>5, <1>7, <1>8

\* The steps inside a section before the answer only touch the open profile.
LEMMA SectionAck ==
    ASSUME IInv, IInv', AckInv, NEW r \in Requests, daemon = "up", daemon' = "up", mu = r,
           Agrees(mem', Open, acked), Agrees(disk', Open, acked),
           \/ Fail(r)
           \/ /\ UNCHANGED <<mu, acked, doubtful>>
              /\ \E s \in {"commit", "dropOld", "clear", "delSecret", "delClear"} :
                    /\ Goto(r, s)
                    /\ s = "clear" => mem'.profiles[req[r].id] = mem'.intent.new
                    /\ s = "delClear" => mem'.profiles[req[r].id] = None
    PROVE  AckInv'
<1>1. Open = doubtful \cup {req[r].id}
  BY ProfileTxnAssumption DEF Open, InFlight
<1>2. CASE Fail(r)
  BY <1>1, <1>2, AckFail
<1>3. ASSUME NEW s \in {"commit", "dropOld", "clear", "delSecret", "delClear"}, Goto(r, s),
             UNCHANGED <<mu, acked, doubtful>>,
             s = "clear" => mem'.profiles[req[r].id] = mem'.intent.new,
             s = "delClear" => mem'.profiles[req[r].id] = None
      PROVE  AckInv'
  <2>1. req'[r].id = req[r].id /\ req'[r].step = s
    BY <1>3, TypeParts DEF Goto, RestOK, Request
  <2>2. Open' = Open
    BY <1>1, <1>3, <2>1, ProfileTxnAssumption DEF Open, InFlight
  <2> QED
    BY <1>3, <2>1, <2>2, AckHeld
<1> QED
  BY <1>2, <1>3

\* Inside a section: the holder, its open profile and the two files.
LEMMA Inside ==
    ASSUME IInv, AckInv, NEW r \in Requests, NEW s \in InsideSteps, Running(r, s)
    PROVE  /\ daemon = "up" /\ mu = r /\ Agrees(disk, Open, acked) /\ req[r].id \in Open
           /\ Open = doubtful \cup {req[r].id}
           /\ mem \in Data /\ Agrees(mem, Open, acked)
           /\ req[r].id \in ProfileIDs /\ SectionInv /\ AnswerInv
<1>1. daemon = "up" /\ mu \in {None, r} /\ req[r].step \in InsideSteps
  BY DEF Running
<1>2. mu = r /\ InFlight = {req[r].id}
  BY <1>1, Holder
<1>3. req[r].id # None /\ req[r].id \in ProfileIDs \cup {None}
  BY <1>1, TypeParts DEF IInv, MutexInv, InsideSteps, UpsertSteps, DeleteSteps, RestOK, Request
<1> QED
  BY <1>1, <1>2, <1>3, AckParts DEF Open, IInv, AckInv

\* Storing the new secret.
LEMMA PutSecretAck ==
    ASSUME IInv, IInv', AckInv, NEW r \in Requests, PutSecret(r)
    PROVE  AckInv'
<1>1. Running(r, "secret") /\ "secret" \in InsideSteps
  BY DEF PutSecret, InsideSteps, UpsertSteps
<1>2. UNCHANGED <<mem, disk, daemon>>
      /\ (Fail(r) \/ (Goto(r, "commit") /\ UNCHANGED <<mu, acked, doubtful>>))
  BY DEF PutSecret
<1> QED
  BY <1>1, <1>2, Inside, SectionAck

\* Committing the profile.
LEMMA CommitProfileAck ==
    ASSUME IInv, IInv', AckInv, NEW r \in Requests, CommitProfile(r)
    PROVE  AckInv'
<1> DEFINE m == [mem EXCEPT !.profiles[req[r].id] = mem.intent.new]
<1>1. Running(r, "commit") /\ "commit" \in InsideSteps
  BY DEF CommitProfile, InsideSteps, UpsertSteps
<1>2. /\ daemon = "up" /\ mu = r /\ Agrees(disk, Open, acked) /\ req[r].id \in Open /\ req[r].id \in ProfileIDs
      /\ mem \in Data /\ Agrees(mem, Open, acked)
  BY <1>1, Inside
<1>3. Agrees(m, Open, acked)
  BY <1>2, AgreesProfile
<1>4. m.profiles[req[r].id] = m.intent.new
  BY <1>2 DEF Data
<1>5. /\ mem' = m /\ disk' \in {disk, m} /\ daemon' = daemon
      /\ (Fail(r) \/ (/\ Goto(r, IF mem.intent.old \in {None, mem.intent.new.ref}
                                  THEN "clear" ELSE "dropOld")
                      /\ UNCHANGED <<mu, acked, doubtful>>))
  BY DEF CommitProfile, SaveOk, SaveFails
<1> HIDE DEF m
<1>6. Agrees(mem', Open, acked) /\ Agrees(disk', Open, acked)
  BY <1>2, <1>3, <1>5
<1>7. mem'.profiles[req[r].id] = mem'.intent.new
  BY <1>4, <1>5
<1> QED
  BY <1>2, <1>5, <1>6, <1>7, SectionAck

\* Removing the replaced secret.
LEMMA DropOldSecretAck ==
    ASSUME IInv, IInv', AckInv, NEW r \in Requests, DropOldSecret(r)
    PROVE  AckInv'
<1>1. Running(r, "dropOld") /\ "dropOld" \in InsideSteps /\ req[r].step = "dropOld"
  BY DEF DropOldSecret, InsideSteps, UpsertSteps, Running
<1>2. UNCHANGED <<mem, disk, daemon>>
      /\ (Fail(r) \/ (Goto(r, "clear") /\ UNCHANGED <<mu, acked, doubtful>>))
  BY DEF DropOldSecret
<1>3. mem.profiles[req[r].id] = mem.intent.new
  BY <1>1, Inside DEF SectionInv
<1> QED
  BY <1>1, <1>2, <1>3, Inside, SectionAck

\* Removing the profile from the list.
LEMMA CommitDeleteAck ==
    ASSUME IInv, IInv', AckInv, NEW r \in Requests, CommitDelete(r)
    PROVE  AckInv'
<1> DEFINE m == [mem EXCEPT !.profiles[req[r].id] = None]
<1>1. Running(r, "delCommit") /\ "delCommit" \in InsideSteps
  BY DEF CommitDelete, InsideSteps, DeleteSteps
<1>2. /\ daemon = "up" /\ mu = r /\ Agrees(disk, Open, acked) /\ req[r].id \in Open /\ req[r].id \in ProfileIDs
      /\ mem \in Data /\ Agrees(mem, Open, acked)
  BY <1>1, Inside
<1>3. Agrees(m, Open, acked)
  BY <1>2, AgreesProfile
<1>4. /\ disk' \in {disk, mem'} /\ daemon' = daemon
      /\ (Fail(r) \/ (Goto(r, "delSecret") /\ UNCHANGED <<mu, acked, doubtful>>))
  BY DEF CommitDelete, SaveOk, SaveFails
<1>5. mem'.profiles = m.profiles /\ mem'.intent = m.intent
  BY <1>2 DEF CommitDelete, Data
<1> HIDE DEF m
<1>6. Agrees(mem', Open, acked) /\ Agrees(disk', Open, acked)
  BY <1>2, <1>3, <1>4, <1>5, AgreesSame
<1> QED
  BY <1>2, <1>4, <1>6, SectionAck

\* Removing the secret of a deleted profile.
LEMMA DeleteSecretAck ==
    ASSUME IInv, IInv', AckInv, NEW r \in Requests, DeleteSecret(r)
    PROVE  AckInv'
<1>1. Running(r, "delSecret") /\ "delSecret" \in InsideSteps /\ req[r].step = "delSecret"
  BY DEF DeleteSecret, InsideSteps, DeleteSteps, Running
<1>2. UNCHANGED <<mem, disk, daemon>>
      /\ (Fail(r) \/ (Goto(r, "delClear") /\ UNCHANGED <<mu, acked, doubtful>>))
  BY DEF DeleteSecret
<1>3. mem.profiles[req[r].id] = None
  BY <1>1, Inside DEF SectionInv
<1> QED
  BY <1>1, <1>2, <1>3, Inside, SectionAck

\* The answer: the state file without the intent is what the caller is told.
LEMMA AnswerAck ==
    ASSUME IInv, IInv', AckInv, NEW r \in Requests, NEW s \in InsideSteps, Running(r, s),
           daemon' = daemon, NEW v, mem.profiles[req[r].id] = v,
           LET m == [mem EXCEPT !.intent = None]
           IN \/ /\ SaveOk(m) /\ mem' = m /\ Acknowledge(r, v)
                 /\ \/ Goto(r, "current") /\ mu' = mu
                    \/ mu' = None
              \/ SaveFails(m) /\ mem' = mem /\ Fail(r)
    PROVE  AckInv'
<1> DEFINE m == [mem EXCEPT !.intent = None]
           id == req[r].id
<1>1. /\ daemon = "up" /\ mu = r /\ Agrees(disk, Open, acked) /\ id \in Open
      /\ Open = doubtful \cup {id} /\ mem \in Data /\ Agrees(mem, Open, acked) /\ id \in ProfileIDs
  BY Inside
<1>2. Agrees(m, Open, acked) /\ m.profiles = mem.profiles /\ m.intent = None
  BY <1>1, AgreesIntent DEF Data
<1> HIDE DEF m
<1>3. CASE SaveFails(m) /\ mem' = mem /\ Fail(r)
  BY <1>1, <1>2, <1>3, AckFail DEF SaveFails
<1>4. CASE SaveOk(m) /\ mem' = m /\ Acknowledge(r, v)
  <2>1. /\ acked' = [acked EXCEPT ![id] = v] /\ doubtful' = doubtful \ {id} /\ disk' = m
    BY <1>4 DEF Acknowledge, SaveOk
  <2>2. acked \in [ProfileIDs -> Profile \cup {None}]
    BY TypeParts DEF RestOK
  <2>3. acked'[id] = v /\ \A x \in ProfileIDs : x # id => acked'[x] = acked[x]
    BY <1>1, <2>1, <2>2
  <2>4. Agrees(m, doubtful \ {id}, acked')
    BY <1>1, <1>2, <2>3 DEF Agrees
  <2>5. CASE mu' = None
    <3>1. Open' = doubtful \ {id}
      BY <2>1, <2>5 DEF Open, InFlight
    <3> QED
      BY <1>4, <2>1, <2>4, <2>5, <3>1, AckFree
  <2>6. CASE Goto(r, "current") /\ mu' = mu
    <3>1. req'[r].id = id /\ req'[r].step = "current"
      BY <2>6, TypeParts DEF Goto, RestOK, Request
    <3>2. doubtful \ {id} \subseteq Open'
      BY <2>1 DEF Open
    <3>3. Agrees(m, Open', acked')
      BY <2>4, <3>2, AgreesMore
    <3> QED
      BY <1>1, <1>2, <1>4, <2>1, <2>3, <2>6, <3>1, <3>3, AckHeld
  <2>7. (Goto(r, "current") /\ mu' = mu) \/ mu' = None
    BY <1>4 DEF Fail
  <2> QED
    BY <2>5, <2>6, <2>7
<1> QED
  BY <1>3, <1>4 DEF m

\* commitProfileLocked answers with the profile it wrote.
LEMMA ClearIntentAck ==
    ASSUME IInv, IInv', AckInv, NEW r \in Requests, ClearIntent(r)
    PROVE  AckInv'
<1>1. /\ Running(r, "clear") /\ "clear" \in InsideSteps /\ req[r].step = "clear"
      /\ daemon' = daemon
  BY DEF ClearIntent, InsideSteps, UpsertSteps, Running
<1>2. mem.profiles[req[r].id] = mem.intent.new
  BY <1>1, Inside DEF AnswerInv
<1>3. LET m == [mem EXCEPT !.intent = None]
      IN \/ /\ SaveOk(m) /\ mem' = m /\ Acknowledge(r, mem.intent.new)
            /\ \/ Goto(r, "current") /\ mu' = mu
               \/ mu' = None
         \/ SaveFails(m) /\ mem' = mem /\ Fail(r)
  BY DEF ClearIntent
<1> QED
  BY <1>1, <1>2, <1>3, AnswerAck

\* DeleteProfile answers that the profile is gone.
LEMMA ClearDeleteIntentAck ==
    ASSUME IInv, IInv', AckInv, NEW r \in Requests, ClearDeleteIntent(r)
    PROVE  AckInv'
<1>1. /\ Running(r, "delClear") /\ "delClear" \in InsideSteps /\ req[r].step = "delClear"
      /\ daemon' = daemon
  BY DEF ClearDeleteIntent, InsideSteps, DeleteSteps, Running
<1>2. mem.profiles[req[r].id] = None
  BY <1>1, Inside DEF AnswerInv
<1>3. LET m == [mem EXCEPT !.intent = None]
      IN \/ /\ SaveOk(m) /\ mem' = m /\ Acknowledge(r, None)
            /\ \/ Goto(r, "current") /\ mu' = mu
               \/ mu' = None
         \/ SaveFails(m) /\ mem' = mem /\ Fail(r)
  BY DEF ClearDeleteIntent
<1> QED
  BY <1>1, <1>2, <1>3, AnswerAck

\* The tail of CreateProfile starts after the answer was recorded.
LEMMA SetFirstCurrentAck ==
    ASSUME IInv, IInv', AckInv, NEW r \in Requests, SetFirstCurrent(r)
    PROVE  AckInv'
<1>1. Running(r, "current") /\ "current" \in InsideSteps /\ req[r].step = "current"
  BY DEF SetFirstCurrent, InsideSteps, Running
<1>2. /\ daemon = "up" /\ mu = r /\ Agrees(disk, Open, acked) /\ mem \in Data /\ Agrees(mem, Open, acked)
      /\ Open = doubtful \cup {req[r].id}
      /\ mem.intent = None /\ mem.profiles[req[r].id] = acked[req[r].id]
  BY <1>1, Inside DEF AnswerInv
<1>3. mem'.profiles = mem.profiles /\ mem'.intent = mem.intent /\ daemon' = daemon
  BY <1>2 DEF SetFirstCurrent, Data
<1>4. Agrees(mem, doubtful, acked)
  BY <1>2 DEF Agrees
<1>5. Agrees(mem', doubtful, acked) /\ Agrees(mem', Open, acked)
  BY <1>2, <1>3, <1>4, AgreesSame
<1>6. CASE Fail(r)
  <2>1. disk' \in {disk, mem'}
    BY DEF SetFirstCurrent, SaveOk, SaveFails
  <2> QED
    BY <1>2, <1>3, <1>5, <1>6, <2>1, AckFail
<1>7. CASE ~Fail(r)
  <2>1. disk' = mem' /\ mu' = None /\ UNCHANGED <<acked, doubtful>>
    BY <1>7 DEF SetFirstCurrent, SaveOk
  <2>2. Open' = doubtful
    BY <2>1 DEF Open, InFlight
  <2> QED
    BY <1>5, <2>1, <2>2, AckFree
<1> QED
  BY <1>6, <1>7

\* The requests that change a selection or the mode, and the refusals.
LEMMA QuietAck ==
    ASSUME IInv, IInv', AckInv, NEW r \in Requests,
           \/ RefuseUpsert(r) \/ RefuseDelete(r) \/ SelectCreated(r)
           \/ SelectForConnect(r) \/ SetControlMode(r) \/ BeginConnect(r)
    PROVE  AckInv'
<1>1. /\ daemon = "up" /\ mu \in {None, r} /\ req[r].step \in {"start", "select", "begin"}
      /\ UNCHANGED <<daemon, mu, acked, doubtful>> /\ disk' \in {disk, mem'}
  BY DEF RefuseUpsert, RefuseDelete, SelectCreated, SelectForConnect, SetControlMode, BeginConnect, Running,
     SaveOk, SaveFails
<1>2. req[r].step \notin InsideSteps
  BY <1>1 DEF InsideSteps, UpsertSteps, DeleteSteps
<1>3. mu = None
  BY <1>1, <1>2, Holder
<1>4. mem \in Data
  BY DEF IInv, TypeOK
<1>5. mem'.profiles = mem.profiles /\ mem'.intent = mem.intent
  BY <1>4 DEF RefuseUpsert, RefuseDelete, SelectCreated, SelectForConnect, SetControlMode,
     BeginConnect, Data
<1> QED
  BY <1>1, <1>3, <1>5, AckQuiet

\* The end of recovery: the service starts with what the state file says.
LEMMA ServeAck ==
    ASSUME IInv', mu' = None, NEW m, disk' = m, mem' = m, m.intent = None, Serve(m)
    PROVE  AckInv'
<1>1. Open' = {} /\ acked' = m.profiles
  BY DEF Open, InFlight, Serve
<1>2. Agrees(m, {}, m.profiles)
  BY DEF Agrees
<1> QED
  BY <1>1, <1>2, AckFree

\* A crash, and every step of load().
LEMMA RecoveryAck ==
    ASSUME IInv, IInv', AckInv, Crash \/ Recovery
    PROVE  AckInv'
<1>1. mem \in Data /\ Agrees(disk, Open, acked) /\ (daemon # "down" => Agrees(mem, Open, acked))
  BY DEF IInv, TypeOK, AckInv
<1>2. daemon # "up" => mu = None
  BY ProfileTxnAssumption DEF IInv, MutexInv
<1>3. CASE Crash
  BY <1>1, <1>3, AckStop DEF Crash
<1>4. CASE Load
  <2>1. mu' = None /\ mem' = disk /\ disk' = disk
    BY <1>2, <1>4 DEF Load
  <2>2. CASE disk.intent = None
    BY <1>4, <2>1, <2>2, ServeAck DEF Load
  <2>3. CASE disk.intent # None
    <3>1. UNCHANGED <<acked, doubtful>> /\ mu = None
      BY <1>2, <1>4, <2>3 DEF Load
    <3>2. Open' = Open
      BY <2>1, <3>1 DEF Open, InFlight
    <3> QED
      BY <1>1, <2>1, <3>1, <3>2, AckFree
  <2> QED
    BY <2>2, <2>3
<1>5. CASE DropIntent \/ RecoverClear
  <2> DEFINE m == [mem EXCEPT !.intent = None]
  <2>1. daemon \notin {"up", "down"} /\ mu = None
    BY <1>2, <1>5 DEF DropIntent, RecoverClear
  <2>2. Agrees(m, Open, acked) /\ m.intent = None
    BY <1>1, <2>1, AgreesIntent DEF Data
  <2>3. \/ SaveOk(m) /\ mem' = m /\ Serve(m) /\ UNCHANGED mu
        \/ SaveFails(m) /\ Stop
    BY <1>5 DEF DropIntent, RecoverClear
  <2> HIDE DEF m
  <2>4. CASE SaveFails(m) /\ Stop
    BY <1>1, <2>2, <2>4, AckStop DEF SaveFails
  <2>5. CASE SaveOk(m) /\ mem' = m /\ Serve(m) /\ UNCHANGED mu
    BY <2>1, <2>2, <2>5, ServeAck DEF SaveOk
  <2> QED
    BY <2>3, <2>4, <2>5
<1>6. CASE RecoverProfiles
  <2> DEFINE m == [mem EXCEPT !.profiles = Recovered(mem, secrets)]
  <2>1. daemon = "recover" /\ mu = None /\ mem.intent # None
    BY <1>2, <1>6 DEF RecoverProfiles, IInv, RecoveryInv
  <2>2. mem.intent.id \in Open /\ Agrees(mem, Open, acked)
    BY <1>1, <2>1 DEF Agrees
  <2>3. \A x \in ProfileIDs : x # mem.intent.id => Recovered(mem, secrets)[x] = mem.profiles[x]
    BY <1>1 DEF Recovered, Data
  <2>4. m.profiles = Recovered(mem, secrets) /\ m.intent = mem.intent
    BY <1>1 DEF Data
  <2>5. \/ /\ SaveOk(m) /\ mem' = m /\ UNCHANGED <<mu, acked, doubtful>>
        \/ SaveFails(m) /\ Stop
    BY <1>6 DEF RecoverProfiles
  <2> HIDE DEF m
  <2>6. Agrees(m, Open, acked)
    BY <2>2, <2>3, <2>4 DEF Agrees
  <2>7. CASE SaveFails(m) /\ Stop
    BY <1>1, <2>6, <2>7, AckStop DEF SaveFails
  <2>8. CASE SaveOk(m) /\ mem' = m /\ UNCHANGED <<mu, acked, doubtful>>
    <3>1. Open' = Open
      BY <2>1, <2>8 DEF Open, InFlight
    <3> QED
      BY <2>1, <2>6, <2>8, <3>1, AckFree DEF SaveOk
  <2> QED
    BY <2>5, <2>7, <2>8
<1>7. CASE RecoverSecret
  <2>1. daemon = "recDrop" /\ mu = None /\ disk' = disk
    BY <1>2, <1>7 DEF RecoverSecret
  <2>2. CASE Stop
    BY <1>1, <2>1, <2>2, AckStop
  <2>3. CASE UNCHANGED <<mem, mu, acked, doubtful>>
    <3>1. Open' = Open
      BY <2>1, <2>3 DEF Open, InFlight
    <3> QED
      BY <1>1, <2>1, <2>3, <3>1, AckFree
  <2> QED
    BY <1>7, <2>2, <2>3 DEF RecoverSecret
<1> QED
  BY <1>3, <1>4, <1>5, <1>6, <1>7 DEF Recovery

\* AckInv is inductive on top of IInv.
LEMMA NextAckInv == IInv /\ IInv' /\ AckInv /\ [Next]_vars => AckInv'
<1> SUFFICES ASSUME IInv, IInv', AckInv, [Next]_vars PROVE AckInv'
  OBVIOUS
<1>1. ASSUME NEW r \in Requests, RequestStep(r) PROVE AckInv'
  BY <1>1, WriteIntentAck, PutSecretAck, CommitProfileAck, DropOldSecretAck, ClearIntentAck,
     SetFirstCurrentAck, CommitDeleteAck, DeleteSecretAck, ClearDeleteIntentAck, QuietAck
     DEF RequestStep
<1>2. ASSUME NEW r \in Requests, NEW op \in Ops, NEW a \in Clients,
             NEW id \in ProfileIDs \cup {None}, StartRequest(r, op, a, id)
      PROVE  AckInv'
  BY <1>2, AckQuiet DEF StartRequest
<1>2a. ASSUME NEW r \in Requests, StartReconnect(r) PROVE AckInv'
  BY <1>2a, AckQuiet DEF StartReconnect
<1>3. CASE UNCHANGED vars
  BY <1>3 DEF vars, AckInv, Agrees, Open, InFlight, AnswerInv
<1> QED
  BY <1>1, <1>2, <1>2a, <1>3, RecoveryAck DEF Next

\* Nothing was answered and nothing is open at the start.
LEMMA InitAckInv == Init => AckInv
BY DEF Init, AckInv, Agrees, AnswerInv, EmptyData, Idle, Open, InFlight

\* A restart rebuilds every profile exactly as the last successful answer of
\* commitProfileLocked, DeleteProfile or load() described it, but for the
\* profiles whose last mutation failed or is still running: whatever was saved
\* in between, wherever the daemon stopped.
THEOREM AckedAlwaysDurable == Spec => []AckedDurable
<1>1. IInv /\ AckInv => AckedDurable
  <2> SUFFICES ASSUME IInv, AckInv, NEW id \in ProfileIDs \ Open
               PROVE  Recovered(disk, secrets)[id] = acked[id]
    BY DEF AckedDurable, Open
  <2>1. Agrees(disk, Open, acked) /\ disk \in Data
    BY DEF IInv, TypeOK, AckInv
  <2>2. disk.profiles[id] = acked[id] /\ (disk.intent # None => disk.intent.id # id)
    BY <2>1 DEF Agrees
  <2>3. Recovered(disk, secrets)[id] = disk.profiles[id]
    BY <2>1, <2>2 DEF Recovered, Data
  <2> QED
    BY <2>2, <2>3
<1> QED
  BY <1>1, InitAckInv, NextAckInv, InductiveInvariant, PTL DEF Spec

-----------------------------------------------------------------------------
(* NoOrphanSecrets.  A delete abandons what a pending intent still had to   *)
(* remove; of all the other secrets, memory and the state file each know    *)
(* what they are for.                                                       *)

\* The secrets nobody abandoned.
Kept == secrets \ abandoned

\* No secret is forgotten: a profile uses it or the intent remembers it.
Covered(d, sec) == sec \subseteq Live(d) \cup Named(d.intent)

\* The intent remembers the reference its profile has.
Remembers(d) ==
    d.intent # None =>
        /\ d.profiles[d.intent.id] # None => d.profiles[d.intent.id].ref \in Named(d.intent)
        /\ d.intent.kind = "upsert" /\ d.intent.old # None => d.profiles[d.intent.id] # None
        /\ d.intent.kind = "delete" => d.intent.new = None

\* A file that knows what each of the secrets in sec is for.
Knows(d, sec) == Covered(d, sec) /\ Remembers(d)

\* The intent may be cleared: what it remembers is used or gone.
Settled(d, sec) == Named(d.intent) \cap sec \subseteq Live(d)

OrphanInv ==
    /\ Knows(disk, Kept)
    /\ daemon # "down" => Knows(mem, Kept)
    /\ \A r \in Requests : req[r].step \in {"clear", "delClear"} => Settled(mem, Kept)
    /\ daemon = "recClear" => Settled(mem, Kept)

\* Only profiles and intent decide what is live and named.
LEMMA CoverSame ==
    ASSUME NEW d, NEW e, NEW sec, e.profiles = d.profiles, e.intent = d.intent,
           Covered(d, sec), Remembers(d)
    PROVE  Covered(e, sec) /\ Remembers(e)
BY DEF Covered, Remembers, Live

\* Clearing a settled intent forgets no secret.
LEMMA CoverClear ==
    ASSUME NEW d \in Data, NEW sec, Covered(d, sec), Settled(d, sec)
    PROVE  Covered([d EXCEPT !.intent = None], sec) /\ Remembers([d EXCEPT !.intent = None])
<1> DEFINE e == [d EXCEPT !.intent = None]
<1>1. e.profiles = d.profiles /\ e.intent = None
  BY DEF Data
<1> HIDE DEF e
<1>2. Live(e) = Live(d)
  BY <1>1 DEF Live
<1>3. Covered(e, sec)
  BY <1>2 DEF Covered, Settled
<1>4. Remembers(e)
  BY <1>1 DEF Remembers
<1> QED
  BY <1>3, <1>4 DEF e

\* An intent written where there was none forgets no secret.
LEMMA CoverIntent ==
    ASSUME NEW d \in Data, NEW sec, Covered(d, sec), d.intent = None,
           NEW i \in Intent, i.old = IF d.profiles[i.id] = None THEN None ELSE d.profiles[i.id].ref,
           i.kind = "delete" => i.new = None
    PROVE  Covered([d EXCEPT !.intent = i], sec) /\ Remembers([d EXCEPT !.intent = i])
<1> DEFINE e == [d EXCEPT !.intent = i]
<1>1. e.profiles = d.profiles /\ e.intent = i
  BY DEF Data
<1> HIDE DEF e
<1>2. Live(e) = Live(d) /\ Named(d.intent) = {}
  BY <1>1 DEF Live, Named
<1>3. Covered(e, sec)
  BY <1>2 DEF Covered
<1>4. i # None
  BY NoneAssumption
<1>5. i.old \in Named(i)
  BY <1>4 DEF Named
<1>6. Remembers(e)
  BY <1>1, <1>5 DEF Remembers
<1> QED
  BY <1>3, <1>6 DEF e

\* Rewriting the profile of the intent forgets no secret.
LEMMA CoverProfile ==
    ASSUME NEW d \in Data, NEW sec, Covered(d, sec), Remembers(d), d.intent # None, NEW v,
           v = IF d.intent.kind = "upsert" THEN d.intent.new ELSE None,
           d.intent.kind = "upsert" => d.intent.new # None
    PROVE  /\ Covered([d EXCEPT !.profiles[d.intent.id] = v], sec)
           /\ Remembers([d EXCEPT !.profiles[d.intent.id] = v])
           /\ v # None => v.ref \in Live([d EXCEPT !.profiles[d.intent.id] = v])
<1> DEFINE e == [d EXCEPT !.profiles[d.intent.id] = v]
<1>1. d.intent \in Intent /\ d.intent.id \in ProfileIDs
  BY DEF Data, Intent
<1>2. e.intent = d.intent /\ e.profiles[d.intent.id] = v
      /\ \A p \in ProfileIDs : p # d.intent.id => e.profiles[p] = d.profiles[p]
  BY <1>1 DEF Data
<1> HIDE DEF e
<1>3. ASSUME NEW x \in Live(d), x \notin Live(e) PROVE x \in Named(d.intent)
  <2>1. PICK p \in ProfileIDs : d.profiles[p] # None /\ x = d.profiles[p].ref
    BY <1>3 DEF Live
  <2>2. p = d.intent.id
    BY <1>2, <1>3, <2>1 DEF Live
  <2> QED
    BY <2>1, <2>2 DEF Remembers
<1>4. Covered(e, sec)
  BY <1>2, <1>3 DEF Covered
<1>5. v # None => v.ref \in Named(d.intent)
  BY DEF Named
<1>6. Remembers(e)
  BY <1>2, <1>5 DEF Remembers
<1>7. v # None => v.ref \in Live(e)
  BY <1>1, <1>2 DEF Live
<1> QED
  BY <1>4, <1>6, <1>7 DEF e

\* Fewer secrets are easier to know.
LEMMA KnowsLess ==
    ASSUME NEW d, NEW sec, NEW less, Knows(d, sec), less \subseteq sec
    PROVE  Knows(d, less)
BY DEF Knows, Covered

\* A step of one request: only the holder of s.mu can be about to answer.
LEMMA OrphanStep ==
    ASSUME IInv', NEW r \in Requests, mu' \in {None, r}, daemon' = "up",
           Knows(disk, Kept)', Knows(mem, Kept)',
           req'[r].step \in {"clear", "delClear"} => Settled(mem, Kept)'
    PROVE  OrphanInv'
<1>1. \A q \in Requests : req'[q].step \in {"clear", "delClear"} => q = r
  <2> SUFFICES ASSUME NEW q \in Requests, req'[q].step \in {"clear", "delClear"} PROVE q = r
    OBVIOUS
  <2>1. mu' = q
    BY DEF IInv, MutexInv, InsideSteps, UpsertSteps, DeleteSteps
  <2> QED
    BY <2>1, ProfileTxnAssumption
<1> QED
  BY <1>1 DEF OrphanInv

\* A running request finds two files that know what the secrets are for.
LEMMA RunningKnows ==
    ASSUME IInv, OrphanInv, daemon = "up"
    PROVE  /\ mem \in Data /\ secrets \subseteq Refs /\ Kept \subseteq Refs
           /\ Knows(mem, Kept) /\ Knows(disk, Kept)
           /\ IntentOwned(mem.intent) /\ SectionInv
BY DEF IInv, TypeOK, RefsOwned, OrphanInv, Kept

\* A step that changes no profile, no intent and no secret.
LEMMA OrphanQuiet ==
    ASSUME IInv, IInv', OrphanInv, NEW r \in Requests, daemon = "up", mu \in {None, r},
           req'[r].step \notin {"clear", "delClear"},
           UNCHANGED <<daemon, mu, secrets, abandoned>>,
           mem'.profiles = mem.profiles, mem'.intent = mem.intent, disk' \in {disk, mem'}
    PROVE  OrphanInv'
<1>1. Kept' = Kept
  BY DEF Kept
<1>2. Knows(mem', Kept) /\ Knows(disk, Kept)
  BY RunningKnows, CoverSame DEF Knows
<1> QED
  BY <1>1, <1>2, OrphanStep

\* The requests that change a selection or the mode, and the refusals.
LEMMA QuietOrphan ==
    ASSUME IInv, IInv', OrphanInv, NEW r \in Requests,
           \/ RefuseUpsert(r) \/ RefuseDelete(r) \/ SelectCreated(r)
           \/ SelectForConnect(r) \/ SetControlMode(r) \/ BeginConnect(r)
    PROVE  OrphanInv'
<1>1. /\ daemon = "up" /\ mu \in {None, r} /\ UNCHANGED <<daemon, mu, secrets, abandoned>>
      /\ disk' \in {disk, mem'}
  BY DEF RefuseUpsert, RefuseDelete, SelectCreated, SelectForConnect, SetControlMode, BeginConnect,
     Running, SaveOk, SaveFails
<1>2. req' = [req EXCEPT ![r] = Idle] \/ Goto(r, "begin")
  BY DEF RefuseUpsert, RefuseDelete, SelectCreated, SelectForConnect, SetControlMode, BeginConnect,
     Found
<1>3. req'[r].step \notin {"clear", "delClear"}
  BY <1>2, TypeParts DEF RestOK, Request, Goto, Idle
<1>4. mem \in Data
  BY DEF IInv, TypeOK
<1>5. mem'.profiles = mem.profiles /\ mem'.intent = mem.intent
  BY <1>4 DEF RefuseUpsert, RefuseDelete, SelectCreated, SelectForConnect, SetControlMode,
     BeginConnect, Data
<1> QED
  BY <1>1, <1>3, <1>5, OrphanQuiet

\* Starting a request or a reconnection touches no file.
LEMMA StartOrphan ==
    ASSUME IInv, IInv', OrphanInv, NEW r \in Requests,
           \/ StartReconnect(r)
           \/ \E op \in Ops, a \in Clients, id \in ProfileIDs \cup {None} :
                 StartRequest(r, op, a, id)
    PROVE  OrphanInv'
<1>1. /\ daemon = "up" /\ mu \in {None, r}
      /\ UNCHANGED <<daemon, mu, secrets, abandoned, mem, disk>>
  BY DEF StartReconnect, StartRequest
<1>2. req'[r].step \in {"start", "begin"}
  BY TypeParts DEF StartReconnect, StartRequest, RestOK
<1> QED
  BY <1>1, <1>2, OrphanQuiet

\* commitProfileLocked writes its intent where there was none.
LEMMA WriteIntentOrphan ==
    ASSUME IInv, IInv', OrphanInv, NEW r \in Requests, WriteIntent(r)
    PROVE  OrphanInv'
<1>1. /\ daemon = "up" /\ mu \in {None, r} /\ req[r].step = "start" /\ mem.intent = None
      /\ UNCHANGED <<daemon, secrets, abandoned>>
  BY DEF WriteIntent, Running
<1>2. mem \in Data /\ Knows(mem, Kept) /\ Knows(disk, Kept) /\ Kept' = Kept
  BY <1>1, RunningKnows DEF Kept
<1>3. req[r].id \in ProfileIDs
  BY <1>1, TypeParts, ProfileTxnAssumption
     DEF WriteIntent, IInv, MutexInv, RestOK, Request
<1>4. PICK new \in NewProfiles(r) :
        LET old == OldRef(req[r].id)
            m == [mem EXCEPT !.intent =
                    [kind |-> "upsert", id |-> req[r].id, new |-> new, old |-> old]]
        IN \/ /\ SaveOk(m) /\ mem' = m /\ mu' = r
              /\ Goto(r, IF new.ref = old THEN "commit" ELSE "secret")
           \/ SaveFails(m) /\ mem' = mem /\ Fail(r)
  BY DEF WriteIntent
<1> DEFINE i == [kind |-> "upsert", id |-> req[r].id, new |-> new, old |-> OldRef(req[r].id)]
           m == [mem EXCEPT !.intent = i]
<1>5. i \in Intent
  BY <1>2, <1>3 DEF NewProfiles, Intent, OldRef, Data, Profile
<1>6. i.id = req[r].id /\ i.old = OldRef(req[r].id) /\ i.kind # "delete"
  OBVIOUS
<1>7. /\ disk' \in {disk, m} /\ mem' \in {mem, m} /\ mu' \in {None, r}
      /\ \/ req' = [req EXCEPT ![r] = Idle]
         \/ \E s \in {"commit", "secret"} : Goto(r, s)
  BY <1>4 DEF SaveOk, SaveFails, Fail
<1> HIDE DEF i
<1>8. Knows(m, Kept)
  BY <1>1, <1>2, <1>5, <1>6, CoverIntent DEF OldRef, Knows
<1>9. req'[r].step \notin {"clear", "delClear"}
  BY <1>7, TypeParts DEF RestOK, Request, Goto, Idle
<1> HIDE DEF m
<1> QED
  BY <1>1, <1>2, <1>7, <1>8, <1>9, OrphanStep

\* DeleteProfile writes its intent over whatever was pending: what that had to
\* remove is abandoned, the rest is still known.
LEMMA WriteDeleteIntentOrphan ==
    ASSUME IInv, IInv', OrphanInv, NEW r \in Requests, WriteDeleteIntent(r)
    PROVE  OrphanInv'
<1>1. /\ daemon = "up" /\ mu \in {None, r} /\ req[r].step = "start"
      /\ UNCHANGED <<daemon, secrets>>
      /\ abandoned' = abandoned \cup ((Named(mem.intent) \cap secrets) \ Live(mem))
  BY DEF WriteDeleteIntent, Running
<1>2. mem \in Data /\ Knows(mem, Kept) /\ Knows(disk, Kept)
  BY <1>1, RunningKnows
<1>3. Kept' \subseteq Kept /\ Settled(mem, Kept')
  BY <1>1 DEF Kept, Settled
<1>4. Knows(mem, Kept') /\ Knows(disk, Kept')
  BY <1>2, <1>3, KnowsLess
<1>5. req[r].id \in ProfileIDs /\ mem.profiles[req[r].id] # None
  BY <1>1, TypeParts, ProfileTxnAssumption
     DEF WriteDeleteIntent, IInv, MutexInv, RestOK, Request
<1> DEFINE c == [mem EXCEPT !.intent = None]
           i == [kind |-> "delete", id |-> req[r].id, new |-> None, old |-> OldRef(req[r].id)]
           m == [mem EXCEPT !.intent = i]
<1>6. i \in Intent
  BY <1>2, <1>5 DEF Intent, OldRef, Data, Profile
<1>7. i.id = req[r].id /\ i.old = OldRef(req[r].id) /\ i.new = None
  OBVIOUS
<1>8. /\ disk' \in {disk, m} /\ mem' \in {c, m} /\ mu' \in {None, r}
      /\ req' = [req EXCEPT ![r] = Idle] \/ Goto(r, "delCommit")
  BY DEF WriteDeleteIntent, SaveOk, SaveFails, Fail
<1> HIDE DEF i
<1>9. c \in Data /\ c.intent = None /\ c.profiles = mem.profiles /\ m = [c EXCEPT !.intent = i]
  BY <1>2 DEF Data
<1>10. Knows(c, Kept')
  BY <1>2, <1>3, <1>4, CoverClear DEF Knows
<1> HIDE DEF c, m
<1>11. i.old = IF c.profiles[i.id] = None THEN None ELSE c.profiles[i.id].ref
  BY <1>7, <1>9 DEF OldRef
<1>12. Knows(m, Kept')
  BY <1>6, <1>7, <1>9, <1>10, <1>11, CoverIntent DEF Knows
<1>13. req'[r].step \notin {"clear", "delClear"}
  BY <1>8, TypeParts DEF RestOK, Request, Goto, Idle
<1> QED
  BY <1>1, <1>4, <1>8, <1>10, <1>12, <1>13, OrphanStep

\* Inside a section both files have the profiles and the intent of memory.
LEMMA InsideOrphan ==
    ASSUME IInv, OrphanInv, NEW r \in Requests, NEW s \in InsideSteps, Running(r, s)
    PROVE  /\ daemon = "up" /\ mu = r /\ Twin /\ mem \in Data
           /\ secrets \subseteq Refs /\ Kept \subseteq Refs
           /\ Knows(mem, Kept) /\ Knows(disk, Kept) /\ IntentOwned(mem.intent) /\ SectionInv
<1>1. mu \in {None, r} /\ req[r].step \in InsideSteps /\ daemon = "up"
  BY DEF Running
<1>2. mu = r /\ storeOK
  BY <1>1, Holder, ProfileTxnAssumption DEF IInv, MutexInv
<1> QED
  BY <1>1, <1>2, RunningKnows, HealthyTwin

\* The secret of the new reference is remembered by the intent.
LEMMA PutSecretOrphan ==
    ASSUME IInv, IInv', OrphanInv, NEW r \in Requests, PutSecret(r)
    PROVE  OrphanInv'
<1>1. /\ Running(r, "secret") /\ "secret" \in InsideSteps
      /\ UNCHANGED <<daemon, mem, disk, abandoned>>
  BY DEF PutSecret, InsideSteps, UpsertSteps
<1>2. /\ daemon = "up" /\ mu = r /\ Twin /\ Knows(mem, Kept) /\ Knows(disk, Kept)
      /\ mem.intent # None /\ mem.intent.new # None
  BY <1>1, InsideOrphan DEF SectionInv, UpsertSteps, IntentOwned, Running
<1>3. secrets' \in {secrets, secrets \cup {mem.intent.new.ref}}
  BY DEF PutSecret, SecretPut
<1>4. mem.intent.new.ref \in Named(mem.intent) /\ disk.intent = mem.intent
  BY <1>2 DEF Named, Twin
<1>5. Kept' \subseteq Kept \cup {mem.intent.new.ref}
  BY <1>1, <1>3 DEF Kept
<1>6. Knows(mem, Kept') /\ Knows(disk, Kept')
  BY <1>2, <1>4, <1>5 DEF Knows, Covered
<1>7. mu' \in {None, r} /\ (req' = [req EXCEPT ![r] = Idle] \/ Goto(r, "commit"))
  BY <1>2 DEF PutSecret, Fail
<1>8. req'[r].step \notin {"clear", "delClear"}
  BY <1>7, TypeParts DEF RestOK, Request, Goto, Idle
<1> QED
  BY <1>1, <1>2, <1>6, <1>7, <1>8, OrphanStep

\* An intent whose old reference is the new one, or none, is settled by the commit.
LEMMA SettledCommit ==
    ASSUME NEW d, NEW sec, sec \subseteq Refs, d.intent # None,
           d.intent.new # None => d.intent.new.ref \in Live(d),
           \/ d.intent.old = None
           \/ d.intent.new # None /\ d.intent.old = d.intent.new.ref
           \/ d.intent.old \notin sec
    PROVE  Settled(d, sec)
<1>1. None \notin sec
  BY NoneAssumption
<1> QED
  BY <1>1 DEF Settled, Named

\* The profile switches to the new reference; the intent remembers the old one.
LEMMA CommitProfileOrphan ==
    ASSUME IInv, IInv', OrphanInv, NEW r \in Requests, CommitProfile(r)
    PROVE  OrphanInv'
<1> DEFINE m == [mem EXCEPT !.profiles[mem.intent.id] = mem.intent.new]
           t == IF mem.intent.old \in {None, mem.intent.new.ref} THEN "clear" ELSE "dropOld"
<1>1. /\ Running(r, "commit") /\ "commit" \in InsideSteps
      /\ UNCHANGED <<daemon, secrets, abandoned>>
  BY DEF CommitProfile, InsideSteps, UpsertSteps
<1>2. /\ daemon = "up" /\ mu = r /\ mem \in Data /\ Kept \subseteq Refs
      /\ Knows(mem, Kept) /\ Knows(disk, Kept) /\ Kept' = Kept
      /\ mem.intent # None /\ mem.intent.new # None
      /\ mem.intent.kind = "upsert" /\ mem.intent.id = req[r].id
  BY <1>1, InsideOrphan DEF SectionInv, UpsertSteps, IntentOwned, Running, Kept
<1>3. Knows(m, Kept) /\ mem.intent.new.ref \in Live(m)
  BY <1>2, CoverProfile DEF Knows
<1>4. m.intent = mem.intent
  BY <1>2 DEF Data
<1>5. mem' = m /\ disk' \in {disk, m} /\ mu' \in {None, r}
  BY <1>2 DEF CommitProfile, SaveOk, SaveFails, Fail
<1>6. req' = [req EXCEPT ![r] = Idle] \/ Goto(r, t)
  BY DEF CommitProfile, Fail
<1> HIDE DEF m
<1>7. mem.intent.old \in {None, mem.intent.new.ref} => Settled(m, Kept)
  BY <1>2, <1>3, <1>4, SettledCommit
<1>8. req'[r].step \in {"idle", t}
  BY <1>6, TypeParts DEF RestOK, Request, Goto, Idle
<1>9. req'[r].step \in {"clear", "delClear"} => Settled(m, Kept)
  BY <1>7, <1>8
<1> QED
  BY <1>1, <1>2, <1>3, <1>5, <1>9, OrphanStep

\* The replaced or deleted secret goes, which settles the intent.
LEMMA SecretOrphan ==
    ASSUME IInv, IInv', OrphanInv, NEW r \in Requests, DropOldSecret(r) \/ DeleteSecret(r)
    PROVE  OrphanInv'
<1>1. /\ Running(r, "dropOld") \/ Running(r, "delSecret")
      /\ {"dropOld", "delSecret"} \subseteq InsideSteps
      /\ UNCHANGED <<daemon, mem, disk, abandoned>>
      /\ secrets' \in {secrets, secrets \ {mem.intent.old}}
  BY DEF DropOldSecret, DeleteSecret, SecretDelete, InsideSteps, UpsertSteps, DeleteSteps
<1>2. /\ daemon = "up" /\ mu = r /\ mem \in Data /\ Kept \subseteq Refs
      /\ Knows(mem, Kept) /\ Knows(disk, Kept) /\ SectionInv
  BY <1>1, InsideOrphan
<1>3. Kept' \subseteq Kept
  BY <1>1 DEF Kept
<1>4. Knows(mem, Kept') /\ Knows(disk, Kept')
  BY <1>2, <1>3, KnowsLess
<1>5. \/ req' = [req EXCEPT ![r] = Idle] /\ mu' = None
      \/ /\ secrets' = secrets \ {mem.intent.old} /\ mu' = mu
         /\ Goto(r, "clear") \/ Goto(r, "delClear")
  BY DEF DropOldSecret, DeleteSecret, SecretDelete, Fail
<1>6. CASE req' = [req EXCEPT ![r] = Idle] /\ mu' = None
  <2>1. req'[r].step = "idle"
    BY <1>6, TypeParts DEF RestOK, Idle
  <2> QED
    BY <1>1, <1>2, <1>4, <1>6, <2>1, OrphanStep
<1>7. CASE secrets' = secrets \ {mem.intent.old} /\ mu' = mu
  <2>2. mem.intent # None /\ (mem.intent.new # None => mem.intent.new.ref \in Live(mem))
    <3>1. CASE Running(r, "dropOld")
      <4>1. /\ mem.intent # None /\ mem.intent.id = req[r].id
            /\ mem.profiles[req[r].id] = mem.intent.new
        BY <1>2, <3>1 DEF SectionInv, Running, UpsertSteps
      <4>2. mem.intent.id \in ProfileIDs
        BY <1>2, <4>1 DEF Data, Intent
      <4> QED
        BY <4>1, <4>2 DEF Live
    <3>2. CASE Running(r, "delSecret")
      BY <1>2, <3>2 DEF SectionInv, Running, DeleteSteps, Knows, Remembers
    <3> QED
      BY <1>1, <3>1, <3>2
  <2>3. Kept' \subseteq Refs /\ mem.intent.old \notin Kept'
    BY <1>2, <1>3, <1>7 DEF Kept
  <2>4. Settled(mem, Kept')
    BY <2>2, <2>3, SettledCommit
  <2> QED
    BY <1>1, <1>2, <1>4, <1>7, <2>4, OrphanStep
<1> QED
  BY <1>5, <1>6, <1>7

\* The profile leaves the list; the intent remembers its reference.
LEMMA CommitDeleteOrphan ==
    ASSUME IInv, IInv', OrphanInv, NEW r \in Requests, CommitDelete(r)
    PROVE  OrphanInv'
<1> DEFINE m == [mem EXCEPT !.profiles[mem.intent.id] = None]
<1>1. /\ Running(r, "delCommit") /\ "delCommit" \in InsideSteps
      /\ UNCHANGED <<daemon, secrets, abandoned>>
  BY DEF CommitDelete, InsideSteps, DeleteSteps
<1>2. /\ daemon = "up" /\ mu = r /\ mem \in Data /\ Kept' = Kept
      /\ Knows(mem, Kept) /\ Knows(disk, Kept)
      /\ mem.intent # None /\ mem.intent.kind = "delete" /\ mem.intent.id = req[r].id
  BY <1>1, InsideOrphan DEF SectionInv, DeleteSteps, Running, Kept
<1>3. Knows(m, Kept)
  BY <1>2, CoverProfile DEF Knows
<1>4. mem'.profiles = m.profiles /\ mem'.intent = m.intent
  BY <1>2 DEF CommitDelete, Data
<1>5. disk' \in {disk, mem'} /\ mu' \in {None, r}
  BY <1>2 DEF CommitDelete, SaveOk, SaveFails, Fail
<1> HIDE DEF m
<1>6. Knows(mem', Kept)
  BY <1>3, <1>4, CoverSame DEF Knows
<1>7. req' = [req EXCEPT ![r] = Idle] \/ Goto(r, "delSecret")
  BY DEF CommitDelete, Fail
<1>8. req'[r].step \notin {"clear", "delClear"}
  BY <1>7, TypeParts DEF RestOK, Request, Goto, Idle
<1> QED
  BY <1>1, <1>2, <1>5, <1>6, <1>8, OrphanStep

\* The answer clears a settled intent.
LEMMA ClearOrphan ==
    ASSUME IInv, IInv', OrphanInv, NEW r \in Requests, ClearIntent(r) \/ ClearDeleteIntent(r)
    PROVE  OrphanInv'
<1> DEFINE m == [mem EXCEPT !.intent = None]
<1>1. /\ Running(r, "clear") \/ Running(r, "delClear")
      /\ {"clear", "delClear"} \subseteq InsideSteps /\ UNCHANGED <<daemon, secrets, abandoned>>
      /\ req[r].step \in {"clear", "delClear"}
  BY DEF ClearIntent, ClearDeleteIntent, InsideSteps, UpsertSteps, DeleteSteps, Running
<1>2. /\ daemon = "up" /\ mu = r /\ mem \in Data /\ Kept' = Kept
      /\ Knows(mem, Kept) /\ Knows(disk, Kept) /\ Settled(mem, Kept)
  BY <1>1, InsideOrphan DEF OrphanInv, Kept
<1>3. Knows(m, Kept)
  BY <1>2, CoverClear DEF Knows
<1>4. /\ disk' \in {disk, m} /\ mem' \in {mem, m} /\ mu' \in {None, r}
      /\ req' = [req EXCEPT ![r] = Idle] \/ Goto(r, "current")
  BY <1>2 DEF ClearIntent, ClearDeleteIntent, SaveOk, SaveFails, Fail
<1> HIDE DEF m
<1>5. req'[r].step \notin {"clear", "delClear"}
  BY <1>4, TypeParts DEF RestOK, Request, Goto, Idle
<1> QED
  BY <1>1, <1>2, <1>3, <1>4, <1>5, OrphanStep

\* The tail of CreateProfile moves the current profile only.
LEMMA SetFirstCurrentOrphan ==
    ASSUME IInv, IInv', OrphanInv, NEW r \in Requests, SetFirstCurrent(r)
    PROVE  OrphanInv'
<1>1. /\ Running(r, "current") /\ "current" \in InsideSteps
      /\ UNCHANGED <<daemon, secrets, abandoned>>
  BY DEF SetFirstCurrent, InsideSteps
<1>2. /\ daemon = "up" /\ mu = r /\ mem \in Data /\ Kept' = Kept
      /\ Knows(mem, Kept) /\ Knows(disk, Kept)
  BY <1>1, InsideOrphan DEF Kept
<1>3. mem'.profiles = mem.profiles /\ mem'.intent = mem.intent /\ disk' \in {disk, mem'}
  BY <1>2 DEF SetFirstCurrent, Data, SaveOk, SaveFails
<1>4. Knows(mem', Kept)
  BY <1>2, <1>3, CoverSame DEF Knows
<1>5. mu' \in {None, r} /\ (req' = [req EXCEPT ![r] = Idle] \/ Goto(r, "select"))
  BY DEF SetFirstCurrent, Fail
<1>6. req'[r].step \notin {"clear", "delClear"}
  BY <1>5, TypeParts DEF RestOK, Request, Goto, Idle
<1> QED
  BY <1>1, <1>2, <1>3, <1>4, <1>5, <1>6, OrphanStep

\* A step of load(): no request is there, only the daemon owes something.
LEMMA OrphanLoading ==
    ASSUME \A r \in Requests : req'[r].step = "idle", Knows(disk, Kept)',
           daemon' # "down" => Knows(mem, Kept)',
           daemon' = "recClear" => Settled(mem, Kept)'
    PROVE  OrphanInv'
BY DEF OrphanInv

\* A crash, and every step of load(): recovery completes what the intent says.
LEMMA RecoveryOrphan ==
    ASSUME IInv, OrphanInv, Crash \/ Recovery
    PROVE  OrphanInv'
<1>1. /\ mem \in Data /\ disk \in Data /\ secrets \subseteq Refs /\ Kept \subseteq Refs
      /\ Knows(disk, Kept) /\ abandoned' = abandoned
  BY DEF IInv, TypeOK, OrphanInv, Kept, Crash, Recovery, Load, DropIntent, RecoverProfiles,
     RecoverSecret, RecoverClear
<1>2. daemon # "up" => \A r \in Requests : req[r].step = "idle"
  BY DEF IInv, MutexInv
<1>3. daemon \notin {"up", "down"} =>
        /\ mem.intent # None /\ IntentOwned(mem.intent)
        /\ mem.intent \in Intent /\ Knows(mem, Kept) /\ Reachable(mem, secrets)
  BY <1>1 DEF IInv, TypeOK, DaemonSteps, OrphanInv, RecoveryInv, RefsOwned, Data
<1>s. ASSUME Stop, Knows(disk, Kept)' PROVE OrphanInv'
  BY <1>s, OrphanLoading DEF Stop, Idle
<1>k. secrets' = secrets => Kept' = Kept
  BY <1>1 DEF Kept
<1>4. CASE Crash
  BY <1>1, <1>k, <1>4, <1>s DEF Crash
<1>5. CASE Load
  <2>1. /\ UNCHANGED <<disk, secrets, req>> /\ daemon' # "recClear" /\ daemon = "down"
        /\ mem' = disk
    BY <1>5 DEF Load, Serve
  <2> QED
    BY <1>1, <1>k, <1>2, <2>1, OrphanLoading
<1>6. CASE DropIntent \/ RecoverClear
  <2> DEFINE m == [mem EXCEPT !.intent = None]
  <2>1. daemon \notin {"up", "down"} /\ UNCHANGED secrets
    BY <1>6 DEF DropIntent, RecoverClear
  <2>2. Settled(mem, Kept)
    <3>1. CASE RecoverClear
      BY <3>1 DEF RecoverClear, OrphanInv
    <3>2. CASE DropIntent
      <4>1. /\ mem.intent.kind = "upsert" /\ mem.intent.new.ref \notin secrets
            /\ mem.intent.new # None /\ Kept \subseteq secrets
        BY <1>3, <2>1, <3>2 DEF DropIntent, IntentOwned, Kept
      <4>2. Named(mem.intent) = {mem.intent.old, mem.intent.new.ref}
        BY <1>3, <2>1, <4>1 DEF Named
      <4>3. ASSUME mem.intent.old \in Kept PROVE mem.intent.old \in Live(mem)
        <5>1. mem.intent.id \in ProfileIDs /\ mem.intent.old # None
          BY <1>1, <1>3, <2>1, <4>3, NoneAssumption DEF Intent
        <5>2. mem.profiles[mem.intent.id] # None
          BY <1>3, <2>1, <4>1, <5>1 DEF Knows, Remembers
        <5>3. mem.profiles[mem.intent.id].ref \in Named(mem.intent)
          BY <1>3, <2>1, <5>2 DEF Knows, Remembers
        <5>4. mem.profiles[mem.intent.id].ref \in secrets
          BY <1>3, <2>1, <5>1, <5>2 DEF Reachable
        <5>5. mem.profiles[mem.intent.id].ref = mem.intent.old
          BY <4>1, <4>2, <5>3, <5>4
        <5> QED
          BY <5>1, <5>2, <5>5 DEF Live
      <4> QED
        BY <4>1, <4>2, <4>3 DEF Settled
    <3> QED
      BY <1>6, <3>1, <3>2
  <2>3. Knows(m, Kept)
    BY <1>1, <1>3, <2>1, <2>2, CoverClear DEF Knows
  <2>4. \/ SaveOk(m) /\ mem' = m /\ Serve(m) /\ UNCHANGED req
        \/ SaveFails(m) /\ Stop
    BY <1>6 DEF DropIntent, RecoverClear
  <2> HIDE DEF m
  <2>5. CASE SaveFails(m) /\ Stop
    BY <1>1, <1>k, <1>s, <2>1, <2>3, <2>5 DEF SaveFails
  <2>6. CASE SaveOk(m) /\ mem' = m /\ Serve(m) /\ UNCHANGED req
    BY <1>2, <1>k, <2>1, <2>3, <2>6, OrphanLoading DEF SaveOk, Serve
  <2> QED
    BY <2>4, <2>5, <2>6
<1>7. CASE RecoverProfiles
  <2> DEFINE v == IF mem.intent.kind = "upsert" THEN mem.intent.new ELSE None
             m == [mem EXCEPT !.profiles[mem.intent.id] = v]
             drop == /\ mem.intent.old # None
                     /\ mem.intent.kind = "upsert" => mem.intent.old # mem.intent.new.ref
  <2>1. daemon = "recover" /\ UNCHANGED secrets
    BY <1>7 DEF RecoverProfiles
  <2>2. Recovered(mem, secrets) = [mem.profiles EXCEPT ![mem.intent.id] = v]
    BY <1>3, <1>7, <2>1 DEF RecoverProfiles, Recovered, Intent
  <2>3. m = [mem EXCEPT !.profiles = Recovered(mem, secrets)]
    BY <2>2
  <2>4. \/ SaveOk(m) /\ mem' = m /\ UNCHANGED req /\ daemon' = IF drop THEN "recDrop" ELSE "recClear"
        \/ SaveFails(m) /\ Stop
    BY <1>7, <2>3 DEF RecoverProfiles
  <2>5. mem.intent.kind = "upsert" => mem.intent.new # None
    BY <1>3, <2>1 DEF IntentOwned
  <2>6. Knows(m, Kept) /\ (v # None => v.ref \in Live(m))
    BY <1>1, <1>3, <2>1, <2>5, CoverProfile DEF Knows
  <2>7. m.intent = mem.intent
    BY <1>1 DEF Data
  <2> HIDE DEF m
  <2>8. CASE SaveFails(m) /\ Stop
    BY <1>1, <1>k, <1>s, <2>1, <2>6, <2>8 DEF SaveFails
  <2>9. CASE /\ SaveOk(m) /\ mem' = m /\ UNCHANGED req
             /\ daemon' = IF drop THEN "recDrop" ELSE "recClear"
    <3>1. ASSUME ~drop PROVE Settled(m, Kept)
      <4>1. mem.intent.new # None => mem.intent.new.ref \in Live(m)
        BY <1>3, <2>1, <2>6 DEF Knows, Remembers, Intent
      <4> QED
        BY <1>1, <1>3, <2>1, <2>5, <2>7, <3>1, <4>1, SettledCommit
    <3>2. daemon' = "recClear" => ~drop
      BY <2>9
    <3> HIDE DEF drop
    <3> QED
      BY <1>2, <1>k, <2>1, <2>6, <2>9, <3>1, <3>2, OrphanLoading DEF SaveOk
  <2> QED
    BY <2>4, <2>8, <2>9
<1>8. CASE RecoverSecret
  <2>1. daemon = "recDrop" /\ UNCHANGED <<disk, storeOK>>
        /\ secrets' \in {secrets, secrets \ {mem.intent.old}}
    BY <1>8 DEF RecoverSecret, SecretDelete
  <2>2. Kept' \subseteq Kept
    BY <1>1, <2>1 DEF Kept
  <2>2a. Knows(disk, Kept') /\ Knows(mem, Kept')
    BY <1>1, <1>3, <2>1, <2>2, KnowsLess
  <2>3. CASE Stop
    BY <1>s, <2>1, <2>2a, <2>3
  <2>4. CASE UNCHANGED <<mem, req>> /\ secrets' = secrets \ {mem.intent.old}
    <3>1. mem.profiles[mem.intent.id] = IF mem.intent.kind = "upsert" THEN mem.intent.new ELSE None
      BY <2>1 DEF IInv, RecoveryInv
    <3>2. mem.intent.new # None => mem.intent.new.ref \in Live(mem)
      BY <1>3, <2>1, <3>1 DEF Knows, Remembers, Intent, Live
    <3>3. Kept' \subseteq Refs /\ mem.intent.old \notin Kept'
      BY <1>1, <2>2, <2>4 DEF Kept
    <3>4. Settled(mem, Kept')
      BY <1>3, <2>1, <3>2, <3>3, SettledCommit
    <3> QED
      BY <1>2, <2>1, <2>2a, <2>4, <3>4, OrphanLoading
  <2> QED
    BY <1>8, <2>3, <2>4 DEF RecoverSecret, SecretDelete
<1> QED
  BY <1>4, <1>5, <1>6, <1>7, <1>8 DEF Recovery

\* OrphanInv is inductive on top of IInv.
LEMMA NextOrphanInv == IInv /\ IInv' /\ OrphanInv /\ [Next]_vars => OrphanInv'
<1> SUFFICES ASSUME IInv, IInv', OrphanInv, [Next]_vars PROVE OrphanInv'
  OBVIOUS
<1>1. ASSUME NEW r \in Requests, RequestStep(r) PROVE OrphanInv'
  BY <1>1, QuietOrphan, WriteIntentOrphan, WriteDeleteIntentOrphan, PutSecretOrphan,
     CommitProfileOrphan, SecretOrphan, CommitDeleteOrphan, ClearOrphan, SetFirstCurrentOrphan
     DEF RequestStep
<1>2. CASE UNCHANGED vars
  BY <1>2 DEF vars, OrphanInv, Knows, Covered, Remembers, Settled, Live, Named, Kept
<1> QED
  BY <1>1, <1>2, StartOrphan, RecoveryOrphan DEF Next

\* A fresh installation has no secret.
LEMMA InitOrphanInv == Init => OrphanInv
BY DEF Init, OrphanInv, Knows, Covered, Remembers, EmptyData, Idle, Kept

\* Whenever the daemon is healthy and idle, the secret store holds the references
\* of the profiles and nothing else, but for what a delete abandoned by writing
\* its intent over a pending one: for any callers, System included, any number
\* of overlapping requests, and any failed write or stop of commitProfileLocked,
\* DeleteProfile and recoverIntentLocked before.
THEOREM OrphansNeverLeft == Spec => []NoOrphanSecrets
<1>1. IInv /\ OrphanInv => NoOrphanSecrets
  <2> SUFFICES ASSUME IInv, OrphanInv, daemon = "up", WritesAllowed
               PROVE  Live(mem) \subseteq secrets /\ secrets \subseteq Live(mem) \cup abandoned
    BY DEF NoOrphanSecrets
  <2>1. Knows(mem, Kept) /\ mem.intent = None /\ Reachable(mem, secrets)
    BY DEF IInv, OrphanInv, WritesAllowed
  <2>2. Kept \subseteq Live(mem)
    BY <2>1 DEF Knows, Covered, Named
  <2>3. Live(mem) \subseteq secrets
    BY <2>1 DEF Live, Reachable
  <2> QED
    BY <2>2, <2>3 DEF Kept
<1>2. IInv /\ IInv' /\ OrphanInv /\ [Next]_vars => OrphanInv'
  BY NextOrphanInv
<1> QED
  BY <1>1, <1>2, InitOrphanInv, InductiveInvariant, PTL DEF Spec

=============================================================================
