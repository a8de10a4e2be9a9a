--------------------------- MODULE ShareManagerProofs ---------------------------
(***************************************************************************)
(* Proofs about ShareManager for any number of shares, credentials and     *)
(* tasks.  The first part holds whether or not the authorization activity  *)
(* is reachable; the second for the application as it is wired today, in   *)
(* which it is not and every share is stored with mount = true.            *)
(***************************************************************************)
EXTENDS ShareManager, TLAPS

USE DEF NoCredential, NoUri, Nobody

(* The steps of one task. *)
Step(t) == \/ TryMount(t)
           \/ TryAuth(t)
           \/ AlreadyMounted(t)
           \/ StartCheck(t)
           \/ CheckFails(t)
           \/ CheckSucceeds(t)

-------------------------------------------------------------------------------
(* What addServer and addOrUpdateServer put in the set is the text of a    *)
(* share, with a credential the caller gave or none (saveServerInfo).      *)
LEMMA SavedString ==
    ASSUME NEW j \in Jobs
    PROVE  /\ Encode(j.uri, TupleOf(j)) \in Strings
           /\ Encode(j.uri, TupleOf(j)) # NoString
           /\ Encode(j.uri, TupleOf(j)).uri = j.uri
           /\ Encode(j.uri, TupleOf(j)).tuple = TupleOf(j)
           /\ TupleOf(j).cred = j.cred
           /\ j.mount => TupleOf(j).mount
  <1>1. TupleOf(j) \in Tuples
    BY DEF Jobs, CredentialOrNone, TupleOf, Tuples, EmptyTuple
  <1>2. j.uri \in Uris
    BY DEF Jobs
  <1>3. Encode(j.uri, TupleOf(j)).uri # NoString.uri
    BY <1>2, ShareAssumption DEF Encode, NoString
  <1> QED  BY <1>1, <1>2, <1>3 DEF Encode, Strings, TupleOf, EmptyTuple

(* The text of a share is never taken for a missing one. *)
LEMMA StringsAreStored ==
    ASSUME NEW s \in Strings
    PROVE  s # NoString /\ s.uri \in Uris /\ s.tuple \in Tuples
  <1>1. s.uri \in Uris /\ s.tuple \in Tuples
    BY DEF Strings
  <1>2. NoString.uri = NoUri
    BY DEF NoString, Encode
  <1> QED  BY <1>1, <1>2, ShareAssumption

(* The cache holds credentials or nothing, whichever tuple they come from. *)
LEMMA TupleCredential ==
    ASSUME NEW x \in Tuples
    PROVE  x.cred \in CredentialOrNone /\ x.mount \in BOOLEAN
  <1>1. CASE x \in [cred : Credentials, mount : BOOLEAN]
    BY <1>1 DEF CredentialOrNone
  <1>2. CASE x = EmptyTuple
    <2>1. EmptyTuple.cred = NoCredential /\ EmptyTuple.mount = TRUE
      BY DEF EmptyTuple
    <2> QED  BY <1>2, <2>1 DEF CredentialOrNone
  <1> QED  BY <1>1, <1>2 DEF Tuples

(* The constructor gives every table its type (ShareManager.java:64).      *)
LEMMA LoadTypes ==
    ASSUME NEW saved \in SUBSET Strings, Load(saved)
    PROVE  /\ strings' \in SUBSET Strings
           /\ stringOf' \in [Uris -> Strings \cup {NoString}]
           /\ mounted' \in SUBSET Uris
           /\ cred' \in [Uris -> CredentialOrNone]
           /\ pref' \in SUBSET Strings
  <1>1. PICK choice \in [{s.uri : s \in saved} -> saved] :
            /\ \A u \in DOMAIN choice : choice[u].uri = u
            /\ strings'  = saved
            /\ stringOf' = [u \in Uris |-> IF u \in DOMAIN choice THEN choice[u] ELSE NoString]
            /\ mounted'  = Loaded(choice)
            /\ cred' = [u \in Uris |-> IF u \in DOMAIN choice THEN choice[u].tuple.cred
                                                              ELSE NoCredential]
            /\ pref' = saved
    BY DEF Load
  <1>2. \A u \in DOMAIN choice : choice[u] \in Strings
    OBVIOUS
  <1>3. \A u \in DOMAIN choice : choice[u].tuple.cred \in CredentialOrNone
    BY <1>2, StringsAreStored, TupleCredential
  <1>4. DOMAIN choice \subseteq Uris
    BY StringsAreStored
  <1>5. mounted' \in SUBSET Uris
    BY <1>1, <1>4 DEF Loaded
  <1>6. cred' \in [Uris -> CredentialOrNone]
    BY <1>1, <1>3 DEF CredentialOrNone
  <1> QED  BY <1>1, <1>2, <1>5, <1>6

(* Init gives every variable its type. *)
LEMMA TypeInit == Init => TypeOK
  BY ShareAssumption DEF Init, TypeOK, Strings, CredentialOrNone

(* Every step preserves the types, and a task in the monitor has a job.    *)
LEMMA TypeNext == TypeOK /\ [Next]_vars => TypeOK'
  <1> SUFFICES ASSUME TypeOK, [Next]_vars PROVE TypeOK'
    OBVIOUS
  <1>1. ASSUME NEW t \in Tasks, TryMount(t) PROVE TypeOK'
    <2>1. PICK u \in Uris, c \in CredentialOrNone :
              job' = [job EXCEPT ![t] = [op |-> "mount", uri |-> u, cred |-> c, mount |-> TRUE]]
      BY <1>1 DEF TryMount
    <2> DEFINE j == [op |-> "mount", uri |-> u, cred |-> c, mount |-> TRUE]
    <2>2. j \in Jobs
      BY DEF Jobs
    <2> HIDE DEF j
    <2>3. job' \in [Tasks -> Jobs \cup {NoJob}]
      BY <2>1, <2>2 DEF TypeOK, j
    <2> QED  BY <1>1, <2>3 DEF TypeOK, TryMount, tables, uiVars, asked
  <1>2. ASSUME NEW t \in Tasks, TryAuth(t) PROVE TypeOK'
    <2>1. PICK u \in Uris, c \in Credentials, pin \in BOOLEAN :
              job' = [job EXCEPT ![t] = [op |-> "auth", uri |-> u, cred |-> c, mount |-> pin]]
      BY <1>2 DEF TryAuth
    <2> DEFINE j == [op |-> "auth", uri |-> u, cred |-> c, mount |-> pin]
    <2>2. j \in Jobs
      BY DEF Jobs, CredentialOrNone
    <2>3. j # NoJob
      BY ShareAssumption DEF NoJob
    <2>4. job' = [job EXCEPT ![t] = j]
      BY <2>1
    <2> HIDE DEF j
    <2>5. job' \in [Tasks -> Jobs \cup {NoJob}]
      BY <2>2, <2>4 DEF TypeOK
    <2>6. UNCHANGED <<tables, cred, pref, disk, checking, uiVars>>
      BY <1>2 DEF TryAuth
    <2>7. checking' # Nobody => job'[checking'] # NoJob
      BY <2>3, <2>4, <2>6 DEF TypeOK
    <2> QED  BY <2>5, <2>6, <2>7 DEF TypeOK, tables, uiVars, asked
  <1>3. ASSUME NEW t \in Tasks, AlreadyMounted(t) PROVE TypeOK'
    BY <1>3, ShareAssumption DEF TypeOK, AlreadyMounted, tables, uiVars, asked
  <1>4. ASSUME NEW t \in Tasks, StartCheck(t) PROVE TypeOK'
    <2>1. job[t] \in Jobs
      BY <1>4 DEF TypeOK, StartCheck
    <2>2. job[t].cred \in CredentialOrNone
      BY <2>1 DEF Jobs
    <2>3. cred' \in [Uris -> CredentialOrNone]
      BY <1>4, <2>2 DEF TypeOK, StartCheck
    <2> QED  BY <1>4, <2>3 DEF TypeOK, StartCheck, tables, uiVars, asked
  <1>5. ASSUME NEW t \in Tasks, CheckFails(t) PROVE TypeOK'
    <2>1. cred' \in [Uris -> CredentialOrNone]
      BY <1>5 DEF TypeOK, CheckFails, Forget, CredentialOrNone
    <2> QED  BY <1>5, <2>1 DEF TypeOK, CheckFails, tables, uiVars, asked
  <1>6. ASSUME NEW t \in Tasks, CheckSucceeds(t) PROVE TypeOK'
    <2>1. job[t] \in Jobs
      BY <1>6, ShareAssumption DEF TypeOK, CheckSucceeds
    <2> DEFINE s == Encode(job[t].uri, TupleOf(job[t]))
    <2>2. s \in Strings /\ s.uri \in Uris /\ job[t].mount \in BOOLEAN
      BY <2>1, SavedString, StringsAreStored DEF Jobs
    <2>3. Save(s)
      BY <1>6 DEF CheckSucceeds
    <2> HIDE DEF s
    <2>4. /\ strings' \in SUBSET Strings
          /\ stringOf' \in [Uris -> Strings \cup {NoString}]
          /\ mounted' \in SUBSET Uris
          /\ pref' \in SUBSET Strings
      BY <2>2, <2>3 DEF Save, TypeOK
    <2>5. kept' \in SUBSET Uris /\ seen' \in SUBSET Uris
      BY <1>6, <2>4 DEF TypeOK, CheckSucceeds, Watch
    <2> QED  BY <1>6, <2>2, <2>4, <2>5 DEF TypeOK, CheckSucceeds
  <1>7. ASSUME NEW u \in Uris, Unmount(u) PROVE TypeOK'
    <2>1. cred' \in [Uris -> CredentialOrNone]
      BY <1>7 DEF TypeOK, Unmount, Forget, CredentialOrNone
    <2>2. kept' \in SUBSET Uris /\ seen' \in SUBSET Uris
      BY <1>7 DEF TypeOK, Unmount, Watch
    <2> QED  BY <1>7, <2>1, <2>2 DEF TypeOK, Unmount
  <1>8. ASSUME NEW u \in Uris, AddRow(u) PROVE TypeOK'
    BY <1>8 DEF TypeOK, AddRow, tables, asked
  <1>9. CASE QueryRoots
    BY <1>9 DEF TypeOK, QueryRoots, tables
  <1>10. CASE ShowRoots
    BY <1>10 DEF TypeOK, ShowRoots, tables, asked
  <1>11. CASE Flush
    BY <1>11 DEF TypeOK, Flush, tables, uiVars, asked
  <1>12. CASE Restart
    <2>1. disk \in SUBSET Strings /\ Load(disk)
      BY <1>12 DEF TypeOK, Restart
    <2> QED  BY <1>12, <2>1, LoadTypes DEF TypeOK, Restart
  <1>13. CASE UNCHANGED vars
    BY <1>13 DEF TypeOK, vars, tables, uiVars, asked
  <1> QED  BY <1>1, <1>2, <1>3, <1>4, <1>5, <1>6, <1>7, <1>8, <1>9, <1>10, <1>11, <1>12,
              <1>13 DEF Next

(* Type correctness of the share tables and of the calls on their way; the *)
(* task in the monitor always has a job.                                   *)
THEOREM TypeCorrect == Spec => []TypeOK
  BY TypeInit, TypeNext, PTL DEF Spec
-------------------------------------------------------------------------------
(* The task in the monitor has put its credentials into the cache.         *)
CheckedCredential ==
    checking # Nobody /\ job[checking].cred # NoCredential
        => cred[job[checking].uri] = job[checking].cred

(* No string ever holds credentials the server has refused.                *)
StringsWereChecked ==
    \A s \in strings \cup pref \cup disk :
        s.tuple.cred \in Accepts[s.uri] \cup {NoCredential}

(* The inductive invariant, whether or not AuthActivity is reachable.      *)
ShareInv == /\ TypeOK
            /\ TablesAgree
            /\ CredentialsHaveShares
            /\ CredentialsWork
            /\ CheckedCredential
            /\ StringsWereChecked

(* What a task does outside the monitor disturbs none of the tables, and   *)
(* not the job of the task inside.                                         *)
Outside == /\ UNCHANGED <<tables, cred, pref, disk, checking>>
           /\ checking # Nobody => job'[checking] = job[checking]

LEMMA StepsOutside ==
    ASSUME TypeOK, NEW t \in Tasks, TryMount(t) \/ TryAuth(t) \/ AlreadyMounted(t)
    PROVE  Outside
  <1>1. CASE TryMount(t)
    BY <1>1 DEF Outside, TryMount
  <1>2. CASE TryAuth(t)
    BY <1>2 DEF Outside, TryAuth, TypeOK
  <1>3. CASE AlreadyMounted(t)
    BY <1>3 DEF Outside, AlreadyMounted
  <1> QED  BY <1>1, <1>2, <1>3

LEMMA OutsideKeeps ==
    ASSUME ShareInv, Outside
    PROVE  /\ TablesAgree'
           /\ CredentialsHaveShares'
           /\ CredentialsWork'
           /\ CheckedCredential'
           /\ StringsWereChecked'
  <1>1. TablesAgree' /\ StringsWereChecked'
    BY DEF ShareInv, Outside, tables, TablesAgree, Stored, StringsWereChecked
  <1>2. \A u \in Uris : Checking(u)' <=> Checking(u)
    BY DEF Outside, Checking
  <1>3. CredentialsHaveShares' /\ CredentialsWork'
    BY <1>2 DEF ShareInv, Outside, tables, CredentialsHaveShares, CredentialsWork, Stored
  <1>4. CheckedCredential'
    BY DEF ShareInv, Outside, CheckedCredential
  <1> QED  BY <1>1, <1>3, <1>4

(* The steps of the UI and the write of the file leave tables and monitor  *)
(* alone.                                                                  *)
LEMMA UiOutside ==
    ASSUME \/ \E u \in Uris : AddRow(u)
           \/ QueryRoots
           \/ ShowRoots
           \/ UNCHANGED vars
    PROVE  Outside
  BY DEF AddRow, QueryRoots, ShowRoots, vars, tables, Outside

(* A save changes the string of one share; the others stay in the set.     *)
LEMMA SaveKeepsTables ==
    ASSUME TypeOK, TablesAgree, NEW s \in Strings, Save(s)
    PROVE  /\ TablesAgree'
           /\ \A u \in Uris : Stored(u)' <=> Stored(u) \/ u = s.uri
  <1>1. s # NoString /\ s.uri \in Uris /\ s.tuple.mount \in BOOLEAN
    BY StringsAreStored, TupleCredential
  <1>2. /\ strings' = strings \cup {s}
        /\ stringOf' = [stringOf EXCEPT ![s.uri] = s]
        /\ mounted' = IF s.tuple.mount THEN mounted \cup {s.uri} ELSE mounted \ {s.uri}
    BY DEF Save
  <1>3. stringOf'[s.uri] = s /\ \A u \in Uris \ {s.uri} : stringOf'[u] = stringOf[u]
    BY <1>1, <1>2 DEF TypeOK
  <1>4. \A u \in Uris : Stored(u)' <=> Stored(u) \/ u = s.uri
    BY <1>1, <1>3 DEF Stored
  <1>5. \A u \in Uris : Stored(u)' => stringOf'[u] \in strings' /\ stringOf'[u].uri = u
    BY <1>2, <1>3, <1>4 DEF TablesAgree
  <1>6. mounted' = {u \in Uris : Stored(u)' /\ stringOf'[u].tuple.mount}
    <2>1. mounted = {u \in Uris : Stored(u) /\ stringOf[u].tuple.mount}
      BY DEF TablesAgree
    <2>2. \A u \in Uris \ {s.uri} : u \in mounted' <=> Stored(u)' /\ stringOf'[u].tuple.mount
      BY <1>2, <1>3, <1>4, <2>1
    <2>3. s.uri \in mounted' <=> Stored(s.uri)' /\ stringOf'[s.uri].tuple.mount
      BY <1>1, <1>2, <1>3, <1>4
    <2>4. mounted' \subseteq Uris
      BY <1>1, <1>2 DEF TypeOK
    <2> QED  BY <2>2, <2>3, <2>4
  <1> QED  BY <1>4, <1>5, <1>6 DEF TablesAgree

(* An eject takes the string the map names out of the set, and leaves the  *)
(* strings the map names for the other shares.                             *)
LEMMA UnmountKeepsTables ==
    ASSUME TypeOK, TablesAgree, NEW u \in Uris, Unmount(u)
    PROVE  /\ TablesAgree'
           /\ \A v \in Uris : Stored(v)' <=> Stored(v) /\ v # u
  <1>1. /\ strings' = strings \ {stringOf[u]}
        /\ stringOf' = [stringOf EXCEPT ![u] = NoString]
        /\ mounted' = mounted \ {u}
        /\ Stored(u)
    BY DEF Unmount
  <1>2. stringOf'[u] = NoString /\ \A v \in Uris \ {u} : stringOf'[v] = stringOf[v]
    BY <1>1 DEF TypeOK
  <1>3. \A v \in Uris : Stored(v)' <=> Stored(v) /\ v # u
    BY <1>2 DEF Stored
  <1>4. ASSUME NEW v \in Uris, Stored(v)'
        PROVE  stringOf'[v] \in strings' /\ stringOf'[v].uri = v
    <2>1. Stored(v) /\ v # u
      BY <1>3, <1>4
    <2>2. stringOf[v] \in strings /\ stringOf[v].uri = v /\ stringOf[u].uri = u
      BY <1>1, <2>1 DEF TablesAgree
    <2> QED  BY <1>1, <1>2, <2>1, <2>2
  <1>5. mounted' = {v \in Uris : Stored(v)' /\ stringOf'[v].tuple.mount}
    <2>1. mounted = {v \in Uris : Stored(v) /\ stringOf[v].tuple.mount}
      BY DEF TablesAgree
    <2> QED  BY <1>1, <1>2, <1>3, <2>1
  <1> QED  BY <1>3, <1>4, <1>5 DEF TablesAgree

(* After the constructor the tables agree, whatever the file held.         *)
LEMMA LoadKeepsTables ==
    ASSUME NEW saved \in SUBSET Strings, Load(saved)
    PROVE  /\ TablesAgree'
           /\ strings' = saved /\ pref' = saved
           /\ \A u \in Uris : cred'[u] = IF Stored(u)' THEN stringOf'[u].tuple.cred
                                                       ELSE NoCredential
  <1>1. PICK choice \in [{s.uri : s \in saved} -> saved] :
            /\ \A u \in DOMAIN choice : choice[u].uri = u
            /\ strings'  = saved
            /\ stringOf' = [u \in Uris |-> IF u \in DOMAIN choice THEN choice[u] ELSE NoString]
            /\ mounted'  = Loaded(choice)
            /\ cred' = [u \in Uris |-> IF u \in DOMAIN choice THEN choice[u].tuple.cred
                                                              ELSE NoCredential]
            /\ pref' = saved
    BY DEF Load
  <1>2. \A u \in DOMAIN choice : choice[u] \in saved /\ choice[u] \in Strings
    OBVIOUS
  <1>3. DOMAIN choice \subseteq Uris
    BY StringsAreStored
  <1>4. \A u \in DOMAIN choice : stringOf'[u] = choice[u] /\ Stored(u)'
    BY <1>1, <1>2, <1>3, StringsAreStored DEF Stored
  <1>5. \A u \in Uris \ DOMAIN choice : ~Stored(u)'
    BY <1>1 DEF Stored
  <1>6. \A u \in Uris : Stored(u)' => stringOf'[u] \in strings' /\ stringOf'[u].uri = u
    BY <1>1, <1>2, <1>4, <1>5
  <1>7. mounted' = {u \in Uris : Stored(u)' /\ stringOf'[u].tuple.mount}
    BY <1>1, <1>3, <1>4, <1>5 DEF Loaded
  <1>8. ASSUME NEW u \in Uris
        PROVE  cred'[u] = IF Stored(u)' THEN stringOf'[u].tuple.cred ELSE NoCredential
    <2>1. cred'[u] = IF u \in DOMAIN choice THEN choice[u].tuple.cred ELSE NoCredential
      BY <1>1
    <2> QED  BY <2>1, <1>4, <1>5
  <1> QED  BY <1>1, <1>6, <1>7, <1>8 DEF TablesAgree
-------------------------------------------------------------------------------
LEMMA InvInit == Init => ShareInv
  <1> SUFFICES ASSUME Init PROVE ShareInv
    OBVIOUS
  <1>1. TypeOK
    BY TypeInit
  <1>2. TablesAgree /\ CredentialsHaveShares /\ CredentialsWork
    BY DEF Init, TablesAgree, Stored, CredentialsHaveShares, CredentialsWork
  <1>3. CheckedCredential /\ StringsWereChecked
    BY DEF Init, CheckedCredential, StringsWereChecked
  <1> QED  BY <1>1, <1>2, <1>3 DEF ShareInv

(* Entering the monitor: the new credentials are those of the share that   *)
(* is being checked (checkServerCredentials).                              *)
LEMMA StartCheckKeeps ==
    ASSUME ShareInv, NEW t \in Tasks, StartCheck(t)
    PROVE  /\ TablesAgree'
           /\ CredentialsHaveShares'
           /\ CredentialsWork'
           /\ CheckedCredential'
           /\ StringsWereChecked'
  <1>1. /\ job[t] \in Jobs /\ job' = job /\ checking = Nobody /\ checking' = t
        /\ t # Nobody
        /\ UNCHANGED <<tables, pref, disk>>
    BY ShareAssumption DEF StartCheck, ShareInv, TypeOK
  <1>2. job[t].uri \in Uris
    BY <1>1 DEF Jobs
  <1>3. TablesAgree' /\ StringsWereChecked'
    BY <1>1 DEF ShareInv, tables, TablesAgree, Stored, StringsWereChecked
  <1>4. \A u \in Uris : Checking(u)' <=> u = job[t].uri
    BY <1>1 DEF Checking
  <1>5. \A u \in Uris : ~Checking(u)
    BY <1>1 DEF Checking
  <1>6. \A u \in Uris \ {job[t].uri} : cred'[u] = cred[u]
    BY <1>2 DEF StartCheck, ShareInv, TypeOK
  <1>7. \A u \in Uris : Stored(u)' <=> Stored(u)
    BY <1>1 DEF tables, Stored
  <1>8. CredentialsHaveShares'
    BY <1>4, <1>5, <1>6, <1>7 DEF ShareInv, CredentialsHaveShares
  <1>9. CredentialsWork'
    BY <1>4, <1>5, <1>6 DEF ShareInv, CredentialsWork
  <1>10. CheckedCredential'
    BY <1>1, <1>2 DEF CheckedCredential, StartCheck, ShareInv, TypeOK
  <1> QED  BY <1>3, <1>8, <1>9, <1>10

(* A failed check removes the credentials it had put there                 *)
(* (runMountChecker).                                                      *)
LEMMA CheckFailsKeeps ==
    ASSUME ShareInv, NEW t \in Tasks, CheckFails(t)
    PROVE  /\ TablesAgree'
           /\ CredentialsHaveShares'
           /\ CredentialsWork'
           /\ CheckedCredential'
           /\ StringsWereChecked'
  <1>1. /\ job[t] \in Jobs /\ checking = t /\ checking' = Nobody /\ t # Nobody
        /\ UNCHANGED <<tables, pref, disk>>
    BY ShareAssumption DEF CheckFails, ShareInv, TypeOK
  <1>2. job[t].uri \in Uris
    BY <1>1 DEF Jobs
  <1>3. TablesAgree' /\ StringsWereChecked' /\ CheckedCredential'
    BY <1>1 DEF ShareInv, tables, TablesAgree, Stored, StringsWereChecked, CheckedCredential
  <1>4. cred'[job[t].uri] = NoCredential
        /\ \A u \in Uris \ {job[t].uri} : cred'[u] = cred[u]
    BY <1>2 DEF CheckFails, Forget, ShareInv, TypeOK
  <1>5. \A u \in Uris \ {job[t].uri} : ~Checking(u)
    BY <1>1 DEF Checking
  <1>6. CredentialsHaveShares' /\ CredentialsWork'
    BY <1>1, <1>4, <1>5
    DEF ShareInv, tables, CredentialsHaveShares, CredentialsWork, Stored
  <1> QED  BY <1>3, <1>6

(* A check that succeeds saves credentials the server has just let in, or  *)
(* none (saveServerInfo).                                                  *)
LEMMA CheckSucceedsKeeps ==
    ASSUME ShareInv, NEW t \in Tasks, CheckSucceeds(t)
    PROVE  /\ TablesAgree'
           /\ CredentialsHaveShares'
           /\ CredentialsWork'
           /\ CheckedCredential'
           /\ StringsWereChecked'
  <1>1. /\ job[t] \in Jobs /\ checking = t /\ checking' = Nobody /\ t # Nobody
        /\ UNCHANGED <<cred, disk>>
        /\ cred[job[t].uri] \in Accepts[job[t].uri]
    BY ShareAssumption DEF CheckSucceeds, ShareInv, TypeOK
  <1> DEFINE s == Encode(job[t].uri, TupleOf(job[t]))
  <1>2. s \in Strings /\ s.uri = job[t].uri /\ s.tuple.cred = job[t].cred
    BY <1>1, SavedString
  <1>3. Save(s)
    BY DEF CheckSucceeds
  <1> HIDE DEF s
  <1>4. TablesAgree' /\ \A u \in Uris : Stored(u)' <=> Stored(u) \/ u = s.uri
    BY <1>2, <1>3, SaveKeepsTables DEF ShareInv
  <1>5. \A u \in Uris \ {s.uri} : ~Checking(u)
    BY <1>1, <1>2 DEF Checking
  <1>6. CredentialsHaveShares' /\ CredentialsWork'
    BY <1>1, <1>2, <1>4, <1>5 DEF ShareInv, CredentialsHaveShares, CredentialsWork
  <1>7. s.tuple.cred \in Accepts[s.uri] \cup {NoCredential}
    BY <1>1, <1>2 DEF ShareInv, CheckedCredential
  <1>8. strings' = strings \cup {s} /\ pref' = strings'
    BY <1>3 DEF Save
  <1>9. StringsWereChecked'
    BY <1>1, <1>7, <1>8 DEF ShareInv, StringsWereChecked
  <1>10. CheckedCredential'
    BY <1>1 DEF CheckedCredential
  <1> QED  BY <1>4, <1>6, <1>9, <1>10

(* An eject waits for the monitor and takes the credentials with it        *)
(* (unmountServer).                                                        *)
LEMMA UnmountKeeps ==
    ASSUME ShareInv, NEW u \in Uris, Unmount(u)
    PROVE  /\ TablesAgree'
           /\ CredentialsHaveShares'
           /\ CredentialsWork'
           /\ CheckedCredential'
           /\ StringsWereChecked'
  <1>1. /\ checking = Nobody /\ checking' = Nobody
        /\ UNCHANGED disk
        /\ strings' = strings \ {stringOf[u]} /\ pref' = strings'
    BY DEF Unmount
  <1>2. TablesAgree' /\ \A v \in Uris : Stored(v)' <=> Stored(v) /\ v # u
    BY UnmountKeepsTables DEF ShareInv
  <1>3. cred'[u] = NoCredential /\ \A v \in Uris \ {u} : cred'[v] = cred[v]
    BY DEF Unmount, Forget, ShareInv, TypeOK
  <1>4. \A v \in Uris : ~Checking(v)
    BY <1>1 DEF Checking
  <1>5. CredentialsHaveShares' /\ CredentialsWork'
    BY <1>2, <1>3, <1>4 DEF ShareInv, CredentialsHaveShares, CredentialsWork
  <1>6. CheckedCredential' /\ StringsWereChecked'
    BY <1>1 DEF ShareInv, CheckedCredential, StringsWereChecked
  <1> QED  BY <1>2, <1>5, <1>6

(* A new process takes everything from a file whose strings were checked.  *)
LEMMA RestartKeeps ==
    ASSUME ShareInv, Restart
    PROVE  /\ TablesAgree'
           /\ CredentialsHaveShares'
           /\ CredentialsWork'
           /\ CheckedCredential'
           /\ StringsWereChecked'
  <1>1. disk \in SUBSET Strings /\ Load(disk) /\ disk' = disk /\ checking' = Nobody
    BY DEF Restart, ShareInv, TypeOK
  <1>2. /\ TablesAgree' /\ strings' = disk /\ pref' = disk
        /\ \A u \in Uris : cred'[u] = IF Stored(u)' THEN stringOf'[u].tuple.cred
                                                    ELSE NoCredential
    BY <1>1, LoadKeepsTables
  <1>3. StringsWereChecked' /\ CheckedCredential'
    BY <1>1, <1>2 DEF ShareInv, StringsWereChecked, CheckedCredential
  <1>4. CredentialsHaveShares'
    BY <1>2 DEF CredentialsHaveShares
  <1>5. \A u \in Uris : Stored(u)' => stringOf'[u] \in disk /\ stringOf'[u].uri = u
    BY <1>2 DEF TablesAgree
  <1>6. CredentialsWork'
    BY <1>2, <1>5 DEF ShareInv, CredentialsWork, StringsWereChecked
  <1> QED  BY <1>2, <1>3, <1>4, <1>6

(* The write of the file copies the preferences.                           *)
LEMMA FlushKeeps ==
    ASSUME ShareInv, Flush
    PROVE  /\ TablesAgree'
           /\ CredentialsHaveShares'
           /\ CredentialsWork'
           /\ CheckedCredential'
           /\ StringsWereChecked'
  <1>1. UNCHANGED <<tables, cred, pref, job, checking>> /\ disk' = pref
    BY DEF Flush
  <1>2. \A u \in Uris : Checking(u)' <=> Checking(u)
    BY <1>1 DEF Checking
  <1> QED
    BY <1>1, <1>2 DEF ShareInv, tables, TablesAgree, CredentialsHaveShares, CredentialsWork,
                      Stored, CheckedCredential, StringsWereChecked

LEMMA InvNext == ShareInv /\ [Next]_vars => ShareInv'
  <1> SUFFICES ASSUME ShareInv, [Next]_vars PROVE ShareInv'
    OBVIOUS
  <1>1. TypeOK /\ TypeOK'
    BY TypeNext DEF ShareInv
  <1>2. ASSUME NEW t \in Tasks, TryMount(t) \/ TryAuth(t) \/ AlreadyMounted(t) PROVE ShareInv'
    BY <1>1, <1>2, StepsOutside, OutsideKeeps DEF ShareInv
  <1>3. ASSUME NEW t \in Tasks, StartCheck(t) PROVE ShareInv'
    BY <1>1, <1>3, StartCheckKeeps DEF ShareInv
  <1>4. ASSUME NEW t \in Tasks, CheckFails(t) PROVE ShareInv'
    BY <1>1, <1>4, CheckFailsKeeps DEF ShareInv
  <1>5. ASSUME NEW t \in Tasks, CheckSucceeds(t) PROVE ShareInv'
    BY <1>1, <1>5, CheckSucceedsKeeps DEF ShareInv
  <1>6. ASSUME NEW u \in Uris, Unmount(u) PROVE ShareInv'
    BY <1>1, <1>6, UnmountKeeps DEF ShareInv
  <1>7. CASE (\E u \in Uris : AddRow(u)) \/ QueryRoots \/ ShowRoots \/ UNCHANGED vars
    BY <1>1, <1>7, UiOutside, OutsideKeeps DEF ShareInv
  <1>8. CASE Flush
    BY <1>1, <1>8, FlushKeeps DEF ShareInv
  <1>9. CASE Restart
    BY <1>1, <1>9, RestartKeeps DEF ShareInv
  <1> QED  BY <1>2, <1>3, <1>4, <1>5, <1>6, <1>7, <1>8, <1>9 DEF Next

LEMMA Invariance == Spec => []ShareInv
  BY InvInit, InvNext, PTL DEF Spec

(* What queryRoots has produced and what it has still to look at hold      *)
(* everything that has stayed mounted, and of the rest only what was       *)
(* mounted once.                                                           *)
QueryInv ==
    /\ querying => /\ kept \subseteq rows \cup listing
                   /\ kept \subseteq mounted
                   /\ mounted \cup rows \subseteq seen
    /\ ~querying => listing = {} /\ kept \subseteq roots /\ roots \subseteq seen

(* A change of the mounted shares leaves the query alone but for what was  *)
(* watched (CheckSucceeds and Unmount).                                    *)
LEMMA WatchKeeps ==
    ASSUME QueryInv, Watch, UNCHANGED <<querying, listing, rows, roots>>
    PROVE  QueryInv'
  BY DEF QueryInv, Watch

LEMMA QueryNext ==
    ASSUME ShareInv, QueryInv, [Next]_vars
    PROVE  QueryInv'
  <1>1. ASSUME NEW t \in Tasks, TryMount(t) \/ TryAuth(t) \/ AlreadyMounted(t)
                                \/ StartCheck(t) \/ CheckFails(t)
        PROVE  QueryInv'
    <2>1. UNCHANGED <<tables, uiVars>>
      BY <1>1 DEF TryMount, TryAuth, AlreadyMounted, StartCheck, CheckFails
    <2> QED  BY <2>1 DEF QueryInv, tables, uiVars, asked
  <1>2. ASSUME NEW t \in Tasks, CheckSucceeds(t) PROVE QueryInv'
    BY <1>2, WatchKeeps DEF CheckSucceeds
  <1>3. ASSUME NEW u \in Uris, Unmount(u) PROVE QueryInv'
    BY <1>3, WatchKeeps DEF Unmount
  <1>4. ASSUME NEW u \in Uris, AddRow(u) PROVE QueryInv'
    <2>1. querying /\ UNCHANGED <<mounted, querying, roots, kept, seen>>
      BY <1>4 DEF QueryInv, AddRow, tables, asked
    <2>2. listing' = listing \ {u}
          /\ rows' = IF u \in mounted THEN rows \cup {u} ELSE rows
      BY <1>4 DEF AddRow
    <2> QED  BY <2>1, <2>2 DEF QueryInv
  <1>5. CASE QueryRoots
    <2>1. mounted \subseteq {u \in Uris : Stored(u)}
      BY DEF ShareInv, TablesAgree
    <2> QED  BY <1>5, <2>1 DEF QueryInv, QueryRoots, tables
  <1>6. CASE ShowRoots
    BY <1>6 DEF QueryInv, ShowRoots, tables, asked
  <1>7. CASE Flush
    BY <1>7 DEF QueryInv, Flush, tables, uiVars, asked
  <1>8. CASE Restart
    BY <1>8 DEF QueryInv, Restart
  <1>9. CASE UNCHANGED vars
    BY <1>9 DEF QueryInv, vars, tables, uiVars, asked
  <1> QED  BY <1>1, <1>2, <1>3, <1>4, <1>5, <1>6, <1>7, <1>8, <1>9 DEF Next

(* The list of roots holds every share that stayed mounted while           *)
(* queryRoots went through the uris, and none that was not mounted then,   *)
(* however the steps of mounts, updates and ejects fell between its own    *)
(* (SambaDocumentsProvider.java:170).                                      *)
THEOREM RootsAreRight == Spec => []RootsWereMounted
  <1>1. Init => QueryInv
    BY DEF Init, QueryInv
  <1>2. ShareInv /\ QueryInv /\ [Next]_vars => QueryInv'
    BY QueryNext
  <1>3. QueryInv => RootsWereMounted
    BY DEF QueryInv, RootsWereMounted
  <1> QED  BY <1>1, <1>2, <1>3, Invariance, PTL DEF Spec

(* ejectRoot always finds the string it has to remove: the tables agree,   *)
(* whatever was stored, updated or loaded before (unmountServer throws     *)
(* IllegalStateException otherwise).                                       *)
THEOREM EjectFindsItsString == Spec => []TablesAgree
  <1>1. ShareInv => TablesAgree
    BY DEF ShareInv
  <1> QED  BY <1>1, Invariance, PTL

(* No credential outlives its share: every one in the native cache belongs *)
(* to a stored share or to the one that is being checked.                  *)
THEOREM NoOrphanedCredential == Spec => []CredentialsHaveShares
  <1>1. ShareInv => CredentialsHaveShares
    BY DEF ShareInv
  <1> QED  BY <1>1, Invariance, PTL

(* Credentials a server has rejected are in the cache only during their    *)
(* check, also after the process was killed and started again.             *)
THEOREM NoRejectedCredential == Spec => []CredentialsWork
  <1>1. ShareInv => CredentialsWork
    BY DEF ShareInv
  <1> QED  BY <1>1, Invariance, PTL
-------------------------------------------------------------------------------
(* The application as it is wired: no authorization activity.  Every call  *)
(* then asks for the share to be mounted, so a share is stored exactly if  *)
(* it is mounted, and only a share that is not stored is ever checked.     *)

OnlyMounts == \A t \in Tasks : job[t] # NoJob => job[t].op = "mount" /\ job[t].mount

(* The set and the preferences hold what the map holds, nothing older.     *)
NothingStale == /\ strings = {stringOf[u] : u \in {v \in Uris : Stored(v)}}
                /\ pref = strings

(* Nor does the file hold two strings of one share.                        *)
OneStringEach == \A r, s \in disk : r.uri = s.uri => r = s

AllMountedAndChecked ==
    \A s \in strings \cup disk : s.tuple.mount /\ s.tuple.cred \in Accepts[s.uri]

CheckingNewShare == checking # Nobody => ~Stored(job[checking].uri)

CacheIsExact ==
    \A u \in Uris : cred[u] = IF Stored(u) THEN stringOf[u].tuple.cred
                              ELSE IF Checking(u) THEN job[checking].cred
                              ELSE NoCredential

(* The inductive invariant of the application as wired.                    *)
AppInv == /\ ShareInv
          /\ OnlyMounts
          /\ NothingStale
          /\ OneStringEach
          /\ AllMountedAndChecked
          /\ CheckingNewShare
          /\ CacheIsExact
          /\ QueryInv

(* Stored and mounted are the same thing.                                  *)
LEMMA StoredIsMounted ==
    ASSUME AppInv
    PROVE  \A u \in Uris : Stored(u) <=> u \in mounted
  <1>1. \A u \in Uris : Stored(u) => stringOf[u].tuple.mount
    BY DEF AppInv, ShareInv, TablesAgree, AllMountedAndChecked
  <1> QED  BY <1>1 DEF AppInv, ShareInv, TablesAgree

LEMMA AppInit == Init => AppInv
  <1> SUFFICES ASSUME Init PROVE AppInv
    OBVIOUS
  <1>1. ShareInv
    BY InvInit
  <1>2. OnlyMounts
    BY DEF Init, OnlyMounts
  <1>3. NothingStale /\ OneStringEach /\ AllMountedAndChecked
    BY DEF Init, NothingStale, Stored, OneStringEach, AllMountedAndChecked
  <1>4. CheckingNewShare /\ CacheIsExact
    BY DEF Init, CheckingNewShare, CacheIsExact, Stored, Checking
  <1>5. QueryInv
    BY DEF Init, QueryInv
  <1> QED  BY <1>1, <1>2, <1>3, <1>4, <1>5 DEF AppInv

(* Only tryMount starts a task, and it asks for a mounted share.           *)
LEMMA OnlyMountsNext ==
    ASSUME ~AuthReachable, TypeOK, OnlyMounts, [Next]_vars
    PROVE  OnlyMounts'
  <1>1. ASSUME NEW t \in Tasks, TryMount(t) PROVE OnlyMounts'
    <2>1. PICK u \in Uris, c \in CredentialOrNone :
              job' = [job EXCEPT ![t] = [op |-> "mount", uri |-> u, cred |-> c, mount |-> TRUE]]
      BY <1>1 DEF TryMount
    <2> DEFINE j == [op |-> "mount", uri |-> u, cred |-> c, mount |-> TRUE]
    <2>2. j.op = "mount" /\ j.mount
      OBVIOUS
    <2>3. job' = [job EXCEPT ![t] = j]
      BY <2>1
    <2> HIDE DEF j
    <2> QED  BY <2>2, <2>3 DEF OnlyMounts, TypeOK
  <1>2. ASSUME NEW t \in Tasks, TryAuth(t) PROVE OnlyMounts'
    BY <1>2 DEF TryAuth
  <1>3. ASSUME NEW t \in Tasks, AlreadyMounted(t) \/ CheckFails(t) \/ CheckSucceeds(t)
        PROVE  OnlyMounts'
    <2>1. job' = [job EXCEPT ![t] = NoJob]
      BY <1>3 DEF AlreadyMounted, CheckFails, CheckSucceeds
    <2> QED  BY <2>1 DEF OnlyMounts, TypeOK
  <1>4. ASSUME NEW t \in Tasks, StartCheck(t) PROVE OnlyMounts'
    BY <1>4 DEF StartCheck, OnlyMounts
  <1>5. CASE (\E u \in Uris : Unmount(u) \/ AddRow(u)) \/ QueryRoots \/ ShowRoots \/ Flush
    BY <1>5 DEF Unmount, AddRow, QueryRoots, ShowRoots, Flush, OnlyMounts
  <1>6. CASE Restart
    BY <1>6 DEF Restart, OnlyMounts
  <1>7. CASE UNCHANGED vars
    BY <1>7 DEF vars, OnlyMounts
  <1> QED  BY <1>1, <1>2, <1>3, <1>4, <1>5, <1>6, <1>7 DEF Next

(* The part of the invariant that is about tables, monitor and file.       *)
Parts == /\ NothingStale
         /\ OneStringEach
         /\ AllMountedAndChecked
         /\ CheckingNewShare
         /\ CacheIsExact

LEMMA OutsideKeepsParts ==
    ASSUME AppInv, Outside
    PROVE  Parts'
  <1>1. NothingStale' /\ OneStringEach' /\ AllMountedAndChecked'
    BY DEF AppInv, Outside, tables, NothingStale, Stored, OneStringEach, AllMountedAndChecked
  <1>2. CheckingNewShare'
    BY DEF AppInv, Outside, tables, CheckingNewShare, Stored
  <1>3. \A u \in Uris : Checking(u)' <=> Checking(u)
    BY DEF Outside, Checking
  <1>4. CacheIsExact'
    BY <1>3 DEF AppInv, Outside, tables, CacheIsExact, Stored, Checking
  <1> QED  BY <1>1, <1>2, <1>4 DEF Parts

(* A mount task enters the monitor only for a share that is not stored.    *)
LEMMA StartCheckKeepsParts ==
    ASSUME AppInv, NEW t \in Tasks, StartCheck(t)
    PROVE  Parts'
  <1>1. /\ job[t] # NoJob /\ job[t] \in Jobs /\ job' = job
        /\ checking = Nobody /\ checking' = t /\ t # Nobody
        /\ UNCHANGED <<tables, pref, disk>>
    BY ShareAssumption DEF StartCheck, AppInv, ShareInv, TypeOK
  <1>2. job[t].uri \in Uris /\ job[t].op = "mount"
    BY <1>1 DEF Jobs, AppInv, OnlyMounts
  <1>3. ~Stored(job[t].uri)
    BY <1>2, StoredIsMounted DEF StartCheck
  <1>4. NothingStale' /\ OneStringEach' /\ AllMountedAndChecked'
    BY <1>1 DEF AppInv, tables, NothingStale, Stored, OneStringEach, AllMountedAndChecked
  <1>5. CheckingNewShare'
    BY <1>1, <1>3 DEF CheckingNewShare, tables, Stored
  <1>6. \A u \in Uris : ~Checking(u) /\ (Checking(u)' <=> u = job[t].uri)
    BY <1>1 DEF Checking
  <1>7. /\ \A u \in Uris \ {job[t].uri} : cred'[u] = cred[u]
        /\ cred[job[t].uri] = NoCredential
        /\ cred'[job[t].uri] = job[t].cred
    <2>1. cred[job[t].uri] = NoCredential
      BY <1>2, <1>3, <1>6 DEF AppInv, CacheIsExact
    <2> QED  BY <1>2, <2>1 DEF StartCheck, AppInv, ShareInv, TypeOK
  <1>8. CacheIsExact'
    BY <1>1, <1>2, <1>3, <1>6, <1>7 DEF AppInv, CacheIsExact, tables, Stored
  <1> QED  BY <1>4, <1>5, <1>8 DEF Parts

LEMMA CheckFailsKeepsParts ==
    ASSUME AppInv, NEW t \in Tasks, CheckFails(t)
    PROVE  Parts'
  <1>1. /\ job[t] \in Jobs /\ checking = t /\ checking' = Nobody /\ t # Nobody
        /\ UNCHANGED <<tables, pref, disk>>
    BY ShareAssumption DEF CheckFails, AppInv, ShareInv, TypeOK
  <1>2. job[t].uri \in Uris /\ ~Stored(job[t].uri)
    BY <1>1 DEF Jobs, AppInv, CheckingNewShare
  <1>3. NothingStale' /\ OneStringEach' /\ AllMountedAndChecked' /\ CheckingNewShare'
    BY <1>1 DEF AppInv, tables, NothingStale, Stored, OneStringEach, AllMountedAndChecked,
                CheckingNewShare
  <1>4. cred'[job[t].uri] = NoCredential
        /\ \A u \in Uris \ {job[t].uri} : cred'[u] = cred[u]
    BY <1>2 DEF CheckFails, Forget, AppInv, ShareInv, TypeOK
  <1>5. \A u \in Uris : ~Checking(u)' /\ (Checking(u) <=> u = job[t].uri)
    BY <1>1 DEF Checking
  <1>6. CacheIsExact'
    BY <1>1, <1>2, <1>4, <1>5 DEF AppInv, CacheIsExact, tables, Stored
  <1> QED  BY <1>3, <1>6 DEF Parts

(* The share that is saved had no string before: nothing stale remains.    *)
LEMMA CheckSucceedsKeepsParts ==
    ASSUME AppInv, NEW t \in Tasks, CheckSucceeds(t)
    PROVE  Parts'
  <1>1. /\ job[t] \in Jobs /\ checking = t /\ checking' = Nobody /\ t # Nobody
        /\ UNCHANGED <<cred, disk>>
        /\ cred[job[t].uri] \in Accepts[job[t].uri]
        /\ job[t] # NoJob
    BY ShareAssumption DEF CheckSucceeds, AppInv, ShareInv, TypeOK
  <1>2. job[t].uri \in Uris /\ ~Stored(job[t].uri) /\ job[t].mount
    BY <1>1 DEF Jobs, AppInv, CheckingNewShare, OnlyMounts
  <1>3. \A u \in Uris : Checking(u) <=> u = job[t].uri
    BY <1>1 DEF Checking
  <1>4. cred[job[t].uri] = job[t].cred
    BY <1>1, <1>2, <1>3 DEF AppInv, CacheIsExact
  <1> DEFINE s == Encode(job[t].uri, TupleOf(job[t]))
  <1>5. /\ s \in Strings /\ s # NoString /\ s.uri = job[t].uri
        /\ s.tuple.cred = job[t].cred /\ s.tuple.mount
    BY <1>1, <1>2, SavedString
  <1>6. Save(s)
    BY DEF CheckSucceeds
  <1> HIDE DEF s
  <1>7. /\ strings' = strings \cup {s} /\ pref' = strings'
        /\ stringOf'[s.uri] = s /\ \A u \in Uris \ {s.uri} : stringOf'[u] = stringOf[u]
    BY <1>2, <1>5, <1>6 DEF Save, AppInv, ShareInv, TypeOK
  <1>8. \A u \in Uris : Stored(u)' <=> Stored(u) \/ u = s.uri
    BY <1>2, <1>5, <1>7 DEF Stored
  <1>9. strings' = {stringOf'[u] : u \in {v \in Uris : Stored(v)'}}
    <2>1. strings = {stringOf[u] : u \in {v \in Uris : Stored(v)}}
      BY DEF AppInv, NothingStale
    <2>2. ASSUME NEW r \in strings PROVE \E u \in Uris : Stored(u)' /\ r = stringOf'[u]
      <3>1. PICK u \in Uris : Stored(u) /\ r = stringOf[u]
        BY <2>1
      <3> QED  BY <3>1, <1>2, <1>5, <1>7, <1>8
    <2>3. ASSUME NEW u \in Uris, Stored(u)' PROVE stringOf'[u] \in strings'
      <3>1. CASE u = s.uri
        BY <3>1, <1>7
      <3>2. CASE u # s.uri
        BY <2>1, <2>3, <3>2, <1>7, <1>8
      <3> QED  BY <3>1, <3>2
    <2> QED  BY <1>2, <1>5, <1>7, <1>8, <2>2, <2>3
  <1>10. NothingStale' /\ OneStringEach'
    BY <1>1, <1>7, <1>9 DEF NothingStale, OneStringEach, AppInv
  <1>11. AllMountedAndChecked'
    BY <1>1, <1>4, <1>5, <1>7 DEF AppInv, AllMountedAndChecked
  <1>12. CheckingNewShare'
    BY <1>1 DEF CheckingNewShare
  <1>13. \A u \in Uris : ~Checking(u)'
    BY <1>1 DEF Checking
  <1>14. CacheIsExact'
    BY <1>1, <1>2, <1>3, <1>4, <1>5, <1>7, <1>8, <1>13 DEF AppInv, CacheIsExact
  <1> QED  BY <1>10, <1>11, <1>12, <1>14 DEF Parts

(* An eject removes the only string of its share.                          *)
LEMMA UnmountKeepsParts ==
    ASSUME AppInv, NEW u \in Uris, Unmount(u)
    PROVE  Parts'
  <1>1. /\ checking = Nobody /\ checking' = Nobody /\ Stored(u)
        /\ UNCHANGED disk
        /\ strings' = strings \ {stringOf[u]} /\ pref' = strings'
        /\ stringOf'[u] = NoString /\ \A v \in Uris \ {u} : stringOf'[v] = stringOf[v]
    BY DEF Unmount, AppInv, ShareInv, TypeOK
  <1>2. \A v \in Uris : Stored(v)' <=> Stored(v) /\ v # u
    BY <1>1 DEF Stored
  <1>3. \A v \in Uris : Stored(v) => stringOf[v].uri = v
    BY DEF AppInv, ShareInv, TablesAgree
  <1>4. strings = {stringOf[v] : v \in {w \in Uris : Stored(w)}}
    BY DEF AppInv, NothingStale
  <1>5. ASSUME NEW v \in Uris, Stored(v)' PROVE stringOf'[v] \in strings'
    BY <1>1, <1>2, <1>3, <1>4, <1>5
  <1>6. ASSUME NEW r \in strings' PROVE \E v \in Uris : Stored(v)' /\ r = stringOf'[v]
    <2>1. PICK v \in Uris : Stored(v) /\ r = stringOf[v]
      BY <1>1, <1>4, <1>6
    <2>2. v # u
      BY <1>1, <1>6, <2>1
    <2> QED  BY <1>1, <1>2, <2>1, <2>2
  <1>7. strings' = {stringOf'[v] : v \in {w \in Uris : Stored(w)'}}
    BY <1>5, <1>6
  <1>8. NothingStale' /\ OneStringEach' /\ AllMountedAndChecked' /\ CheckingNewShare'
    BY <1>1, <1>7 DEF AppInv, NothingStale, OneStringEach, AllMountedAndChecked,
                      CheckingNewShare
  <1>9. cred'[u] = NoCredential /\ \A v \in Uris \ {u} : cred'[v] = cred[v]
    BY DEF Unmount, Forget, AppInv, ShareInv, TypeOK
  <1>10. \A v \in Uris : ~Checking(v) /\ ~Checking(v)'
    BY <1>1 DEF Checking
  <1>11. CacheIsExact'
    BY <1>1, <1>2, <1>9, <1>10 DEF AppInv, CacheIsExact
  <1> QED  BY <1>8, <1>11 DEF Parts

(* The new process finds one string for each share in the file.            *)
LEMMA RestartKeepsParts ==
    ASSUME AppInv, Restart
    PROVE  Parts'
  <1>1. disk \in SUBSET Strings /\ Load(disk) /\ disk' = disk /\ checking' = Nobody
    BY DEF Restart, AppInv, ShareInv, TypeOK
  <1>2. /\ TablesAgree' /\ strings' = disk /\ pref' = disk
        /\ \A u \in Uris : cred'[u] = IF Stored(u)' THEN stringOf'[u].tuple.cred
                                                    ELSE NoCredential
    BY <1>1, LoadKeepsTables
  <1>3. \A u \in Uris : Stored(u)' => stringOf'[u] \in disk /\ stringOf'[u].uri = u
    BY <1>2 DEF TablesAgree
  <1>4. ASSUME NEW r \in disk PROVE \E u \in Uris : Stored(u)' /\ r = stringOf'[u]
    <2>1. PICK choice \in [{s.uri : s \in disk} -> disk] :
              /\ \A u \in DOMAIN choice : choice[u].uri = u
              /\ stringOf' = [u \in Uris |-> IF u \in DOMAIN choice THEN choice[u]
                                                                    ELSE NoString]
      BY <1>1 DEF Load
    <2>2. r.uri \in Uris /\ r \in Strings /\ r.uri \in DOMAIN choice
      BY <1>1, StringsAreStored
    <2>3. choice[r.uri] = r
      BY <2>1, <2>2 DEF AppInv, OneStringEach
    <2>4. stringOf'[r.uri] = r
      BY <2>1, <2>2, <2>3
    <2> QED  BY <2>2, <2>4, StringsAreStored DEF Stored
  <1>5. disk = {stringOf'[u] : u \in {v \in Uris : Stored(v)'}}
    BY <1>3, <1>4
  <1>6. NothingStale'
    BY <1>2, <1>5 DEF NothingStale
  <1>7. OneStringEach' /\ AllMountedAndChecked' /\ CheckingNewShare'
    BY <1>1, <1>2 DEF AppInv, OneStringEach, AllMountedAndChecked, CheckingNewShare
  <1>8. CacheIsExact'
    BY <1>1, <1>2 DEF CacheIsExact, Checking
  <1> QED  BY <1>6, <1>7, <1>8 DEF Parts

LEMMA FlushKeepsParts ==
    ASSUME AppInv, Flush
    PROVE  Parts'
  <1>1. UNCHANGED <<tables, cred, pref, job, checking>> /\ disk' = pref
    BY DEF Flush
  <1>2. pref = strings /\ strings = {stringOf[u] : u \in {v \in Uris : Stored(v)}}
    BY DEF AppInv, NothingStale
  <1>3. \A u \in Uris : Stored(u) => stringOf[u].uri = u
    BY DEF AppInv, ShareInv, TablesAgree
  <1>4. OneStringEach'
    BY <1>1, <1>2, <1>3 DEF OneStringEach
  <1>5. NothingStale' /\ AllMountedAndChecked' /\ CheckingNewShare'
    BY <1>1, <1>2 DEF AppInv, tables, NothingStale, Stored, AllMountedAndChecked,
                      CheckingNewShare
  <1>6. CacheIsExact'
    BY <1>1 DEF AppInv, tables, CacheIsExact, Stored, Checking
  <1> QED  BY <1>4, <1>5, <1>6 DEF Parts

LEMMA AppNext == ~AuthReachable /\ AppInv /\ [Next]_vars => AppInv'
  <1> SUFFICES ASSUME ~AuthReachable, AppInv, [Next]_vars PROVE AppInv'
    OBVIOUS
  <1>1. ShareInv' /\ TypeOK
    BY InvNext DEF AppInv, ShareInv
  <1>2. OnlyMounts'
    BY <1>1, OnlyMountsNext DEF AppInv
  <1>3. QueryInv'
    BY QueryNext DEF AppInv
  <1>4. Parts'
    <2>1. ASSUME NEW t \in Tasks, TryMount(t) \/ TryAuth(t) \/ AlreadyMounted(t)
          PROVE  Parts'
      BY <1>1, <2>1, StepsOutside, OutsideKeepsParts
    <2>2. ASSUME NEW t \in Tasks, StartCheck(t) \/ CheckFails(t) \/ CheckSucceeds(t)
          PROVE  Parts'
      BY <2>2, StartCheckKeepsParts, CheckFailsKeepsParts, CheckSucceedsKeepsParts
    <2>3. ASSUME NEW u \in Uris, Unmount(u) PROVE Parts'
      BY <2>3, UnmountKeepsParts
    <2>4. CASE (\E u \in Uris : AddRow(u)) \/ QueryRoots \/ ShowRoots \/ UNCHANGED vars
      BY <2>4, UiOutside, OutsideKeepsParts
    <2>5. CASE Flush \/ Restart
      BY <2>5, FlushKeepsParts, RestartKeepsParts
    <2> QED  BY <2>1, <2>2, <2>3, <2>4, <2>5 DEF Next
  <1> QED  BY <1>1, <1>2, <1>3, <1>4 DEF AppInv, Parts

LEMMA AppInvariance == ~AuthReachable /\ Spec => []AppInv
  <1>1. CASE AuthReachable
    BY <1>1, PTL
  <1>2. CASE ~AuthReachable
    <2>1. AppInv /\ [Next]_vars => AppInv'
      BY <1>2, AppNext
    <2> QED  BY <2>1, AppInit, PTL DEF Spec
  <1> QED  BY <1>1, <1>2

(* As the application is wired, the file the next process loads holds only *)
(* shares whose server let their credentials in, whenever the process is   *)
(* killed (ShareManager.java:150).                                         *)
THEOREM FileIsChecked == ~AuthReachable /\ Spec => []FileWasChecked
  <1>1. AppInv => FileWasChecked
    BY DEF AppInv, AllMountedAndChecked, FileWasChecked
  <1> QED  BY <1>1, AppInvariance, PTL

(* As the application is wired, a process that loads the preferences has   *)
(* the tables and the credentials of this one.                             *)
THEOREM RestartRestores == ~AuthReachable /\ Spec => []RestartChangesNothing
  <1>1. AppInv => RestartChangesNothing
    <2> SUFFICES ASSUME AppInv, checking = Nobody
                 PROVE  /\ pref = {stringOf[u] : u \in {v \in Uris : Stored(v)}}
                        /\ \A u \in Uris : cred[u] = IF Stored(u) THEN stringOf[u].tuple.cred
                                                                  ELSE NoCredential
      BY DEF RestartChangesNothing
    <2> QED  BY DEF AppInv, NothingStale, CacheIsExact, Checking
  <1> QED  BY <1>1, AppInvariance, PTL
-------------------------------------------------------------------------------
(* What strings say of shares, whether they are in the set or in the file. *)
SharesIn(set) == {[uri |-> s.uri, cred |-> s.tuple.cred] : s \in set}

(* The set of strings says what the tables and the cache say.              *)
StringsSayShares == MountedShares = SharesIn(strings)

LEMMA StringsAreShares == AppInv => StringsSayShares
  <1> SUFFICES ASSUME AppInv PROVE MountedShares = SharesIn(strings)
    BY DEF StringsSayShares
  <1>1. strings = {stringOf[u] : u \in {v \in Uris : Stored(v)}}
    BY DEF AppInv, NothingStale
  <1>2. \A u \in Uris : Stored(u) => stringOf[u].uri = u /\ cred[u] = stringOf[u].tuple.cred
    BY DEF AppInv, ShareInv, TablesAgree, CacheIsExact
  <1>3. mounted = {u \in Uris : Stored(u)}
    BY StoredIsMounted DEF AppInv, ShareInv, TypeOK
  <1>4. ASSUME NEW u \in mounted PROVE [uri |-> u, cred |-> cred[u]] \in SharesIn(strings)
    BY <1>1, <1>2, <1>3 DEF SharesIn
  <1>5. ASSUME NEW s \in strings
        PROVE  [uri |-> s.uri, cred |-> s.tuple.cred] \in MountedShares
    <2>1. PICK u \in Uris : Stored(u) /\ s = stringOf[u]
      BY <1>1
    <2>2. u \in mounted /\ s.uri = u /\ s.tuple.cred = cred[u]
      BY <1>2, <1>3, <2>1
    <2> QED  BY <2>2 DEF MountedShares
  <1> QED  BY <1>4, <1>5 DEF MountedShares, SharesIn

LEMMA StringsAreSharesNext == AppInv' => StringsSayShares'
  BY StringsAreShares, PTL

(* The abstract store names its shares by their uris.                      *)
LEMMA UrisAreMounted == Store!UrisOf(MountedShares) = mounted
  <1>1. ASSUME NEW u \in mounted PROVE u \in Store!UrisOf(MountedShares)
    <2>1. [uri |-> u, cred |-> cred[u]] \in MountedShares
      BY DEF MountedShares
    <2>2. [uri |-> u, cred |-> cred[u]].uri = u
      OBVIOUS
    <2> QED  BY <2>1, <2>2, Zenon DEF Store!UrisOf
  <1>2. ASSUME NEW share \in MountedShares PROVE share.uri \in mounted
    BY DEF MountedShares
  <1> QED  BY <1>1, <1>2 DEF Store!UrisOf

(* A state in which neither the mounted shares and their credentials nor   *)
(* what is saved, asked for or shown has changed is the same to the        *)
(* abstract store.                                                         *)
LEMMA StoreStutters ==
    ASSUME mounted' = mounted,
           \A u \in mounted : cred'[u] = cred[u],
           UNCHANGED <<disk, roots, querying, kept, seen>>
    PROVE  UNCHANGED Store!storeVars
  <1>1. MountedShares' = MountedShares
    BY DEF MountedShares
  <1> QED  BY <1>1 DEF Store!storeVars, SavedShares

(* A check that succeeds mounts the share, with accepted credentials.      *)
LEMMA CheckSucceedsMounts ==
    ASSUME AppInv, NEW t \in Tasks, CheckSucceeds(t)
    PROVE  \E u \in Uris : Store!Mount(u)
  <1>1. /\ job[t] \in Jobs /\ checking = t /\ t # Nobody /\ job[t] # NoJob
        /\ UNCHANGED <<cred, disk, querying, roots>>
        /\ cred[job[t].uri] \in Accepts[job[t].uri]
        /\ Watch
    BY ShareAssumption DEF CheckSucceeds, AppInv, ShareInv, TypeOK
  <1> DEFINE u == job[t].uri
  <1>2. u \in Uris /\ ~Stored(u) /\ job[t].mount
    BY <1>1 DEF Jobs, AppInv, CheckingNewShare, OnlyMounts
  <1>3. u \notin mounted
    BY <1>2, StoredIsMounted
  <1>4. mounted' = mounted \cup {u}
    <2>1. /\ Encode(u, TupleOf(job[t])).uri = u
          /\ Encode(u, TupleOf(job[t])).tuple.mount
      BY <1>1, <1>2, SavedString
    <2> QED  BY <2>1 DEF CheckSucceeds, Save
  <1>5. /\ seen' = IF querying THEN seen \cup {u} ELSE seen
        /\ kept' = kept
    BY <1>1, <1>4 DEF Watch, AppInv, QueryInv
  <1> HIDE DEF u
  <1>6. MountedShares' = MountedShares \cup {[uri |-> u, cred |-> cred[u]]}
    BY <1>1, <1>4 DEF MountedShares
  <1>7. cred[u] \in Accepts[u]
    BY <1>1 DEF u
  <1>8. SavedShares' = SavedShares
    BY <1>1 DEF SavedShares
  <1>9. Store!Mount(u)
    BY <1>1, <1>3, <1>5, <1>6, <1>7, <1>8, UrisAreMounted DEF Store!Mount
  <1> QED  BY <1>2, <1>9

(* An eject takes the share away, with its credentials.                    *)
LEMMA UnmountEjects ==
    ASSUME AppInv, NEW u \in Uris, Unmount(u)
    PROVE  Store!Eject(u)
  <1>1. /\ Stored(u) /\ mounted' = mounted \ {u} /\ Watch
        /\ UNCHANGED <<disk, querying, roots>>
    BY DEF Unmount
  <1>2. \A v \in mounted \ {u} : cred'[v] = cred[v]
    BY DEF Unmount, Forget, AppInv, ShareInv, TypeOK
  <1>3. u \in mounted
    BY <1>1, StoredIsMounted
  <1>4. MountedShares' = {share \in MountedShares : share.uri # u}
    BY <1>1, <1>2 DEF MountedShares
  <1>5. SavedShares' = SavedShares
    BY <1>1 DEF SavedShares
  <1>6. /\ kept' = IF querying THEN kept \ {u} ELSE kept
        /\ seen' = seen
    BY <1>1 DEF Watch, AppInv, QueryInv
  <1> QED  BY <1>1, <1>3, <1>4, <1>5, <1>6, UrisAreMounted DEF Store!Eject

(* The write of the file saves the shares as they are.                     *)
LEMMA FlushSaves ==
    ASSUME AppInv, Flush
    PROVE  Store!SaveShares
  <1>1. disk' = strings /\ UNCHANGED <<mounted, cred, roots, querying, kept, seen>>
    BY DEF Flush, AppInv, NothingStale, tables, uiVars, asked
  <1>2. SavedShares' = MountedShares
    BY <1>1, StringsAreShares DEF StringsSayShares, SavedShares, SharesIn
  <1>3. MountedShares' = MountedShares
    BY <1>1 DEF MountedShares
  <1> QED  BY <1>1, <1>2, <1>3 DEF Store!SaveShares

(* The UI asks for the shares that are mounted now.                        *)
LEMMA QueryRootsAsks ==
    ASSUME QueryRoots
    PROVE  Store!Ask
  <1>1. /\ ~querying /\ querying' = TRUE /\ kept' = mounted /\ seen' = mounted
        /\ UNCHANGED <<mounted, cred, disk, roots>>
    BY DEF QueryRoots, tables
  <1>2. MountedShares' = MountedShares /\ SavedShares' = SavedShares
    BY <1>1 DEF MountedShares, SavedShares
  <1> QED  BY <1>1, <1>2, UrisAreMounted DEF Store!Ask

(* The rows hold what stayed mounted, and nothing that never was.          *)
LEMMA ShowRootsShows ==
    ASSUME AppInv, ShowRoots
    PROVE  Store!Show
  <1>1. /\ querying /\ listing = {} /\ querying' = FALSE /\ roots' = rows
        /\ UNCHANGED <<mounted, cred, disk, kept, seen>>
    BY DEF ShowRoots, tables, asked
  <1>2. kept \subseteq rows /\ rows \subseteq seen
    BY <1>1 DEF AppInv, QueryInv
  <1>3. rows \ kept \in SUBSET (seen \ kept) /\ roots' = kept \cup (rows \ kept)
    BY <1>1, <1>2
  <1>4. MountedShares' = MountedShares /\ SavedShares' = SavedShares
    BY <1>1 DEF MountedShares, SavedShares
  <1> QED  BY <1>1, <1>3, <1>4 DEF Store!Show

(* A new process has the shares of the file, and their credentials.        *)
LEMMA RestartStartsAgain ==
    ASSUME AppInv, AppInv', Restart
    PROVE  Store!StartAgain
  <1>1. /\ disk' = disk /\ roots' = {} /\ strings' = disk
        /\ querying' = FALSE /\ kept' = {} /\ seen' = {}
    BY DEF Restart, Load
  <1>2. MountedShares' = SharesIn(strings)'
    BY StringsAreSharesNext DEF StringsSayShares
  <1>3. SharesIn(strings)' = SavedShares
    BY <1>1 DEF SharesIn, SavedShares
  <1>4. SavedShares' = SavedShares
    BY <1>1 DEF SavedShares
  <1> QED  BY <1>1, <1>2, <1>3, <1>4 DEF Store!StartAgain

(* The application as wired implements the abstract store: the shares with *)
(* the credentials that file operations use, what a new process would      *)
(* start with, and what the UI asks for and shows behave as if mounting,   *)
(* ejecting, saving and answering were single steps (ShareManager.java:35).*)
THEOREM ManagerImplementsStore == ~AuthReachable /\ Spec => ImplementsStore
  <1>1. Init => Store!StoreInit
    BY DEF Init, Store!StoreInit, MountedShares, SavedShares
  <1>2. ~AuthReachable /\ AppInv /\ [Next]_vars
            => Store!StoreNext \/ UNCHANGED Store!storeVars
    <2> SUFFICES ASSUME ~AuthReachable, AppInv, [Next]_vars
                 PROVE  Store!StoreNext \/ UNCHANGED Store!storeVars
      OBVIOUS
    <2>1. AppInv'
      BY AppNext
    <2>2. ASSUME NEW t \in Tasks, TryMount(t) \/ TryAuth(t) \/ AlreadyMounted(t)
          PROVE  UNCHANGED Store!storeVars
      <3>1. UNCHANGED <<mounted, cred, disk, roots, querying, kept, seen>>
        BY <2>2 DEF TryMount, TryAuth, AlreadyMounted, tables, uiVars, asked
      <3> QED  BY <3>1, StoreStutters
    <2>3. ASSUME NEW t \in Tasks, StartCheck(t) \/ CheckFails(t)
          PROVE  UNCHANGED Store!storeVars
      <3>1. UNCHANGED <<mounted, disk, roots, querying, kept, seen>>
        BY <2>3 DEF StartCheck, CheckFails, tables, uiVars, asked
      <3>2. job[t] \in Jobs /\ job[t].uri \notin mounted
        <4>1. job[t] \in Jobs /\ job[t] # NoJob
          BY <2>3, ShareAssumption DEF StartCheck, CheckFails, AppInv, ShareInv, TypeOK
        <4>2. job[t].op = "mount" /\ job[t].uri \in Uris
          BY <4>1 DEF AppInv, OnlyMounts, Jobs
        <4>3. CASE StartCheck(t)
          BY <4>1, <4>2, <4>3 DEF StartCheck
        <4>4. CASE CheckFails(t)
          <5>1. checking = t /\ t # Nobody
            BY <4>4, ShareAssumption DEF CheckFails
          <5>2. ~Stored(job[t].uri)
            BY <5>1 DEF AppInv, CheckingNewShare
          <5> QED  BY <4>1, <4>2, <5>2, StoredIsMounted
        <4> QED  BY <2>3, <4>3, <4>4
      <3>3. \A u \in mounted : cred'[u] = cred[u]
        BY <2>3, <3>2 DEF StartCheck, CheckFails, Forget, AppInv, ShareInv, TypeOK
      <3> QED  BY <3>1, <3>3, StoreStutters
    <2>4. ASSUME NEW t \in Tasks, CheckSucceeds(t) PROVE Store!StoreNext
      BY <2>4, CheckSucceedsMounts DEF Store!StoreNext
    <2>5. ASSUME NEW u \in Uris, Unmount(u) PROVE Store!StoreNext
      BY <2>5, UnmountEjects DEF Store!StoreNext
    <2>6. ASSUME (\E u \in Uris : AddRow(u)) \/ UNCHANGED vars
          PROVE  UNCHANGED Store!storeVars
      <3>1. UNCHANGED <<mounted, cred, disk, roots, querying, kept, seen>>
        BY <2>6 DEF AddRow, vars, tables, uiVars, asked
      <3> QED  BY <3>1, StoreStutters
    <2>7. CASE QueryRoots \/ ShowRoots
      BY <2>7, QueryRootsAsks, ShowRootsShows DEF Store!StoreNext
    <2>8. CASE Flush
      BY <2>8, FlushSaves DEF Store!StoreNext
    <2>9. CASE Restart
      BY <2>1, <2>9, RestartStartsAgain DEF Store!StoreNext
    <2> QED  BY <2>2, <2>3, <2>4, <2>5, <2>6, <2>7, <2>8, <2>9 DEF Next
  <1>3. CASE AuthReachable
    BY <1>3, PTL
  <1>4. CASE ~AuthReachable
    <2>1. AppInv /\ [Next]_vars => [Store!StoreNext]_(Store!storeVars)
      BY <1>2, <1>4
    <2> QED  BY <1>1, <1>4, <2>1, AppInvariance, PTL DEF Spec, ImplementsStore, Store!StoreSpec
  <1> QED  BY <1>3, <1>4
===============================================================================
