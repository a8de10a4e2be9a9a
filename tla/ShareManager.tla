------------------------------ MODULE ShareManager ------------------------------
(***************************************************************************)
(* The shares the user mounted (ShareManager.java): three in-memory tables *)
(* that must agree with each other, with the credential cache of the       *)
(* native client and with the preferences a later process will load.       *)
(*                                                                         *)
(* MountServerTask, AuthorizationTask and ejectRoot call it from different *)
(* threads.  Its methods are synchronized, but addServer talks to the      *)
(* server while it is inside the monitor: credentials in the cache are not *)
(* protected by the monitor, and the process may be killed meanwhile.      *)
(***************************************************************************)
EXTENDS Naturals, FiniteSets

CONSTANTS Uris,           \* the shares a user may mount
          Credentials,    \* workgroup, user and password, the last two not empty
          Accepts,        \* Accepts[u]: the credentials the server of u lets in
          Tasks,          \* threads that run mount, authorization and eject
          AuthReachable   \* does anything start AuthActivity?

VARIABLES strings,   \* mServerStringSet, the encoded shares
          stringOf,  \* mServerStringMap: stringOf[u], or NoString
          mounted,   \* mMountedServerSet
          cred,      \* the credential cache: cred[u], or NoCredential
          pref,      \* the preferences as this process sees them
          disk,      \* the preferences file
          job,       \* job[t]: what task t was started for, or NoJob
          checking,  \* the task inside the monitor, in checkShareMounting, or Nobody
          querying,  \* is the UI inside queryRoots?
          listing,   \* the uris queryRoots has still to look at
          rows,      \* the rows it has produced
          roots,     \* what the documents UI shows
          kept,      \* the uris mounted at every moment of the last query
          seen       \* the uris mounted at some moment of it

tables == <<strings, stringOf, mounted>>
asked  == <<kept, seen>>
uiVars == <<querying, listing, rows, roots, asked>>
vars   == <<strings, stringOf, mounted, cred, pref, disk, job, checking, uiVars>>

NoCredential == "no credential"
NoUri        == "no uri"
Nobody       == "nobody"

ASSUME ShareAssumption ==
    /\ NoCredential \notin Credentials
    /\ Accepts \in [Uris -> SUBSET (Credentials \cup {NoCredential})]
    /\ NoUri \notin Uris
    /\ Nobody \notin Tasks
    /\ AuthReachable \in BOOLEAN

CredentialOrNone == Credentials \cup {NoCredential}

(* ShareTuple: EMPTY_TUPLE stands for a share without a password, and is   *)
(* always mounted.                                                         *)
EmptyTuple == [cred |-> NoCredential, mount |-> TRUE]
Tuples     == [cred : Credentials, mount : BOOLEAN] \cup {EmptyTuple}

(* The JSON text of a share holds its uri and its tuple ("null" for        *)
(* EMPTY_TUPLE); decode gives the same two back.                           *)
Strings == [uri : Uris, tuple : Tuples]
Encode(u, tuple) == [uri |-> u, tuple |-> tuple]
NoString == Encode(NoUri, EmptyTuple)

(* A call: addServer (always with mount = true), or addOrUpdateServer.     *)
Jobs  == [op : {"mount", "auth"}, uri : Uris, cred : CredentialOrNone, mount : BOOLEAN]
NoJob == [op |-> "none", uri |-> NoUri, cred |-> NoCredential, mount |-> FALSE]

Stored(u) == stringOf[u] # NoString

(* History: what was mounted during the query that is under way.           *)
Watch == /\ kept' = IF querying THEN kept \cap mounted' ELSE kept
         /\ seen' = IF querying THEN seen \cup mounted' ELSE seen

-------------------------------------------------------------------------------
(* Mutation of Loaded: the flag of the stored tuple is not looked at. *)
LoadedAll(choice) == DOMAIN choice

(* The uris a process that has read these strings takes for mounted.       *)
Loaded(choice) == {u \in DOMAIN choice : choice[u].tuple.mount}

(* The constructor: decode every string of the file.  Of two strings for   *)
(* one uri the later one in the order of the HashSet wins.                 *)
Load(saved) ==
    \E choice \in [{s.uri : s \in saved} -> saved] :
        /\ \A u \in DOMAIN choice : choice[u].uri = u
        /\ strings'  = saved
        /\ stringOf' = [u \in Uris |-> IF u \in DOMAIN choice THEN choice[u] ELSE NoString]
        /\ mounted'  = Loaded(choice)
        /\ cred' = [u \in Uris |-> IF u \in DOMAIN choice THEN choice[u].tuple.cred
                                                          ELSE NoCredential]
        /\ pref' = saved

Init ==
    /\ strings  = {}
    /\ stringOf = [u \in Uris |-> NoString]
    /\ mounted  = {}
    /\ cred     = [u \in Uris |-> NoCredential]
    /\ pref     = {}
    /\ disk     = {}
    /\ job      = [t \in Tasks |-> NoJob]
    /\ checking = Nobody
    /\ querying = FALSE
    /\ listing  = {}
    /\ rows     = {}
    /\ roots    = {}
    /\ kept     = {}
    /\ seen     = {}

(* tryMount: a mounted share is not mounted again, and the TaskManager     *)
(* ignores a second task for the same uri.                                 *)
TryMount(t) ==
    /\ job[t] = NoJob
    /\ checking = Nobody
    /\ \E u \in Uris \ mounted, c \in CredentialOrNone :
          /\ \A o \in Tasks : job[o] # NoJob => job[o].op # "mount" \/ job[o].uri # u
          /\ job' = [job EXCEPT ![t] = [op |-> "mount", uri |-> u, cred |-> c, mount |-> TRUE]]
    /\ UNCHANGED <<tables, cred, pref, disk, checking, uiVars>>

(* tryAuth: user and password must not be empty; the user decides whether  *)
(* the share is pinned.  Nothing keeps two of these from running at once.  *)
TryAuth(t) ==
    /\ AuthReachable
    /\ job[t] = NoJob
    /\ \E u \in Uris, c \in Credentials, pin \in BOOLEAN :
          job' = [job EXCEPT ![t] = [op |-> "auth", uri |-> u, cred |-> c, mount |-> pin]]
    /\ UNCHANGED <<tables, cred, pref, disk, checking, uiVars>>

(* addServer throws when the share has been mounted since tryMount looked. *)
AlreadyMounted(t) ==
    /\ job[t] # NoJob
    /\ checking = Nobody
    /\ job[t].op = "mount"
    /\ job[t].uri \in mounted
    /\ job' = [job EXCEPT ![t] = NoJob]
    /\ UNCHANGED <<tables, cred, pref, disk, checking, uiVars>>

(* Into the monitor: the credentials go into the cache before the server   *)
(* has seen them.                                                          *)
StartCheck(t) ==
    /\ job[t] # NoJob
    /\ checking = Nobody
    /\ job[t].op = "mount" => job[t].uri \notin mounted
    /\ checking' = t
    /\ cred' = IF job[t].cred = NoCredential THEN cred
               ELSE [cred EXCEPT ![job[t].uri] = job[t].cred]
    /\ UNCHANGED <<tables, pref, disk, job, uiVars>>

(* Mutation of Forget: the rejected credentials stay in the cache. *)
ForgetNothing(u) == UNCHANGED cred

(* removeCredential *)
Forget(u) == cred' = [cred EXCEPT ![u] = NoCredential]

(* Mutation of CheckFails: the monitor is not left on the way out. *)
CheckFailsInside(t) ==
    /\ checking = t
    /\ Forget(job[t].uri)
    /\ job' = [job EXCEPT ![t] = NoJob]
    /\ UNCHANGED <<tables, checking, pref, disk, uiVars>>

(* The server did not list the share, or did not answer: the credentials   *)
(* are removed, also if others were there before, and the task fails.      *)
CheckFails(t) ==
    /\ checking = t
    /\ Forget(job[t].uri)
    /\ checking' = Nobody
    /\ job' = [job EXCEPT ![t] = NoJob]
    /\ UNCHANGED <<tables, pref, disk, uiVars>>

(* saveServerInfo: a share without a password is stored as EMPTY_TUPLE,    *)
(* which is mounted whatever the caller asked for.                         *)
TupleOf(j) == IF j.cred = NoCredential THEN EmptyTuple
                                       ELSE [cred |-> j.cred, mount |-> j.mount]

(* Mutations of Save: the map is not told of the new string; the           *)
(* preferences are written before the string is added.                     *)
SaveNotInMap(s) ==
    /\ strings' = strings \cup {s}
    /\ stringOf' = IF Stored(s.uri) THEN stringOf ELSE [stringOf EXCEPT ![s.uri] = s]
    /\ mounted' = IF s.tuple.mount THEN mounted \cup {s.uri} ELSE mounted \ {s.uri}
    /\ pref' = strings'
SaveTooEarly(s) ==
    /\ strings' = strings \cup {s}
    /\ stringOf' = [stringOf EXCEPT ![s.uri] = s]
    /\ mounted' = IF s.tuple.mount THEN mounted \cup {s.uri} ELSE mounted \ {s.uri}
    /\ pref' = strings

(* updateServersData: an older string of the same uri stays in the set.    *)
Save(s) ==
    /\ strings' = strings \cup {s}
    /\ stringOf' = [stringOf EXCEPT ![s.uri] = s]
    /\ mounted' = IF s.tuple.mount THEN mounted \cup {s.uri} ELSE mounted \ {s.uri}
    /\ pref' = strings'

(* Mutation of CheckSucceeds: an exception of the checker is swallowed. *)
SucceedUnchecked(t) ==
    /\ checking = t
    /\ Save(Encode(job[t].uri, TupleOf(job[t])))
    /\ Watch
    /\ checking' = Nobody
    /\ job' = [job EXCEPT ![t] = NoJob]
    /\ UNCHANGED <<cred, disk, querying, listing, rows, roots>>

(* The share could be listed.  The listener of the provider hears of it    *)
(* and notifies the roots of an authority nothing is registered under      *)
(* (SambaDocumentsProvider.java:70, AndroidManifest.xml:31), which changes *)
(* nothing; the same holds of Unmount.                                     *)
CheckSucceeds(t) ==
    /\ checking = t
    /\ cred[job[t].uri] \in Accepts[job[t].uri]
    /\ Save(Encode(job[t].uri, TupleOf(job[t])))
    /\ Watch
    /\ checking' = Nobody
    /\ job' = [job EXCEPT ![t] = NoJob]
    /\ UNCHANGED <<cred, disk, querying, listing, rows, roots>>

(* Mutation of Unmount: the credentials are kept. *)
UnmountKeepsCredentials(u) ==
    /\ checking = Nobody
    /\ Stored(u)
    /\ stringOf[u] \in strings
    /\ strings'  = strings \ {stringOf[u]}
    /\ stringOf' = [stringOf EXCEPT ![u] = NoString]
    /\ mounted'  = mounted \ {u}
    /\ pref'     = strings'
    /\ Watch
    /\ UNCHANGED <<cred, disk, job, checking, querying, listing, rows, roots>>

(* unmountServer, from ejectRoot.  Of several strings of the uri only the  *)
(* latest is removed.                                                      *)
Unmount(u) ==
    /\ checking = Nobody
    /\ Stored(u)
    /\ stringOf[u] \in strings
    /\ strings'  = strings \ {stringOf[u]}
    /\ stringOf' = [stringOf EXCEPT ![u] = NoString]
    /\ mounted'  = mounted \ {u}
    /\ pref'     = strings'
    /\ Forget(u)
    /\ Watch
    /\ UNCHANGED <<disk, job, checking, querying, listing, rows, roots>>

-------------------------------------------------------------------------------
(* queryRoots takes the iterator, a copy of the uris, and asks for each    *)
(* whether it is mounted; both methods need the monitor.  The UI queries   *)
(* whenever it likes: no notification of a mount or an eject reaches it.   *)
QueryRoots ==
    /\ checking = Nobody
    /\ ~querying
    /\ querying' = TRUE
    /\ listing'  = {u \in Uris : Stored(u)}
    /\ rows'     = {}
    /\ kept'     = mounted
    /\ seen'     = mounted
    /\ UNCHANGED <<tables, cred, pref, disk, job, checking, roots>>

(* Mutation of AddRow: isShareMounted is not asked. *)
AddRowUnasked(u) ==
    /\ checking = Nobody
    /\ u \in listing
    /\ listing' = listing \ {u}
    /\ rows' = rows \cup {u}
    /\ UNCHANGED <<tables, cred, pref, disk, job, checking, querying, roots, asked>>

AddRow(u) ==
    /\ checking = Nobody
    /\ u \in listing
    /\ listing' = listing \ {u}
    /\ rows' = IF u \in mounted THEN rows \cup {u} ELSE rows
    /\ UNCHANGED <<tables, cred, pref, disk, job, checking, querying, roots, asked>>

ShowRoots ==
    /\ querying
    /\ listing = {}
    /\ querying' = FALSE
    /\ roots' = rows
    /\ UNCHANGED <<tables, cred, pref, disk, job, checking, listing, rows, asked>>

(* SharedPreferences.apply() only queues the write of the file (external). *)
Flush ==
    /\ disk # pref
    /\ disk' = pref
    /\ UNCHANGED <<tables, cred, pref, job, checking, uiVars>>

(* The process is killed and started again: the tables are those of the    *)
(* file, and the UI loses its connection and with it what it shows.        *)
Restart ==
    /\ Load(disk)
    /\ disk' = disk
    /\ job' = [t \in Tasks |-> NoJob]
    /\ checking' = Nobody
    /\ querying' = FALSE
    /\ listing' = {}
    /\ rows' = {}
    /\ roots' = {}
    /\ kept' = {}
    /\ seen' = {}

Next ==
    \/ \E t \in Tasks : \/ TryMount(t)
                        \/ TryAuth(t)
                        \/ AlreadyMounted(t)
                        \/ StartCheck(t)
                        \/ CheckFails(t)
                        \/ CheckSucceeds(t)
    \/ \E u \in Uris : Unmount(u) \/ AddRow(u)
    \/ QueryRoots
    \/ ShowRoots
    \/ Flush
    \/ Restart

Spec == Init /\ [][Next]_vars

-------------------------------------------------------------------------------
TypeOK ==
    /\ strings \in SUBSET Strings
    /\ stringOf \in [Uris -> Strings \cup {NoString}]
    /\ mounted \in SUBSET Uris
    /\ cred \in [Uris -> CredentialOrNone]
    /\ pref \in SUBSET Strings
    /\ disk \in SUBSET Strings
    /\ job \in [Tasks -> Jobs \cup {NoJob}]
    /\ checking \in Tasks \cup {Nobody}
    /\ checking # Nobody => job[checking] # NoJob
    /\ querying \in BOOLEAN
    /\ listing \in SUBSET Uris
    /\ rows \in SUBSET Uris
    /\ roots \in SUBSET Uris
    /\ kept \in SUBSET Uris
    /\ seen \in SUBSET Uris

Checking(u) == checking # Nobody /\ job[checking].uri = u

(* unmountServer finds the string it wants to remove, whatever was stored, *)
(* updated or loaded before: ejectRoot never throws.  And the share is     *)
(* mounted exactly if that string says so.                                 *)
TablesAgree ==
    /\ \A u \in Uris : Stored(u) => stringOf[u] \in strings /\ stringOf[u].uri = u
    /\ mounted = {u \in Uris : Stored(u) /\ stringOf[u].tuple.mount}

(* A credential is in the cache only for a share that is stored, or while  *)
(* it is being checked.                                                    *)
CredentialsHaveShares ==
    \A u \in Uris : cred[u] # NoCredential => Stored(u) \/ Checking(u)

(* Credentials the server rejects are in the cache only during the check:  *)
(* neither a failed mount nor a restart leaves them to the file operations.*)
CredentialsWork ==
    \A u \in Uris : cred[u] \in Accepts[u] \cup {NoCredential} \/ Checking(u)

(* As long as shares are only mounted and ejected, a process that loads    *)
(* the preferences gets exactly the tables and the credentials of this     *)
(* one: nothing that was ejected returns, no password is forgotten.        *)
RestartChangesNothing ==
    checking = Nobody =>
      /\ pref = {stringOf[u] : u \in {v \in Uris : Stored(v)}}
      /\ \A u \in Uris : cred[u] = IF Stored(u) THEN stringOf[u].tuple.cred ELSE NoCredential

(* The file is never ahead of or beside the tables: every share in it was  *)
(* let in by its server.                                                   *)
FileWasChecked ==
    \A s \in disk : s.tuple.cred \in Accepts[s.uri]

(* The list of roots holds what was mounted all the time it was made, and  *)
(* nothing that was not mounted at any moment of it, although queryRoots   *)
(* copies the uris and asks about each of them in steps that mounts and    *)
(* ejects of other threads come between.                                   *)
RootsWereMounted ==
    ~querying => kept \subseteq roots /\ roots \subseteq seen

(* The application as wired implements ShareStore: a share has been added  *)
(* when its check has succeeded, with the credentials that file operations *)
(* find in the cache, is saved when the file says so, and is shown by a    *)
(* list that nothing but the shares mounted meanwhile went into.           *)
MountedShares == {[uri |-> u, cred |-> cred[u]] : u \in mounted}
SavedShares   == {[uri |-> s.uri, cred |-> s.tuple.cred] : s \in disk}

Store == INSTANCE ShareStore WITH
             shares <- MountedShares, saved <- SavedShares, shown <- roots,
             asking <- querying

ImplementsStore == Store!StoreSpec

===============================================================================
