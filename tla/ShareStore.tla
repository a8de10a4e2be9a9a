-------------------------------- MODULE ShareStore --------------------------------
(***************************************************************************)
(* What ShareManager promises to the rest of the application: a set of     *)
(* shares, each with the credentials its server let in, which the user     *)
(* adds to and ejects from one at a time; a saved copy of it that a new    *)
(* process starts with; and a list of roots, right about every share that  *)
(* was neither mounted nor ejected while it was made.  Tables, strings,    *)
(* preferences, credential cache and monitor do not appear; ShareManager   *)
(* is shown to implement this module.                                      *)
(***************************************************************************)
CONSTANTS Uris,     \* the shares a user may mount
          Accepts   \* Accepts[u]: the credentials the server of u lets in

VARIABLES shares,   \* the mounted shares, with the credentials in use
          saved,    \* what a new process would start with
          shown,    \* the uris the documents UI shows
          asking,   \* is the UI asking for the list?
          kept,     \* the uris mounted all the time since it asked
          seen      \* the uris mounted at some moment since then

storeVars == <<shares, saved, shown, asking, kept, seen>>

UrisOf(set) == {share.uri : share \in set}

StoreInit ==
    /\ shares = {}
    /\ saved = {}
    /\ shown = {}
    /\ asking = FALSE
    /\ kept = {}
    /\ seen = {}

Mount(u) ==
    /\ u \notin UrisOf(shares)
    /\ \E c \in Accepts[u] : shares' = shares \cup {[uri |-> u, cred |-> c]}
    /\ seen' = IF asking THEN seen \cup {u} ELSE seen
    /\ UNCHANGED <<saved, shown, asking, kept>>

Eject(u) ==
    /\ u \in UrisOf(shares)
    /\ shares' = {share \in shares : share.uri # u}
    /\ kept' = IF asking THEN kept \ {u} ELSE kept
    /\ UNCHANGED <<saved, shown, asking, seen>>

SaveShares ==
    /\ saved' = shares
    /\ UNCHANGED <<shares, shown, asking, kept, seen>>

Ask ==
    /\ ~asking
    /\ asking' = TRUE
    /\ kept' = UrisOf(shares)
    /\ seen' = UrisOf(shares)
    /\ UNCHANGED <<shares, saved, shown>>

(* Of what was mounted or ejected meanwhile the answer may hold anything.  *)
Show ==
    /\ asking
    /\ asking' = FALSE
    /\ \E extra \in SUBSET (seen \ kept) : shown' = kept \cup extra
    /\ UNCHANGED <<shares, saved, kept, seen>>

StartAgain ==
    /\ shares' = saved
    /\ shown' = {}
    /\ asking' = FALSE
    /\ kept' = {}
    /\ seen' = {}
    /\ UNCHANGED saved

StoreNext ==
    \/ \E u \in Uris : Mount(u) \/ Eject(u)
    \/ SaveShares
    \/ Ask
    \/ Show
    \/ StartAgain

StoreSpec == StoreInit /\ [][StoreNext]_storeVars
===============================================================================
