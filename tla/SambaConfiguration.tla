--------------------------- MODULE SambaConfiguration ---------------------------
(***************************************************************************)
(* smb.conf: the file the Samba library reads when a context is            *)
(* initialised, and the SambaConfiguration object that writes it once when *)
(* the process starts: from a newer file the user has put into the         *)
(* external folder (SyncTask), or else, if there is none yet, with the     *)
(* defaults (FlushTask), which forbid SMB1.  The tasks run on the          *)
(* AsyncTask executor; the file is truncated and then written entry by     *)
(* entry, and the process may be killed in between.                        *)
(***************************************************************************)
EXTENDS Naturals

CONSTANTS Options,   \* the settings a file may hold
          Defaults   \* those of flushDefault

ASSUME ConfigurationAssumption == Defaults \subseteq Options

VARIABLES home,      \* $HOME/.smb/smb.conf
          ext,       \* smb.conf in the external folder
          newer,     \* is ext.lastModified() > home.lastModified()?
          up,        \* is the process running?
          conf,      \* mConfigurations
          task,      \* the SyncTask or FlushTask of this process
          chosen,    \* what the file was last meant to say
          spoilt     \* has a failure or a kill left it otherwise, or missing?

confVars == <<home, ext, newer, up, conf, task, chosen, spoilt>>

File(options) == [exists |-> TRUE, has |-> options]
NoFile == [exists |-> FALSE, has |-> {}]
Files  == [exists : {TRUE}, has : SUBSET Options] \cup {NoFile}

NoTask == [what |-> "none", at |-> "ended", rest |-> {}]
Tasks  == [what : {"sync", "flush"}, at : {"queued", "read", "writing", "written"},
           rest : SUBSET Options] \cup {NoTask}

Pending == task # NoTask

ConfInit ==
    /\ home = NoFile
    /\ ext \in Files
    /\ newer = ext.exists
    /\ up = FALSE
    /\ conf = {}
    /\ task = NoTask
    /\ chosen = Defaults
    /\ spoilt = FALSE

(* The user writes a file into the external folder, or removes it.         *)
EditExternal ==
    /\ ext' \in Files \ {ext}
    /\ newer' = ext'.exists
    /\ UNCHANGED <<home, up, conf, task, chosen, spoilt>>

(* Mutation of FlushDefault: only the task adds the defaults. *)
FlushNothing ==
    /\ task' = IF home.exists THEN NoTask ELSE [NoTask EXCEPT !.what = "flush", !.at = "read"]
    /\ UNCHANGED conf

(* flushDefault: the defaults, written unless there is a file.             *)
FlushDefault ==
    /\ conf' = conf \cup Defaults
    /\ task' = IF home.exists THEN NoTask ELSE [NoTask EXCEPT !.what = "flush", !.at = "read"]

(* initializeSambaConf, in a new process: syncFromExternal, or else        *)
(* flushDefault.  The external folder may not be there ("external storage  *)
(* is not ready").                                                         *)
Start ==
    /\ ~up
    /\ up' = TRUE
    /\ \E ready \in BOOLEAN :
          IF ready /\ newer
          THEN /\ task' = [NoTask EXCEPT !.what = "sync", !.at = "queued"]
               /\ UNCHANGED conf
          ELSE FlushDefault
    /\ UNCHANGED <<home, ext, newer, chosen, spoilt>>

(* An exception ends the task; onFailed does nothing.                      *)
TaskFails ==
    /\ task' = NoTask
    /\ spoilt' = (spoilt \/ ~home.exists)
    /\ UNCHANGED <<home, newer, chosen>>

(* read: forgets the settings, then reads line by line.                    *)
ReadExternal ==
    /\ task.at = "queued"
    /\ \/ /\ ext.exists
          /\ conf' = ext.has
          /\ task' = [task EXCEPT !.at = "read"]
          /\ UNCHANGED <<home, newer, chosen, spoilt>>
       \/ /\ conf' \in SUBSET ext.has
          /\ TaskFails
    /\ UNCHANGED <<ext, up>>

(* write: the PrintStream truncates the file ...                           *)
OpenHome ==
    /\ task.at = "read"
    /\ \/ /\ home' = File({})
          /\ newer' = FALSE
          /\ task' = [task EXCEPT !.at = "writing", !.rest = conf]
          /\ chosen' = IF task.what = "sync" THEN conf ELSE Defaults
          /\ spoilt' = FALSE
       \/ TaskFails
    /\ UNCHANGED <<ext, up, conf>>

(* ... and prints the entries in the order of the HashMap.  It swallows an *)
(* IOException and prints nothing from then on.                            *)
WriteEntry ==
    /\ task.at = "writing"
    /\ \/ \E e \in task.rest :
             /\ home' = File(home.has \cup {e})
             /\ task' = [task EXCEPT !.rest = @ \ {e}]
             /\ UNCHANGED spoilt
       \/ /\ task.rest # {}
          /\ task' = [task EXCEPT !.rest = {}]
          /\ spoilt' = TRUE
          /\ UNCHANGED home
    /\ UNCHANGED <<ext, newer, up, conf, chosen>>

CloseHome ==
    /\ task.at = "writing"
    /\ task.rest = {}
    /\ task' = [task EXCEPT !.at = "written"]
    /\ UNCHANGED <<home, ext, newer, up, conf, chosen, spoilt>>

(* onSucceeded, on the main thread; the listener resets the session.       *)
Succeeded ==
    /\ task.at = "written"
    /\ task' = NoTask
    /\ UNCHANGED <<home, ext, newer, up, conf, chosen, spoilt>>

(* The process is killed: the files stay, as they are.                     *)
Killed ==
    /\ up
    /\ up' = FALSE
    /\ conf' = {}
    /\ task' = NoTask
    /\ spoilt' = (spoilt \/ task.at = "writing")
    /\ UNCHANGED <<home, ext, newer, chosen>>

TaskStep == ReadExternal \/ OpenHome \/ WriteEntry \/ CloseHome
-------------------------------------------------------------------------------
ConfTypeOK ==
    /\ {home, ext} \subseteq Files
    /\ newer \in BOOLEAN /\ up \in BOOLEAN /\ spoilt \in BOOLEAN
    /\ newer => ext.exists
    /\ conf \subseteq Options /\ chosen \subseteq Options
    /\ task \in Tasks
    /\ Pending => up
===============================================================================
