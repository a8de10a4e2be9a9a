------------------------------ MODULE SambaSession ------------------------------
(***************************************************************************)
(* The application's Samba session: the native session (NativeSession) and *)
(* its configuration (SambaConfiguration), as SambaProviderApplication     *)
(* ties them together.  The session is reset when a network has become     *)
(* available and when the configuration has been written; each Init reads  *)
(* smb.conf as it is at that moment.                                       *)
(***************************************************************************)
EXTENDS NativeSession, SambaConfiguration

(* What a context can be initialised with is what smb.conf can say. *)
ASSUME FileAssumption == Configurations = Files /\ NoConfiguration = NoFile

vars == <<nativeVars, confVars>>

Init == NativeInit /\ ConfInit

(* The network callback.  It may come at any time after initialize.        *)
NetworkAvailable ==
    /\ up
    /\ undefined = {}
    /\ Reset(home)
    /\ UNCHANGED confVars

(* Mutation of ConfigurationChanged: nobody listens. *)
ChangedSilently == Succeeded /\ UNCHANGED nativeVars

(* The listener of initializeSambaConf.                                    *)
ConfigurationChanged == Succeeded /\ Reset(home)

(* A process that has run into undefined behaviour is not followed.        *)
Use == /\ up
       /\ undefined = {}
       /\ Call \/ PutCredential \/ RemoveCredential
       /\ UNCHANGED confVars

(* The process is killed, or leaves by exit(1) from SambaClient's          *)
(* destructor.                                                             *)
Dies == Killed /\ ProcessEnds

Configure == (EditExternal \/ Start \/ TaskStep) /\ UNCHANGED nativeVars

Next == NetworkAvailable \/ ConfigurationChanged \/ Use \/ Dies \/ Configure

Spec == Init /\ [][Next]_vars

-------------------------------------------------------------------------------
TypeOK == NativeTypeOK /\ ConfTypeOK

(* Once the task of this process has ended, the configuration the session  *)
(* was initialised with is the one in the file, in whatever order the      *)
(* network callback, the task and its listener have come.                  *)
LoadedIsFile == handler /\ ~Pending => loaded = home

(* The session talks SMB1 only if the user's own file lets it, or if the   *)
(* storage failed or the process died while smb.conf was being made        *)
(* ("Urge from users to disable SMB1 by default").                         *)
Smb1IsAChoice ==
    handler /\ ~Pending => Defaults \subseteq loaded.has \/ loaded.has = chosen \/ spoilt
===============================================================================
