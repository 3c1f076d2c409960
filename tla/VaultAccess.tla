---------------------------- MODULE VaultAccess ----------------------------
(***************************************************************************)
(* The way into the vault: the master password form                        *)
(* (auth:setCryptPassword and auth:disconnect of main/ipc.js,              *)
(* validateExistingVaultAccess of main/remoteSafety.js, the crypt remote   *)
(* of main/rclone.js, main/keychain.js), and the move of older cloud       *)
(* folders into one, which is tried at each start (ensureUnifiedCloud-     *)
(* Layout).                                                                *)
(*                                                                         *)
(* What a folder holds is the set of the keys its data is encrypted with.  *)
(* A call to the cloud fails at most MaxFaults times; the program takes a  *)
(* listing that fails for a folder that is not there.  A custom folder     *)
(* name, hints, metadata and the control and app folders are left out.     *)
(***************************************************************************)
EXTENDS Naturals, FiniteSets

CONSTANTS Keys, VaultKey,   \* the keys; the key of the vault that exists
          MaxFaults,        \* bound: calls that fail
          MaxCommands       \* bound: what the user and the other PC do

AccessAssumption ==
  /\ VaultKey \in Keys /\ "none" \notin Keys
  /\ MaxFaults \in Nat /\ MaxCommands \in Nat

VARIABLES
  config,    \* the crypt remote: its folder and its key
  keychain,  \* the master password
  setup,     \* setup_complete
  held,      \* per folder, the keys of what it holds
  form,      \* the password form: its step, key, mode and what was before
  layout,    \* the step of ensureUnifiedCloudLayout
  torn,      \* not in the code: the program ended inside the form, or what was
             \* before could not be read or put back
  faults, commands

vars == <<config, keychain, setup, held, form, layout, torn, faults, commands>>

None     == "none"
Folders  == {"unified", "previous", "legacy"}
NoConfig == [folder |-> None, key |-> None]
NoForm   == [at |-> "idle", key |-> None, mode |-> "backup", config |-> NoConfig, keychain |-> None]

TypeOK ==
  /\ config.folder \in Folders \cup {None} /\ config.key \in Keys \cup {None}
  /\ config.folder = None <=> config.key = None
  /\ keychain \in Keys \cup {None} /\ setup \in BOOLEAN
  /\ held \in [Folders -> SUBSET Keys]
  /\ form.at \in {"idle", "create", "validate", "layout", "waiting", "marker", "store"}
  /\ form.mode \in {"backup", "access"} /\ (form.at = "idle" <=> form = NoForm)
  /\ layout \in {"off", "check", "move", "repoint", "legacy", "previous"}
  /\ torn \in BOOLEAN /\ faults \in 0 .. MaxFaults /\ commands \in 0 .. MaxCommands

Init ==
  /\ config = NoConfig /\ keychain = None /\ setup = FALSE
  /\ held \in [Folders -> {{}, {VaultKey}}]
  /\ form = NoForm /\ layout = "off" /\ torn = FALSE /\ faults = 0 /\ commands = 0

Command == commands < MaxCommands /\ commands' = commands + 1
Fault   == faults < MaxFaults /\ faults' = faults + 1
NoFault == UNCHANGED faults

\* What a listing says of a folder; a failing one says it is not there.
Seen(f, ok) == ok /\ held[f] # {}
Ok(ok) == IF ok THEN NoFault ELSE Fault
Cost(ok) == IF ok THEN 0 ELSE 1

-----------------------------------------------------------------------------
(* The password form. *)

\* A password that cannot be read is taken for none.
SetCryptPassword ==
  /\ Command /\ form = NoForm /\ layout = "off" /\ ~setup
  /\ \E k \in Keys, m \in {"backup", "access"}, read \in BOOLEAN :
       /\ Ok(read)
       /\ form' = [at |-> "create", key |-> k, mode |-> m, config |-> config,
                   keychain |-> IF read THEN keychain ELSE None]
       /\ torn' = (torn \/ ~read)
  /\ UNCHANGED <<config, keychain, setup, held, layout>>

Configured == IF config.folder = None THEN "unified" ELSE config.folder

\* The first folder that is there, else what was configured.
DetectEncryptedFolder(sees) ==
  IF sees["unified"] THEN "unified" ELSE IF sees["previous"] THEN "previous"
  ELSE IF sees["legacy"] THEN "legacy" ELSE Configured

\* The remote is deleted and made anew.
CreateCryptRemote ==
  /\ form.at = "create"
  /\ \E missed \in {{}} \cup {{f} : f \in Folders} :
       /\ Ok(missed = {})
       /\ config' = [key |-> form.key, folder |->
            DetectEncryptedFolder([f \in Folders |-> Seen(f, f \notin missed)])]
  /\ form' = [form EXCEPT !.at = IF form.mode = "access" THEN "validate" ELSE "layout"]
  /\ UNCHANGED <<keychain, setup, held, layout, commands, torn>>

\* inspectRawVault: an empty vault, or none, accepts every password.  Else the
\* marker, the catalog or the names must decrypt.
ValidateExistingVaultAccess ==
  /\ form.at = "validate"
  /\ \E ok \in BOOLEAN :
       /\ Ok(ok)
       /\ (\E f \in Folders : Seen(f, ok)) => form.key \in held[config.folder]
  /\ form' = [form EXCEPT !.at = "layout"]
  /\ UNCHANGED <<config, keychain, setup, held, layout, commands, torn>>

\* The layout is tried; whatever comes of it, the form goes on.
StartLayout ==
  /\ form.at = "layout" /\ layout = "off"
  /\ layout' = "check"
  /\ form' = [form EXCEPT !.at = "waiting"]
  /\ UNCHANGED <<config, keychain, setup, held, faults, commands, torn>>

LayoutTried ==
  /\ form.at = "waiting" /\ layout = "off"
  /\ setup' = (setup \/ form.mode = "access")
  /\ form' = [form EXCEPT !.at = IF form.mode = "access" THEN "store" ELSE "marker"]
  /\ UNCHANGED <<config, keychain, held, layout, faults, commands, torn>>

EnsureVaultMarker ==
  /\ form.at = "marker"
  /\ held' = [held EXCEPT ![config.folder] = @ \cup {form.key}]
  /\ form' = [form EXCEPT !.at = "store"]
  /\ UNCHANGED <<config, keychain, setup, layout, faults, commands, torn>>

SetPassword ==
  /\ form.at = "store"
  /\ keychain' = form.key /\ setup' = TRUE /\ torn' = FALSE
  /\ form' = NoForm
  /\ UNCHANGED <<config, held, layout, faults, commands>>

\* Mutant: the remote that was made stays.
ConfigStays == config

PreviousConfig == form.config

Refused ==
  /\ form.at = "validate"
  /\ (\E f \in Folders : held[f] # {}) /\ form.key \notin held[config.folder]

\* What the form has made of the remote by now; it deletes before it makes.
Midway == IF form.at = "create" THEN {config, NoConfig} ELSE {config}

\* A call fails or the password is refused: what was before is put back, each
\* of the two on its own; a failure to do so is not reported, and leaves it as
\* the form had made it.
PasswordError ==
  /\ form.at \in {"create", "marker", "store"} \/ Refused
  /\ \E key, remote \in BOOLEAN :
       /\ faults' = faults + Cost(form.at = "validate") + Cost(key) + Cost(remote)
       /\ faults' <= MaxFaults
       /\ keychain' = IF key THEN form.keychain ELSE keychain
       /\ IF remote THEN config' = PreviousConfig ELSE config' \in Midway
       /\ torn' = (torn \/ ~remote)
  /\ form' = NoForm
  /\ UNCHANGED <<setup, held, layout, commands>>

\* rclone.disconnect does not say that it failed; a password that cannot be
\* deleted, or the end of the program, leaves the rest undone.
Disconnect ==
  /\ Command /\ form = NoForm /\ layout = "off" /\ setup
  /\ \E deleted, done \in BOOLEAN :
       /\ Ok(deleted /\ done)
       /\ config' = IF deleted THEN NoConfig ELSE config
       /\ keychain' = IF done THEN None ELSE keychain
       /\ setup' = ~done
       /\ torn' = ~(deleted /\ done)
  /\ UNCHANGED <<held, form, layout>>

-----------------------------------------------------------------------------
(* One folder for everything. *)

Others == {"previous", "legacy"}
InOnePlace == \A f \in Others : held[f] = {}

\* The program starts.
Launch ==
  /\ setup /\ config # NoConfig /\ layout = "off" /\ form = NoForm
  /\ ~InOnePlace \/ (config.folder # "unified" /\ held["unified"] # {})
  /\ layout' = "check"
  /\ UNCHANGED <<config, keychain, setup, held, form, faults, commands, torn>>

CheckRoots ==
  /\ layout = "check"
  /\ \E source, target \in BOOLEAN :
       /\ Ok(source /\ target)
       /\ layout' = CASE config.folder = "unified" -> "legacy"
                      [] Seen(config.folder, source) -> "move"
                      [] Seen("unified", target) -> "repoint"
                      [] OTHER -> "off"
  /\ UNCHANGED <<config, keychain, setup, held, form, commands, torn>>

Moved(f) == [held EXCEPT ![f] = {}, !["unified"] = @ \cup held[f]]

\* moveRawTreeInto: the tree is moved; it is not seen, and stays; or the move
\* fails with part of it moved.
MoveRawTreeInto(f, next) ==
  \/ NoFault /\ held' = Moved(f) /\ layout' = next
  \/ Fault /\ held' = held /\ layout' = next
  \/ /\ Fault /\ held[f] # {}
     /\ held' = [held EXCEPT !["unified"] = @ \cup held[f]] /\ layout' = "off"

MoveEncryptedRoot ==
  /\ layout = "move"
  /\ MoveRawTreeInto(config.folder, "repoint")
  /\ UNCHANGED <<config, keychain, setup, form, commands, torn>>

RepointRemote ==
  /\ layout = "repoint"
  /\ config' = [config EXCEPT !.folder = "unified"]
  /\ layout' = "legacy"
  /\ UNCHANGED <<keychain, setup, held, form, faults, commands, torn>>

\* Mutant: what an earlier move left behind is not looked for.
NoKnownRoots == {}

KnownRoots == {"legacy", "previous"}

AfterRoot(f) == IF f = "legacy" THEN "previous" ELSE "off"

MoveKnownRoot ==
  /\ layout \in {"legacy", "previous"}
  /\ IF layout \in KnownRoots THEN MoveRawTreeInto(layout, AfterRoot(layout))
     ELSE layout' = AfterRoot(layout) /\ UNCHANGED <<held, faults>>
  /\ UNCHANGED <<config, keychain, setup, form, commands, torn>>

\* A PC that was not started since writes to an older folder.
OtherPCWrites ==
  /\ Command
  /\ \E f \in Others : held' = [held EXCEPT ![f] = @ \cup {VaultKey}]
  /\ UNCHANGED <<config, keychain, setup, form, layout, faults, torn>>

Crash ==
  /\ (form # NoForm \/ layout # "off") /\ Fault
  /\ form' = NoForm /\ layout' = "off"
  /\ torn' = (torn \/ form # NoForm)
  /\ config' \in Midway
  /\ UNCHANGED <<keychain, setup, held, commands>>

LayoutStep == CheckRoots \/ MoveEncryptedRoot \/ RepointRemote \/ MoveKnownRoot
FormStep ==
  \/ CreateCryptRemote \/ ValidateExistingVaultAccess \/ StartLayout \/ LayoutTried
  \/ EnsureVaultMarker \/ SetPassword \/ PasswordError

Next ==
  \/ SetCryptPassword \/ FormStep \/ Disconnect
  \/ Launch \/ LayoutStep
  \/ OtherPCWrites \/ Crash

Fairness == WF_vars(Launch) /\ WF_vars(LayoutStep) /\ WF_vars(FormStep)

Spec == Init /\ [][Next]_vars /\ Fairness

-----------------------------------------------------------------------------

\* Between two calls the remote decrypts with the password in the keychain,
\* whichever of them failed: a refused or broken attempt leaves both as before,
\* unless the program ended inside it, or what was before could not be read or
\* put back, or a disconnect failed half-way.
ConfigAndKeyAgree == form = NoForm /\ ~torn => config.key = keychain

\* Started again and again, the program brings everything into one folder,
\* after moves that broke off, roots that were overlooked and late writers.
LayoutCompletes ==
  (setup /\ config # NoConfig) ~> (~setup \/ config = NoConfig \/ InOnePlace)

=============================================================================
