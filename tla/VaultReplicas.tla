---------------------------- MODULE VaultReplicas ----------------------------
(***************************************************************************)
(* Further accounts for the vault: their connection, the transfer that     *)
(* moves the vault or makes a replica of it, and the replication after     *)
(* each backup (main/vaultDestinations.js, its handlers in main/ipc.js and *)
(* its buttons in renderer/apps/LabSuiteBackup.jsx).                       *)
(*                                                                         *)
(* An account holds files of this vault, or the vault of somebody else.    *)
(* The three roots of a vault, quotas and progress are left out.           *)
(***************************************************************************)
EXTENDS Naturals, FiniteSets

CONSTANTS Main, Accounts,   \* the first account and those connected later
          MaxBackups,       \* bound: files that backups write
          UserResumes       \* whether the user resumes backups during a transfer

ReplicasAssumption ==
  Main \notin Accounts /\ MaxBackups \in Nat /\ UserResumes \in BOOLEAN

VARIABLES
  active,    \* active_raw_remote
  dest,      \* vault_destinations: per account status, state, mode
  held,      \* per account, its files; 0 is a vault of somebody else
  backup,    \* the run: "off", "on", or the accounts it still has to replicate to
  backed,    \* how many files were backed up
  transfer,  \* the transfer: account, step, what was the state before, and source
  resumeAfter, paused   \* shouldResume; sync_paused

vars == <<active, dest, held, backup, backed, transfer, resumeAfter, paused>>

Foreign == 0
All     == {Main} \cup Accounts
NoMove  == [to |-> Main, at |-> "none", was |-> "none", from |-> Main]

TypeOK ==
  /\ active \in All
  /\ \A d \in Accounts :
       /\ dest[d].status \in {"none", "connecting", "connected", "transferring", "ready", "error"}
       /\ dest[d].state \in {"none", "empty", "copying", "verified"}
       /\ dest[d].mode \in {"none", "unassigned", "migrate", "replica", "primary"}
  /\ held \in [All -> SUBSET (0 .. MaxBackups)]
  /\ backup.on \in BOOLEAN /\ backup.mirrors \subseteq Accounts
  /\ backed \in 0 .. MaxBackups /\ resumeAfter \in BOOLEAN /\ paused \in BOOLEAN
  /\ transfer.at \in {"none", "begun", "copy", "verify", "promote", "mirror"}
  /\ transfer.to \in All /\ transfer.from \in All

Init ==
  /\ active = Main
  /\ dest = [d \in Accounts |-> [status |-> "none", state |-> "none", mode |-> "none"]]
  /\ held \in [All -> {{}, {Foreign}}] /\ held[Main] = {}
  /\ backup = [on |-> FALSE, mirrors |-> {}] /\ backed = 0
  /\ transfer = NoMove /\ resumeAfter = FALSE /\ paused \in BOOLEAN

Set(d, status, state, mode) ==
  dest' = [dest EXCEPT ![d] = [status |-> status, state |-> state, mode |-> mode]]

-----------------------------------------------------------------------------
(* Backups. *)

StartBackup ==
  /\ ~paused /\ ~backup.on
  /\ backup' = [on |-> TRUE, mirrors |-> {}]
  /\ UNCHANGED <<active, dest, held, backed, transfer, resumeAfter, paused>>

\* The name of the remote is looked up for every call.
BackUpFile ==
  /\ backup.on /\ backup.mirrors = {} /\ backed < MaxBackups
  /\ backed' = backed + 1
  /\ held' = [held EXCEPT ![active] = @ \cup {backed + 1}]
  /\ UNCHANGED <<active, dest, backup, transfer, resumeAfter, paused>>

Replicas == {d \in Accounts : dest[d].mode = "replica" /\ dest[d].state = "verified"}

\* replicateAll, at the end of the run.
FinishBackup ==
  /\ backup.on /\ backup.mirrors = {}
  /\ backup' = [on |-> Replicas # {}, mirrors |-> Replicas]
  /\ UNCHANGED <<active, dest, held, backed, transfer, resumeAfter, paused>>

\* What a transfer that stops somewhere leaves at its target.
Partly(d, from, mirror) ==
  {(held[d] \ gone) \cup got : got \in SUBSET held[from],
                               gone \in IF mirror THEN SUBSET (held[d] \ held[from]) ELSE {{}}}

\* A replica becomes a mirror of the active account, or an error is noted; a
\* verification fails when the source changed meanwhile.
Mirror(d) ==
  \/ /\ d = active /\ UNCHANGED <<dest, held>>
  \/ /\ d # active
     /\ held' = [held EXCEPT ![d] = held[active]]
     /\ Set(d, "ready", dest[d].state, dest[d].mode)
  \/ /\ d # active
     /\ \E h \in Partly(d, active, TRUE) : held' = [held EXCEPT ![d] = h]
     /\ Set(d, "error", dest[d].state, dest[d].mode)

ReplicateDestination ==
  \E d \in backup.mirrors :
    /\ Mirror(d)
    /\ backup' = [on |-> backup.mirrors # {d}, mirrors |-> backup.mirrors \ {d}]
    /\ UNCHANGED <<active, backed, transfer, resumeAfter, paused>>

\* Pause and resume; with a transfer under way the user may see the pause and
\* end it.
TogglePause ==
  /\ transfer.at = "none" \/ (UserResumes /\ paused)
  /\ paused' = ~paused
  /\ backup' = IF paused THEN backup ELSE [on |-> FALSE, mirrors |-> {}]
  /\ UNCHANGED <<active, dest, held, backed, transfer, resumeAfter>>

-----------------------------------------------------------------------------
(* Accounts and transfers.  The window keeps one at a time (destinationBusy). *)

ConnectDestination(d) ==
  /\ transfer.at = "none" /\ dest[d].status = "none"
  /\ Set(d, "connecting", "empty", "unassigned")
  /\ UNCHANGED <<active, held, backup, backed, transfer, resumeAfter, paused>>

\* An account that fails to connect stays an error that nothing retries.
Connected(d) ==
  /\ dest[d].status = "connecting"
  /\ \E s \in {"connected", "error"} : Set(d, s, "empty", "unassigned")
  /\ UNCHANGED <<active, held, backup, backed, transfer, resumeAfter, paused>>

\* Mutant: the vault is moved under a running backup.
FreeAnyTime == TRUE

BackupIsIdle == ~backup.on

\* runVaultTransferSafely: no backup runs, and none starts meanwhile.
Reserve == BackupIsIdle /\ resumeAfter' = ~paused /\ paused' = TRUE

\* Which buttons the window offers.
Offers(d, mode) ==
  /\ d # active
  /\ \/ dest[d].state = "empty" /\ dest[d].status = "connected"
     \/ dest[d].state = "copying" /\ dest[d].status = "error" /\ dest[d].mode = mode

TransferToDestination(d) ==
  \E mode \in {"migrate", "replica"} :
    /\ transfer.at = "none" /\ Offers(d, mode) /\ Reserve
    /\ held[active] # {}
    /\ Set(d, "transferring", "copying", mode)
    /\ transfer' = [to |-> d, at |-> "begun", was |-> dest[d].state, from |-> active]
    /\ UNCHANGED <<active, held, backup, backed>>

Release ==
  /\ transfer' = NoMove /\ resumeAfter' = FALSE
  /\ paused' = IF resumeAfter THEN FALSE ELSE paused

\* Any call of the transfer fails; the destination keeps its state.
TransferFails ==
  /\ transfer.at \in {"begun", "copy", "verify", "promote"}
  /\ Set(transfer.to, "error", dest[transfer.to].state, dest[transfer.to].mode)
  /\ held' \in {held} \cup (IF transfer.at = "copy"
       THEN {[held EXCEPT ![transfer.to] = h] : h \in Partly(transfer.to, transfer.from, FALSE)}
       ELSE {})
  /\ Release
  /\ UNCHANGED <<active, backup, backed>>

\* Only an account that nothing was copied to yet has to be empty.  A listing
\* that fails counts as empty, too; that is left out here.
AssertEmptyTarget ==
  /\ transfer.at = "begun"
  /\ transfer.was = "empty" => held[transfer.to] = {}
  /\ transfer' = [transfer EXCEPT !.at = "copy"]
  /\ UNCHANGED <<active, dest, held, backup, backed, resumeAfter, paused>>

CopyRoots ==
  /\ transfer.at = "copy"
  /\ held' = [held EXCEPT ![transfer.to] = @ \cup held[transfer.from]]
  /\ transfer' = [transfer EXCEPT !.at = "verify"]
  /\ UNCHANGED <<active, dest, backup, backed, resumeAfter, paused>>

\* check --one-way --size-only, then sizes and counts.
SameTrees == held[transfer.from] = held[transfer.to]

VerifyRoots ==
  /\ transfer.at = "verify" /\ SameTrees
  /\ transfer' = [transfer EXCEPT !.at = "promote"]
  /\ UNCHANGED <<active, dest, held, backup, backed, resumeAfter, paused>>

\* The remote for the copy is made; a migration makes it the active one.
Promote ==
  /\ transfer.at = "promote"
  /\ IF dest[transfer.to].mode = "migrate"
     THEN active' = transfer.to /\ Set(transfer.to, "ready", "verified", "primary")
     ELSE Set(transfer.to, "ready", "verified", "replica") /\ UNCHANGED active
  /\ Release
  /\ UNCHANGED <<held, backup, backed>>

SyncReplica(d) ==
  /\ transfer.at = "none" /\ d # active /\ d \in Replicas /\ Reserve
  /\ transfer' = [NoMove EXCEPT !.to = d, !.at = "mirror"]
  /\ UNCHANGED <<active, dest, held, backup, backed>>

ReplicaSynced ==
  /\ transfer.at = "mirror"
  /\ Mirror(transfer.to)
  /\ Release
  /\ UNCHANGED <<active, backup, backed>>

\* The program ends: what the destination says and the pause stay.
Restart ==
  /\ transfer.at # "none" \/ backup.on
  /\ transfer' = NoMove /\ resumeAfter' = FALSE
  /\ backup' = [on |-> FALSE, mirrors |-> {}]
  /\ UNCHANGED <<active, dest, held, backed, paused>>

Next ==
  \/ StartBackup \/ BackUpFile \/ FinishBackup \/ ReplicateDestination \/ TogglePause
  \/ \E d \in Accounts :
       ConnectDestination(d) \/ Connected(d) \/ TransferToDestination(d) \/ SyncReplica(d)
  \/ TransferFails \/ AssertEmptyTarget \/ CopyRoots \/ VerifyRoots \/ Promote
  \/ ReplicaSynced \/ Restart

Spec == Init /\ [][Next]_vars

-----------------------------------------------------------------------------

\* Whatever was moved, mirrored, broken off and retried: every file that was
\* backed up is in the account that is active now.
NothingLeftBehind == 1 .. backed \subseteq held[active]
=============================================================================
