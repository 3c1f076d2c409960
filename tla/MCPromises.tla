------------------------------ MODULE MCPromises ------------------------------
(***************************************************************************)
(* The components that promise to finish what they began: the transfer     *)
(* queue of the Network Drive, the batches that the agents of VM Protect   *)
(* send, the writer of the database document, and the way into the vault.  *)
(* They share no variable: a behaviour moves one of them, and the others   *)
(* stay where they began, so that one run explores each without            *)
(* multiplying them; a property of a part is evaluated where it moves.     *)
(***************************************************************************)
EXTENDS Naturals, FiniteSets

CONSTANTS Jobs, Kinds, Strategies, FirstStrategies, FolderSize, MaxSlot, MaxTries,
          VmFiles, Large, MaxContent, MaxChanges, MaxCrashes, MaxRepairs, TreeLimit,
          MaxRevision, Faults,
          Keys, VaultKey, MaxFaults, MaxCommands

VARIABLES part,
          payload, status, verified, tries, currentJob, cancelled,
          transfer, made, immediate, roots, disk,
          vm, known, listed, phase, missing, offset, record, missingIds, bytes, partial,
          uploads, held, staged, commit, torn, queued, dirty, backed, overlooked, hostUp, bounds,
          data, up, primary, backup, temp, knownGood, large, requested, persisted,
          timer, error, waiters, writer, accepted, acked, reported,
          config, keychain, setup, keysHeld, form, layout, tornConfig, faults, commands

transfersVars == <<payload, status, verified, tries, currentJob, cancelled,
                   transfer, made, immediate, roots, disk>>
batchesVars   == <<vm, known, listed, phase, missing, offset, record, missingIds, bytes, partial,
                   uploads, held, staged, commit, torn, queued, dirty, backed, overlooked, hostUp, bounds>>
databaseVars  == <<data, up, primary, backup, temp, knownGood, large, requested, persisted,
                   timer, error, waiters, writer, accepted, acked, reported>>
accessVars    == <<config, keychain, setup, keysHeld, form, layout, tornConfig, faults, commands>>
vars == <<part, transfersVars, batchesVars, databaseVars, accessVars>>

T == INSTANCE LanTransfers
B == INSTANCE VmBatches WITH part <- partial, up <- hostUp
D == INSTANCE DatabasePersistence
A == INSTANCE VaultAccess WITH held <- keysHeld, torn <- tornConfig

ASSUME PromisesAssumption ==
  /\ T!JobsAssumption /\ T!KindsAssumption /\ T!StrategiesAssumption /\ T!BoundsAssumption
  /\ B!BatchesAssumption /\ D!RevisionAssumption /\ D!FaultsAssumption /\ A!AccessAssumption

\* The parts that a behaviour does not move have one initial state.  A text has
\* no target, so its strategy says nothing, and one text is enough.  The first job
\* has one of FirstStrategies; a retry puts it after the second.
Init ==
  /\ part \in {"transfers", "batches", "database", "access"}
  /\ T!Init /\ B!Init /\ D!Init /\ A!Init
  /\ part # "transfers" =>
       /\ \A j \in Jobs : payload[j] = [kind |-> "download-file", strategy |-> "replace"]
       /\ \A k \in Kinds : roots[k] = {}
  /\ part = "transfers" => \A j \in Jobs : j = 1 => payload[j].strategy \in FirstStrategies
  /\ \A j \in Jobs : payload[j].kind = "drop-text" => j # 1 /\ payload[j].strategy = "replace"
  /\ part # "batches" => \A f \in VmFiles : vm[f] = 0
  /\ part # "database" => primary.ok /\ backup.ok
  /\ part # "access" => \A f \in DOMAIN keysHeld : keysHeld[f] = {}

Transfers(Act) == part = "transfers" /\ Act /\ UNCHANGED <<part, batchesVars, databaseVars, accessVars>>
Batches(Act)   == part = "batches" /\ Act /\ UNCHANGED <<part, transfersVars, databaseVars, accessVars>>
Database(Act)  == part = "database" /\ Act /\ UNCHANGED <<part, transfersVars, batchesVars, accessVars>>
Access(Act)    == part = "access" /\ Act /\ UNCHANGED <<part, transfersVars, batchesVars, databaseVars>>

\* The program is started again and again, and what it began goes on.
Fairness ==
  /\ WF_vars(Transfers(T!Immediate)) /\ WF_vars(Transfers(~T!Waits /\ T!Transfer))
  /\ WF_vars(Batches(B!Start)) /\ WF_vars(Batches(B!RegisterForBackup))
  /\ WF_vars(Batches(B!BackUp)) /\ WF_vars(Batches(B!HandleCommit))
  /\ WF_vars(Database(D!TimerFires)) /\ WF_vars(Database(D!WriterSteps))
  /\ WF_vars(Access(A!Launch)) /\ WF_vars(Access(A!LayoutStep)) /\ WF_vars(Access(A!FormStep))

Spec ==
  /\ Init
  /\ [][Transfers(T!Next) \/ Batches(B!Next) \/ Database(D!Next) \/ Access(A!Next)]_vars
  /\ Fairness

-----------------------------------------------------------------------------
(* The properties of the modules, by name. *)

\* The variables of lanTransferQueue.js, of vmProtect.js, vmProtectV2.js and the VM
\* agent, of database.js, and of keychain.js and rclone.js hold what the code puts there.
TypesOK ==
  /\ part = "transfers" => T!TypeOK
  /\ part = "batches" => B!TypeOK
  /\ part = "database" => D!TypeOK
  /\ part = "access" => A!TypeOK

\* See LanTransfers: a job the queue reports verified has arrived whole.
VerifiedIsWhole == T!VerifiedIsWhole

\* See LanTransfers: only "replace" touches what was at the target, and a canceled job
\* is not reported complete.
JobsDoAsTold == T!NothingOverwritten /\ T!CancelIsFinal

\* See LanTransfers: every queued job is run or canceled, unless a transfer hangs.
QueueDrains == T!QueueDrains

\* See VmBatches: what the agent believes staged is staged.
KnownIsStaged == part = "batches" => B!KnownIsStaged

\* See VmBatches: what is staged gets into the backup, over crashes.
StagedGetsBackedUp == B!StagedGetsBackedUp

\* See DatabasePersistence: when nothing is scheduled and nothing was reported the
\* file holds the document.
QuietIsSaved == part = "database" => D!QuietIsSaved

\* See DatabasePersistence: the database implements DurableStore.
KeepsPromise == D!KeepsPromise

\* See DatabasePersistence: a readable copy once is a readable copy always.
StaysReadable == D!StaysReadable

\* See DatabasePersistence: a mutation is saved in the end or its failure known.
SavedOrReported == D!SavedOrReported

\* See VaultAccess: remote and keychain agree between attempts.
ConfigAndKeyAgree == part = "access" => A!ConfigAndKeyAgree

\* See VaultAccess: everything ends in one folder.
LayoutCompletes == A!LayoutCompletes
=============================================================================
