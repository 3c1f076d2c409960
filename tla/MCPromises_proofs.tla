-------------------------- MODULE MCPromises_proofs --------------------------
(***************************************************************************)
(* Proofs about the components of MCPromises, for every value of the       *)
(* constants: any keys, revisions, files, jobs, and any number of faults,  *)
(* crashes and commands.  Each component has its inductive invariant; as   *)
(* a behaviour moves one of them, a step of the others keeps it.           *)
(***************************************************************************)
EXTENDS MCPromises, TLAPS, WellFoundedInduction, FiniteSetTheorems

-----------------------------------------------------------------------------
(* A step of the suite is a step of one component and leaves the others.   *)

Step == Transfers(T!Next) \/ Batches(B!Next) \/ Database(D!Next) \/ Access(A!Next)

LEMMA OneMoves ==
  ASSUME [Step]_vars
  PROVE  /\ UNCHANGED part
         /\ [T!Next]_(T!vars) /\ [B!Next]_(B!vars) /\ [D!Next]_(D!vars) /\ [A!Next]_(A!vars)
         /\ part # "transfers" => UNCHANGED T!vars
         /\ part # "batches" => UNCHANGED B!vars
         /\ part # "database" => UNCHANGED D!vars
         /\ part # "access" => UNCHANGED A!vars
<1>1. UNCHANGED transfersVars => UNCHANGED T!vars
  BY DEF transfersVars, T!vars, T!queueVars
<1>2. UNCHANGED batchesVars => UNCHANGED B!vars
  BY DEF batchesVars, B!vars, B!vmVars, B!agentVars, B!recordVars, B!treeVars, B!backupVars
<1>3. UNCHANGED databaseVars => UNCHANGED D!vars
  BY DEF databaseVars, D!vars, D!files, D!control, D!ghosts
<1>4. UNCHANGED accessVars => UNCHANGED A!vars
  BY DEF accessVars, A!vars
<1>5. QED BY <1>1, <1>2, <1>3, <1>4 DEF Step, Transfers, Batches, Database, Access, vars

-----------------------------------------------------------------------------
(* VaultAccess.  Inside the password form the remote already has the new   *)
(* key while the keychain has the old one; that they agree again when the  *)
(* form ends rests on what the form remembers.                             *)

ConfigType == [folder : A!Folders \cup {"none"}, key : Keys \cup {"none"}]
FormType   == [at : {"idle", "create", "validate", "layout", "waiting", "marker", "store"},
               key : Keys \cup {"none"}, mode : {"backup", "access"},
               config : ConfigType, keychain : Keys \cup {"none"}]

AccessTyped ==
  /\ config \in ConfigType /\ form \in FormType
  /\ config.folder = "none" <=> config.key = "none"
  /\ form.config.folder = "none" <=> form.config.key = "none"
  /\ form.at = "idle" <=> form = A!NoForm
  /\ form.at # "idle" => form.key \in Keys
  /\ form.at \notin {"idle", "create"} => config.folder # "none"
  /\ layout # "off" => config.folder # "none" /\ form.at \in {"idle", "waiting"}
  /\ keychain \in Keys \cup {"none"} /\ setup \in BOOLEAN
  /\ keysHeld \in [A!Folders -> SUBSET Keys]
  /\ layout \in {"off", "check", "move", "repoint", "legacy", "previous"}
  /\ tornConfig \in BOOLEAN /\ faults \in 0 .. MaxFaults /\ commands \in 0 .. MaxCommands

\* Past its first step the form has made the remote with its key, and it
\* holds what was before.
FormRemembers ==
  /\ form.at \notin {"idle", "create"} => config.key = form.key
  /\ form.at # "idle" /\ ~tornConfig => form.config.key = form.keychain /\ form.keychain = keychain

AccessInv == AccessTyped /\ A!ConfigAndKeyAgree /\ FormRemembers

LEMMA AccessInit == A!AccessAssumption /\ A!Init => AccessInv
<1> SUFFICES ASSUME A!AccessAssumption, A!Init PROVE AccessInv
  OBVIOUS
<1>1. /\ A!NoForm.at = "idle" /\ A!NoForm.config = A!NoConfig /\ A!NoForm \in FormType
      /\ A!NoConfig.folder = "none" /\ A!NoConfig.key = "none" /\ A!NoConfig \in ConfigType
  BY DEF A!NoForm, A!NoConfig, A!None, FormType, ConfigType
<1>2. keysHeld \in [A!Folders -> SUBSET Keys]
  BY DEF A!Init, A!AccessAssumption
<1>3. AccessTyped
  <2>1. config = A!NoConfig /\ form = A!NoForm /\ keychain = "none" /\ layout = "off"
        /\ setup = FALSE /\ tornConfig = FALSE /\ faults = 0 /\ commands = 0
    BY DEF A!Init, A!None
  <2>2. MaxFaults \in Nat /\ MaxCommands \in Nat
    BY DEF A!AccessAssumption
  <2>3. form \in FormType /\ config \in ConfigType
    BY <1>1, <2>1
  <2>4. 0 \in 0 .. MaxFaults /\ 0 \in 0 .. MaxCommands
    BY <2>2
  <2>5. QED BY <1>1, <1>2, <2>1, <2>3, <2>4 DEF AccessTyped
<1>4. QED BY <1>1, <1>3 DEF AccessInv, A!Init, FormRemembers, A!ConfigAndKeyAgree, A!None

\* The form makes the remote, and puts back what was there when it fails.
LEMMA FormKeepsAccess ==
  ASSUME A!AccessAssumption, AccessInv, A!SetCryptPassword \/ A!FormStep
  PROVE  AccessInv'
<1> USE DEF A!AccessAssumption, A!None, ConfigType, FormType, AccessInv, AccessTyped, FormRemembers,
            A!ConfigAndKeyAgree
<1>f. A!NoForm.at = "idle" /\ A!NoForm.config = A!NoConfig /\ A!NoForm \in FormType
      /\ A!NoConfig.folder = "none" /\ A!NoConfig.key = "none" /\ A!NoForm.key = "none"
  BY DEF A!NoForm, A!NoConfig
<1>c. /\ A!Command => commands' \in 0 .. MaxCommands
      /\ \A ok \in BOOLEAN : A!Ok(ok) => faults' \in 0 .. MaxFaults
      /\ A!Fault => faults' \in 0 .. MaxFaults
  BY DEF A!Command, A!Ok, A!Fault, A!NoFault
<1>1. CASE A!SetCryptPassword
  <2>1. PICK k \in Keys, m \in {"backup", "access"}, read \in BOOLEAN :
          /\ A!Ok(read)
          /\ form' = [at |-> "create", key |-> k, mode |-> m, config |-> config,
                      keychain |-> IF read THEN keychain ELSE "none"]
          /\ tornConfig' = (tornConfig \/ ~read)
    BY <1>1 DEF A!SetCryptPassword
  <2>2. form'.at = "create" /\ form' \in FormType /\ form'.config = config /\ form'.key \in Keys
        /\ (~tornConfig' => form'.keychain = keychain)
    BY <2>1
  <2>3. faults' \in 0 .. MaxFaults
    BY <1>c, <2>1
  <2>4. QED BY <1>1, <1>c, <1>f, <2>1, <2>2, <2>3 DEF A!SetCryptPassword
<1>2. CASE A!CreateCryptRemote
  <2>1. config' \in ConfigType /\ config'.folder \in A!Folders /\ config'.key = form.key
        /\ form.key \in Keys
    BY <1>2 DEF A!CreateCryptRemote, A!DetectEncryptedFolder, A!Configured, A!Folders
  <2>2. form'.at \in {"validate", "layout"} /\ form' \in FormType
        /\ form'.config = form.config /\ form'.keychain = form.keychain /\ form'.key = form.key
    BY <1>2 DEF A!CreateCryptRemote
  <2>3. "none" \notin A!Folders /\ faults' \in 0 .. MaxFaults
    BY <1>2, <1>c DEF A!Folders, A!CreateCryptRemote
  <2>4. QED BY <1>2, <1>f, <2>1, <2>2, <2>3 DEF A!CreateCryptRemote
<1>p. ASSUME NEW at \in {"layout", "waiting", "marker", "store"}, form' = [form EXCEPT !.at = at],
             form.at \notin {"idle", "create"}, UNCHANGED <<config, keychain, keysHeld, commands, tornConfig>>,
             setup' \in BOOLEAN, layout' \in {layout, "check"}, layout' # "off" => at = "waiting",
             faults' \in 0 .. MaxFaults
      PROVE  AccessInv'
  <2>1. /\ form' \in FormType /\ form'.at = at
        /\ form'.config = form.config /\ form'.keychain = form.keychain /\ form'.key = form.key
    BY <1>p
  <2>2. QED BY <1>f, <1>p, <2>1
<1>3. CASE A!ValidateExistingVaultAccess \/ A!StartLayout \/ A!LayoutTried
  <2>1. CASE A!ValidateExistingVaultAccess
    <3>1. layout = "off" /\ layout' = layout /\ faults' \in 0 .. MaxFaults
      BY <1>c, <2>1 DEF A!ValidateExistingVaultAccess
    <3>2. QED BY <1>p, <2>1, <3>1 DEF A!ValidateExistingVaultAccess
  <2>2. CASE A!StartLayout
    BY <1>p, <2>2 DEF A!StartLayout
  <2>3. CASE A!LayoutTried
    BY <1>p, <2>3 DEF A!LayoutTried
  <2>4. QED BY <1>3, <2>1, <2>2, <2>3
<1>4. CASE A!EnsureVaultMarker
  <2>1. form'.at = "store" /\ form' \in FormType /\ form.at = "marker"
        /\ form'.config = form.config /\ form'.keychain = form.keychain /\ form'.key = form.key
    BY <1>4 DEF A!EnsureVaultMarker
  <2>2. keysHeld' \in [A!Folders -> SUBSET Keys]
    BY <1>4 DEF A!EnsureVaultMarker
  <2>3. QED BY <1>4, <1>f, <2>1, <2>2 DEF A!EnsureVaultMarker
<1>5. CASE A!SetPassword
  BY <1>5, <1>f DEF A!SetPassword
<1>6. CASE A!PasswordError
  <2>1. PICK key \in BOOLEAN, remote \in BOOLEAN :
          /\ faults' = faults + A!Cost(form.at = "validate") + A!Cost(key) + A!Cost(remote)
          /\ faults' <= MaxFaults
          /\ keychain' = IF key THEN form.keychain ELSE keychain
          /\ IF remote THEN config' = A!PreviousConfig ELSE config' \in A!Midway
          /\ tornConfig' = (tornConfig \/ ~remote)
    BY <1>6 DEF A!PasswordError
  <2>3. faults' \in 0 .. MaxFaults
    BY <2>1 DEF A!Cost
  <2>4. config' \in {config, A!NoConfig, form.config}
    BY <2>1 DEF A!Midway, A!PreviousConfig
  <2>5. form.at \notin {"idle", "waiting"} /\ layout = "off"
    BY <1>6 DEF A!PasswordError, A!Refused
  <2>6. tornConfig' = FALSE => config' = form.config /\ keychain' = keychain /\ ~tornConfig
    BY <2>1, <2>5 DEF A!PreviousConfig
  <2>7. keychain' \in Keys \cup {"none"} /\ tornConfig' \in BOOLEAN
    BY <2>1
  <2>8. QED BY <1>6, <1>f, <2>3, <2>4, <2>5, <2>6, <2>7 DEF A!PasswordError
<1>7. QED BY <1>1, <1>2, <1>3, <1>4, <1>5, <1>6 DEF A!FormStep

\* Moving folders changes the folder of the remote, never its key.
LEMMA LayoutKeepsAccess ==
  ASSUME A!AccessAssumption, AccessInv,
         A!Disconnect \/ A!Launch \/ A!LayoutStep \/ A!OtherPCWrites \/ A!Crash
  PROVE  AccessInv'
<1> USE DEF A!AccessAssumption, A!None, ConfigType, FormType, AccessInv, AccessTyped, FormRemembers,
            A!ConfigAndKeyAgree
<1>f. A!NoForm.at = "idle" /\ A!NoForm.config = A!NoConfig /\ A!NoForm \in FormType
      /\ A!NoConfig.folder = "none" /\ A!NoConfig.key = "none" /\ A!NoConfig \in ConfigType
  BY DEF A!NoForm, A!NoConfig
<1>c. /\ A!Command => commands' \in 0 .. MaxCommands
      /\ \A ok \in BOOLEAN : A!Ok(ok) => faults' \in 0 .. MaxFaults
      /\ A!Fault => faults' \in 0 .. MaxFaults
      /\ A!NoFault => faults' \in 0 .. MaxFaults
  BY DEF A!Command, A!Ok, A!Fault, A!NoFault
<1>n. "none" \notin A!Folders /\ "unified" \in A!Folders
  BY DEF A!Folders
<1>1. CASE A!Disconnect
  <2>1. PICK deleted \in BOOLEAN, done \in BOOLEAN :
          /\ A!Ok(deleted /\ done)
          /\ config' = IF deleted THEN A!NoConfig ELSE config
          /\ keychain' = IF done THEN "none" ELSE keychain
          /\ setup' = ~done
          /\ tornConfig' = ~(deleted /\ done)
    BY <1>1 DEF A!Disconnect
  <2>2. faults' \in 0 .. MaxFaults
    BY <1>c, <2>1
  <2>3. form' = form /\ form.at = "idle" /\ commands' \in 0 .. MaxCommands /\ layout = "off"
    BY <1>1, <1>c, <1>f DEF A!Disconnect
  <2>4. QED BY <1>1, <1>f, <2>1, <2>2, <2>3 DEF A!Disconnect
<1>2. CASE A!Launch
  <2>1. config.folder # "none"
    BY <1>2 DEF A!Launch, A!NoConfig
  <2>2. QED BY <1>2, <1>f, <2>1 DEF A!Launch
<1>3. CASE A!CheckRoots
  <2>1. layout' \in {"off", "legacy", "move", "repoint"} /\ layout # "off"
    BY <1>3 DEF A!CheckRoots
  <2>2. faults' \in 0 .. MaxFaults
    BY <1>3, <1>c DEF A!CheckRoots
  <2>3. QED BY <1>3, <2>1, <2>2 DEF A!CheckRoots
<1>4. ASSUME NEW f, NEW next \in {"off", "legacy", "previous", "repoint"},
             A!MoveRawTreeInto(f, next), layout # "off",
             UNCHANGED <<config, keychain, setup, form, commands, tornConfig>>, f \in A!Folders
      PROVE  AccessInv'
  <2>1. keysHeld[f] \subseteq Keys /\ keysHeld["unified"] \subseteq Keys
    BY <1>4, <1>n
  <2>2. keysHeld' \in [A!Folders -> SUBSET Keys]
    BY <1>4, <2>1 DEF A!MoveRawTreeInto, A!Moved
  <2>3. faults' \in 0 .. MaxFaults /\ layout' \in {"off", next}
    BY <1>4, <1>c DEF A!MoveRawTreeInto
  <2>4. QED BY <1>4, <2>2, <2>3
<1>5. CASE A!MoveEncryptedRoot
  <2>1. config.folder \in A!Folders /\ layout # "off"
    BY <1>5 DEF A!MoveEncryptedRoot
  <2>2. QED BY <1>4, <1>5, <2>1 DEF A!MoveEncryptedRoot
<1>6. CASE A!RepointRemote
  <2>1. config'.folder = "unified" /\ config'.key = config.key /\ config' \in ConfigType
    BY <1>6, <1>n DEF A!RepointRemote
  <2>2. QED BY <1>6, <1>n, <2>1 DEF A!RepointRemote
<1>7. CASE A!MoveKnownRoot
  BY <1>4, <1>7 DEF A!MoveKnownRoot, A!KnownRoots, A!AfterRoot, A!Folders
<1>8. CASE A!OtherPCWrites
  <2>1. keysHeld' \in [A!Folders -> SUBSET Keys]
    BY <1>8 DEF A!OtherPCWrites, A!Others, A!Folders
  <2>2. QED BY <1>8, <1>c, <2>1 DEF A!OtherPCWrites
<1>9. CASE A!Crash
  <2>1. form'.at = "idle" /\ form' = A!NoForm /\ tornConfig' \in BOOLEAN
        /\ (tornConfig' = FALSE => ~tornConfig /\ form = A!NoForm /\ config' = config)
        /\ config' \in {config, A!NoConfig}
    BY <1>9, <1>f DEF A!Crash, A!Midway
  <2>2. QED BY <1>9, <1>f, <1>c, <2>1 DEF A!Crash
<1>10. QED BY <1>1, <1>2, <1>3, <1>5, <1>6, <1>7, <1>8, <1>9 DEF A!LayoutStep

LEMMA AccessStep == A!AccessAssumption /\ AccessInv /\ [A!Next]_(A!vars) => AccessInv'
<1>1. A!AccessAssumption /\ AccessInv /\ A!Next => AccessInv'
  BY FormKeepsAccess, LayoutKeepsAccess DEF A!Next
<1>2. AccessInv /\ UNCHANGED A!vars => AccessInv'
  BY DEF A!vars, AccessInv, AccessTyped, FormRemembers, A!ConfigAndKeyAgree
<1>3. QED BY <1>1, <1>2

\* Between two attempts the remote decrypts with the password in the keychain,
\* for any keys, wherever calls fail or the program ends.
THEOREM AttemptsRestore == Spec => []ConfigAndKeyAgree
<1>1. Init => AccessInv
  BY PromisesAssumption, AccessInit DEF Init
<1>2. AccessInv /\ [Step]_vars => AccessInv'
  BY PromisesAssumption, AccessStep, OneMoves
<1>3. AccessInv => ConfigAndKeyAgree
  BY DEF AccessInv, ConfigAndKeyAgree
<1>4. QED BY <1>1, <1>2, <1>3, PTL DEF Spec, Step

-----------------------------------------------------------------------------
(* DatabasePersistence.  The proofs leave out two faults: a sync that      *)
(* fails unseen with a loss of power, and a save that fails while loading  *)
(* and then works with less: with either, the file really loses mutations. *)

Reliable == ~({"fsync", "power"} \subseteq Faults) /\ ~({"load", "transient"} \subseteq Faults)

\* A loss of power leaves the file as it is.
Firm(file) == file.synced \/ "power" \notin Faults

WriterType == [mode : {"none", "sync", "load", "async"},
               step : {"idle", "copy", "write", "rename", "check", "debounce", "settled"},
               revision : 0 .. MaxRevision + 1, from : D!Revisions, try : 0 .. 3]

\* D!TypeOK, with the types named.
DatabaseTypes ==
  /\ data \in D!Revisions /\ up \in BOOLEAN
  /\ primary \in D!File /\ backup \in D!File /\ temp \in D!File
  /\ knownGood \in BOOLEAN /\ large \in BOOLEAN
  /\ requested \in 0 .. MaxRevision + 1 /\ persisted \in 0 .. MaxRevision + 1
  /\ timer \in BOOLEAN /\ error \in BOOLEAN /\ waiters \subseteq D!Revisions
  /\ writer \in WriterType
  /\ accepted \in D!Revisions /\ acked \in D!Revisions /\ reported \in BOOLEAN

Writing == writer.step \in {"copy", "write", "rename"}

\* A primary that was readable stays so; the .bak is in flux only beside it.
FilesFirm ==
  /\ Firm(primary)
  /\ ~primary.ok => Firm(backup)
  /\ knownGood => primary.ok
  /\ writer.step = "copy" => primary.ok
  /\ writer.step = "rename" => temp.ok /\ temp.doc = writer.from /\ Firm(temp)

\* Who may be writing, and that a synchronous database schedules nothing.
WriterShape ==
  /\ writer.mode = "none" => writer = D!Idle
  /\ writer.step = "idle" => writer = D!Idle
  /\ writer.mode \in {"sync", "load"} => Writing
  /\ writer.mode \in {"sync", "async"} => up
  /\ writer.mode = "load" => ~up
  /\ writer.mode # "load" => writer.try = 0
  /\ writer.try > 1 => "load" \in Faults
  /\ writer.mode = "async" => large
  /\ writer.mode \in {"sync", "load"} => ~large
  /\ timer => writer = D!Idle
  /\ ~up \/ ~large => requested = 0 /\ persisted = 0 /\ ~timer /\ ~error /\ waiters = {}

\* What is acknowledged, saved, being saved and in memory, in this order.
DocsOrdered ==
  /\ acked <= D!Recovered
  /\ up => D!Recovered <= data /\ accepted <= data /\ acked <= accepted /\ requested <= data + 1
  /\ Writing /\ writer.mode # "load" => D!Recovered <= writer.from /\ writer.from <= data
  /\ Writing /\ writer.mode = "sync" => writer.from = data
  /\ Writing /\ writer.mode = "load" /\ writer.try <= 1 =>
       writer.from = data /\ D!Recovered = data

\* A save of the last revision requested holds every mutation that was
\* accepted, and with it every mutation unless a caller was told.
RevisionsCount ==
  /\ persisted <= requested
  /\ up /\ persisted = requested => accepted <= D!Recovered
  /\ writer.mode = "async" /\ Writing =>
       /\ writer.revision <= requested
       /\ writer.revision = requested =>
            accepted <= writer.from /\ (reported \/ writer.from = data)
  /\ writer.step = "check" =>
       /\ primary.ok /\ primary.doc = writer.from /\ writer.from <= data
       /\ persisted = requested => reported \/ writer.from = data
  /\ writer.step = "settled" /\ persisted = requested /\ ~error /\ ~reported =>
       primary.ok /\ primary.doc = data
  /\ up /\ writer = D!Idle /\ ~timer /\ ~error /\ ~reported => primary.ok /\ primary.doc = data

\* Who waits, waits for something not yet acknowledged, and for the writer.
WaitersWait ==
  /\ waiters # {} => writer.mode = "async" /\ writer.step # "settled"
  /\ \A w \in waiters : acked <= w /\ w <= accepted

DatabaseInv ==
  DatabaseTypes /\ FilesFirm /\ WriterShape /\ DocsOrdered /\ RevisionsCount /\ WaitersWait

LEMMA DatabaseInit == D!RevisionAssumption /\ D!Init => DatabaseInv
<1> SUFFICES ASSUME D!RevisionAssumption, D!Init PROVE DatabaseInv
  OBVIOUS
<1>1. 0 \in D!Revisions /\ 0 \in 0 .. MaxRevision + 1
  BY DEF D!RevisionAssumption, D!Revisions
<1>2. D!Unreadable \in D!File /\ D!Good(0) \in D!File /\ D!Unreadable.doc = 0 /\ D!Good(0).doc = 0
      /\ D!Unreadable.synced /\ D!Good(0).synced
  BY <1>1 DEF D!Unreadable, D!Good, D!File
<1>3. /\ up = FALSE /\ timer = FALSE /\ error = FALSE /\ large = FALSE /\ knownGood = FALSE
      /\ requested = 0 /\ persisted = 0 /\ data = 0 /\ accepted = 0 /\ acked = 0 /\ waiters = {}
      /\ writer = D!Idle /\ reported = FALSE /\ temp = D!Unreadable
      /\ primary \in {D!Unreadable, D!Good(0)} /\ backup \in {D!Unreadable, D!Good(0)}
  BY DEF D!Init
<1>4. D!Recovered = 0 /\ primary \in D!File /\ backup \in D!File
      /\ primary.synced /\ backup.synced
  BY <1>2, <1>3 DEF D!Recovered, D!Source
<1>5. writer \in WriterType /\ writer.mode = "none" /\ writer.step = "idle" /\ writer.try = 0
  BY <1>1, <1>3 DEF D!Idle, WriterType
<1>6. DatabaseTypes
  BY <1>1, <1>2, <1>3, <1>4, <1>5 DEF DatabaseTypes
<1>7. QED
  BY <1>3, <1>4, <1>5, <1>6
  DEF DatabaseInv, FilesFirm, Firm, Writing, WriterShape, DocsOrdered, RevisionsCount, WaitersWait

LEMMA UnreadableFile ==
  ASSUME D!RevisionAssumption
  PROVE  /\ 0 \in D!Revisions /\ 0 \in 0 .. MaxRevision + 1 /\ 1 \in 0 .. MaxRevision + 1
         /\ D!Unreadable \in D!File /\ ~D!Unreadable.ok
         /\ D!Idle \in WriterType /\ D!Idle.mode = "none" /\ D!Idle.step = "idle" /\ D!Idle.try = 0
BY DEF D!RevisionAssumption, D!Revisions, D!Unreadable, D!File, D!Idle, WriterType

\* What a restart finds depends on the primary alone once that is readable.
LEMMA SameFiles ==
  ASSUME primary' = primary, backup' = backup \/ primary.ok
  PROVE  D!Recovered' = D!Recovered
BY DEF D!Recovered, D!Source

\* A save begins with the copy or with the write, and touches no readable primary.
LEMMA SaveBegins ==
  ASSUME DatabaseInv, D!RevisionAssumption, primary' = primary,
         NEW mode \in {"sync", "load", "async"}, NEW revision \in 0 .. MaxRevision + 1,
         NEW doc \in D!Revisions, NEW try \in 0 .. 3, NEW copies \in BOOLEAN,
         copies => primary.ok, D!Begin(mode, revision, try, doc, copies)
  PROVE  /\ writer' \in WriterType /\ writer' # D!Idle
         /\ writer'.mode = mode /\ writer'.step \in {"copy", "write"}
         /\ writer'.revision = revision /\ writer'.from = doc /\ writer'.try = try
         /\ writer'.step = "copy" => primary.ok
         /\ backup' \in D!File /\ (backup' = backup \/ primary.ok)
         /\ D!Recovered' = D!Recovered
<1>1. PICK copying \in BOOLEAN :
        /\ copying => copies
        /\ writer' = [mode |-> mode, step |-> IF copying THEN "copy" ELSE "write",
                      revision |-> revision, from |-> doc, try |-> try]
        /\ backup' = IF copying THEN D!Unreadable ELSE backup
  BY DEF D!Begin
<1>2. D!Unreadable \in D!File /\ backup \in D!File
  BY DEF D!Unreadable, D!File, D!Revisions, D!RevisionAssumption, DatabaseInv, DatabaseTypes
<1>3. backup' \in D!File /\ (backup' = backup \/ primary.ok)
  BY <1>1, <1>2
<1>4. writer'.mode = mode /\ writer'.step \in {"copy", "write"} /\ writer'.revision = revision
      /\ writer'.from = doc /\ writer'.try = try /\ (writer'.step = "copy" => copies)
  BY <1>1
<1>5. writer' \in WriterType
  BY <1>1 DEF WriterType
<1>6. writer' # D!Idle
  BY <1>4 DEF D!Idle
<1>7. QED BY <1>3, <1>4, <1>5, <1>6, SameFiles

\* A loss of power loses nothing that a restart would find.
LEMMA CrashIsSafe ==
  ASSUME D!RevisionAssumption, DatabaseInv, Reliable, D!Crash
  PROVE  /\ primary' = primary /\ backup' \in D!File /\ (backup' = backup \/ primary.ok)
         /\ D!Recovered' = D!Recovered
         /\ data' = D!Recovered /\ writer' = D!Idle /\ up' = FALSE
<1>1. D!Unreadable \in D!File /\ D!Unreadable.ok = FALSE
  BY UnreadableFile
<1>2. primary' = primary
  BY DEF D!Crash, D!Damaged, DatabaseInv, FilesFirm, Firm
<1>3. backup' \in D!File /\ (backup' = backup \/ primary.ok)
  BY <1>1 DEF D!Crash, D!Damaged, DatabaseInv, FilesFirm, Firm, DatabaseTypes
<1>4. QED BY <1>2, <1>3, SameFiles DEF D!Crash, D!Recovered, D!Source

LEMMA DatabaseTyped ==
  ASSUME DatabaseInv, D!RevisionAssumption
  PROVE  /\ MaxRevision \in Nat /\ D!Revisions \subseteq Nat
         /\ data \in D!Revisions /\ accepted \in D!Revisions /\ acked \in D!Revisions
         /\ requested \in Nat /\ persisted \in Nat /\ D!Recovered \in D!Revisions
         /\ writer \in WriterType /\ writer.from \in D!Revisions /\ writer.revision \in Nat
         /\ writer.revision \in 0 .. MaxRevision + 1
         /\ writer = D!Idle <=> writer.mode = "none"
         /\ writer = D!Idle <=> writer.step = "idle"
         /\ primary.doc \in D!Revisions /\ backup.doc \in D!Revisions /\ temp.doc \in D!Revisions
         /\ primary.ok \in BOOLEAN /\ backup.ok \in BOOLEAN
         /\ waiters \subseteq Nat
         /\ data \in Nat /\ accepted \in Nat /\ acked \in Nat /\ D!Recovered \in Nat
         /\ writer.from \in Nat
BY DEF D!RevisionAssumption, D!Revisions, DatabaseInv, DatabaseTypes, D!File, WriterType, WriterShape,
       D!Idle, D!Recovered, D!Source

LEMMA LoadKeepsDatabase ==
  ASSUME D!RevisionAssumption, Reliable, DatabaseInv, D!Start
  PROVE  DatabaseInv'
<1> USE DatabaseTyped, UnreadableFile
<1>1. /\ primary' = primary /\ temp' = temp /\ acked' = acked /\ writer = D!Idle /\ ~up
      /\ data' = D!Recovered /\ accepted' = data' /\ knownGood' = primary.ok
      /\ error' = FALSE /\ persisted' = 0 /\ waiters' = {} /\ reported' = FALSE
      /\ large' \in BOOLEAN
      /\ \/ primary.ok /\ up' = TRUE /\ requested' = 0 /\ timer' = FALSE
         \/ large' /\ up' = TRUE /\ requested' = 1 /\ timer' = TRUE
         \/ ~large' /\ up' = FALSE /\ requested' = 0 /\ timer' = FALSE
  BY DEF D!Start
<1>2. \/ up' /\ writer' = D!Idle /\ backup' = backup
      \/ /\ ~up' /\ ~large' /\ timer' = FALSE
         /\ writer'.mode = "load" /\ writer'.step \in {"copy", "write"} /\ writer'.from = data'
         /\ backup' \in D!File /\ (backup' = backup \/ primary.ok) /\ writer' \in WriterType
         /\ (writer'.step = "copy" => primary.ok) /\ writer'.try \in {0, 1}
  <2>1. CASE primary.ok /\ up'
    BY <1>1, <2>1 DEF D!Start
  <2>2. CASE ~(primary.ok /\ up') /\ large'
    BY <1>1, <2>2 DEF D!Start
  <2>3. CASE ~(primary.ok /\ up') /\ ~large'
    <3>1. D!BeginSync("load", IF D!Source.ok THEN 1 ELSE 0, data') /\ ~up' /\ ~timer'
      BY <2>3, <1>1 DEF D!Start
    <3>2. D!Begin("load", 0, IF D!Source.ok THEN 1 ELSE 0, data', primary.ok)
      BY <3>1 DEF D!BeginSync
    <3>3. QED BY <1>1, <2>3, <3>1, <3>2, SaveBegins
  <2>4. QED BY <2>1, <2>2, <2>3, <1>1
<1>3. D!Recovered' = D!Recovered /\ backup' \in D!File /\ (backup' = backup \/ primary.ok)
  BY <1>1, <1>2, SameFiles DEF DatabaseInv, DatabaseTypes
<1>4. writer' \in WriterType /\ (writer' = D!Idle => writer'.mode = "none" /\ writer'.step = "idle" /\ writer'.try = 0)
  BY <1>1, <1>2
<1>5. DatabaseTypes'
  BY <1>1, <1>3, <1>4 DEF DatabaseTypes, DatabaseInv
<1>6. FilesFirm' /\ WriterShape'
  BY <1>1, <1>2, <1>3, <1>4 DEF FilesFirm, Firm, WriterShape, Writing, DatabaseInv
<1>7. DocsOrdered'
  BY <1>1, <1>2, <1>3, <1>4 DEF DocsOrdered, Writing, DatabaseInv
<1>8. RevisionsCount'
  <2>1. primary.ok => primary.doc = D!Recovered
    BY DEF D!Recovered, D!Source
  <2>2. QED BY <2>1, <1>1, <1>2, <1>3, <1>4 DEF RevisionsCount, Writing
<1>9. QED BY <1>1, <1>5, <1>6, <1>7, <1>8 DEF WaitersWait, DatabaseInv

LEMMA CrashKeepsDatabase ==
  ASSUME D!RevisionAssumption, Reliable, DatabaseInv, D!Crash
  PROVE  DatabaseInv'
<1> USE DatabaseTyped, UnreadableFile, CrashIsSafe
<1>1. writer'.mode = "none" /\ writer'.step = "idle" /\ writer'.try = 0 /\ writer' \in WriterType
  OBVIOUS
<1>3. /\ temp' = D!Unreadable /\ UNCHANGED <<knownGood, large, accepted, acked, reported>>
      /\ ~timer' /\ ~error' /\ waiters' = {} /\ requested' = 0 /\ persisted' = 0
      /\ timer' \in BOOLEAN /\ error' \in BOOLEAN
  BY DEF D!Crash, D!ghosts
<1>4. DatabaseTypes'
  BY <1>1, <1>3 DEF DatabaseTypes, DatabaseInv
<1>5. FilesFirm'
  BY <1>1, <1>3 DEF FilesFirm, Firm, DatabaseInv
<1>e. WriterShape'
  BY <1>1, <1>3 DEF WriterShape, Writing
<1>6. DocsOrdered'
  BY <1>1, <1>3 DEF DocsOrdered, Writing, DatabaseInv
<1>7. RevisionsCount' /\ WaitersWait'
  BY <1>1, <1>3 DEF RevisionsCount, WaitersWait, Writing
<1>8. QED BY <1>4, <1>5, <1>e, <1>6, <1>7 DEF DatabaseInv

\* The asynchronous writer begins a pass, whoever starts it.
LEMMA PassKeepsDatabase ==
  ASSUME D!RevisionAssumption, DatabaseInv, up, large, ~Writing, D!BeginAsync, timer' = FALSE,
         UNCHANGED <<data, up, primary, temp, knownGood, large, requested, persisted, error,
                     accepted, acked, reported>>,
         waiters' \subseteq waiters \cup {accepted}
  PROVE  DatabaseInv'
<1> USE DatabaseTyped, UnreadableFile
<1>1. D!Begin("async", requested, 0, data, knownGood) /\ requested \in 0 .. MaxRevision + 1
      /\ knownGood \in BOOLEAN /\ (knownGood => primary.ok)
  BY DEF D!BeginAsync, DatabaseInv, DatabaseTypes, FilesFirm
<1>2. /\ writer' \in WriterType /\ writer' # D!Idle
      /\ writer'.mode = "async" /\ writer'.step \in {"copy", "write"}
      /\ writer'.revision = requested /\ writer'.from = data /\ writer'.try = 0
      /\ (writer'.step = "copy" => primary.ok)
      /\ backup' \in D!File /\ (backup' = backup \/ primary.ok)
      /\ D!Recovered' = D!Recovered
  BY <1>1, SaveBegins
<1>3. DatabaseTypes'
  BY <1>2 DEF DatabaseTypes, DatabaseInv
<1>4. FilesFirm'
  BY <1>1, <1>2 DEF FilesFirm, Firm, DatabaseInv
<1>w. WriterShape'
  BY <1>2 DEF WriterShape, Writing, DatabaseInv
<1>5. DocsOrdered'
  BY <1>2 DEF DocsOrdered, Writing, DatabaseInv
<1>6. RevisionsCount'
  BY <1>2 DEF RevisionsCount, DocsOrdered, Writing, DatabaseInv
<1>7. WaitersWait'
  BY <1>2 DEF WaitersWait, DocsOrdered, DatabaseInv
<1>8. QED BY <1>3, <1>4, <1>w, <1>5, <1>6, <1>7 DEF DatabaseInv

\* A mutation of a small database saves at once; of a large one it requests a
\* save or, after a failure, throws it.
LEMMA MutateKeepsDatabase ==
  ASSUME D!RevisionAssumption, DatabaseInv, D!Mutate
  PROVE  DatabaseInv'
<1> USE DatabaseTyped, UnreadableFile
<1>1. /\ up /\ writer.mode \in {"none", "async"} /\ data < MaxRevision /\ data' = data + 1
      /\ UNCHANGED <<up, primary, temp, knownGood, large, persisted, waiters, acked>>
  BY DEF D!Mutate, D!Blocked, WriterType
<1>a. data' \in D!Revisions /\ data' \in Nat
  BY <1>1 DEF D!Revisions
<1>b. writer.mode = "none" => ~Writing /\ writer.step = "idle"
  BY DEF D!Idle, Writing
<1>2. requested + 1 \in 0 .. MaxRevision + 1
  BY <1>1 DEF DatabaseInv, DocsOrdered, D!Revisions, D!RevisionAssumption
<1>3. CASE error /\ error' = FALSE /\ reported' = TRUE
           /\ UNCHANGED <<writer, backup, requested, timer, accepted>>
  <2>1. D!Recovered' = D!Recovered /\ large
    BY <1>1, <1>a, <1>b, <1>3, SameFiles DEF DatabaseInv, WriterShape
  <2>2. DatabaseTypes' /\ FilesFirm' /\ WriterShape'
    BY <1>1, <1>a, <1>b, <1>3 DEF DatabaseInv, DatabaseTypes, FilesFirm, Firm, WriterShape, Writing
  <2>3. DocsOrdered'
    BY <1>1, <1>a, <1>b, <1>3, <2>1 DEF DatabaseInv, DocsOrdered, Writing, WriterShape
  <2>4. RevisionsCount'
    BY <1>1, <1>a, <1>b, <1>3, <2>1 DEF DatabaseInv, RevisionsCount, Writing, D!Revisions
  <2>5. WaitersWait'
    BY <1>1, <1>a, <1>b, <1>3 DEF DatabaseInv, WaitersWait
  <2>6. QED BY <2>2, <2>3, <2>4, <2>5 DEF DatabaseInv
<1>4. CASE /\ ~error /\ large
           /\ requested' = requested + 1 /\ accepted' = data'
           /\ timer' = (timer \/ writer = D!Idle)
           /\ UNCHANGED <<writer, backup, error, reported>>
  <2>1. D!Recovered' = D!Recovered
    BY <1>1, <1>a, <1>b, <1>4, SameFiles
  <2>2. DatabaseTypes'
    BY <1>1, <1>a, <1>b, <1>2, <1>4 DEF DatabaseInv, DatabaseTypes
  <2>3. FilesFirm' /\ WriterShape'
    BY <1>1, <1>a, <1>b, <1>4 DEF DatabaseInv, FilesFirm, Firm, WriterShape, Writing
  <2>4. DocsOrdered'
    BY <1>1, <1>a, <1>b, <1>4, <2>1 DEF DatabaseInv, DocsOrdered, Writing, WriterShape
  <2>5. RevisionsCount'
    <3>1. persisted' < requested'
      BY <1>1, <1>4 DEF DatabaseInv, RevisionsCount
    <3>2. writer' = D!Idle => timer'
      BY <1>4, Zenon
    <3>3. QED
      BY <1>1, <1>a, <1>b, <1>4, <2>1, <3>1, <3>2 DEF DatabaseInv, RevisionsCount, Writing
  <2>6. WaitersWait'
    BY <1>1, <1>a, <1>b, <1>4 DEF DatabaseInv, WaitersWait, DocsOrdered
  <2>7. QED BY <2>2, <2>3, <2>4, <2>5, <2>6 DEF DatabaseInv
<1>5. CASE /\ ~error /\ ~large /\ D!BeginSync("sync", 0, data')
           /\ UNCHANGED <<requested, timer, error, accepted, reported>>
  <2>1. writer = D!Idle
    BY <1>1, <1>a, <1>b, <1>5 DEF DatabaseInv, WriterShape
  <2>2. D!Begin("sync", 0, 0, data', primary.ok)
    BY <1>5 DEF D!BeginSync
  <2>3. /\ writer' \in WriterType /\ writer' # D!Idle
        /\ writer'.mode = "sync" /\ writer'.step \in {"copy", "write"}
        /\ writer'.from = data' /\ writer'.try = 0 /\ (writer'.step = "copy" => primary.ok)
        /\ backup' \in D!File /\ (backup' = backup \/ primary.ok)
        /\ D!Recovered' = D!Recovered
    BY <1>1, <1>a, <2>2, SaveBegins
  <2>4. DatabaseTypes'
    BY <1>1, <1>a, <1>b, <1>5, <2>3 DEF DatabaseInv, DatabaseTypes
  <2>5. FilesFirm' /\ WriterShape'
    BY <1>1, <1>a, <1>b, <1>5, <2>3 DEF DatabaseInv, FilesFirm, Firm, WriterShape, Writing
  <2>6. DocsOrdered'
    BY <1>1, <1>a, <1>b, <1>5, <2>3 DEF DatabaseInv, DocsOrdered, Writing, WriterShape
  <2>7. RevisionsCount' /\ WaitersWait'
    BY <1>1, <1>a, <1>b, <1>5, <2>1, <2>3 DEF DatabaseInv, RevisionsCount, WaitersWait, Writing, WriterShape
  <2>8. QED BY <2>4, <2>5, <2>6, <2>7 DEF DatabaseInv
<1>6. QED BY <1>3, <1>4, <1>5 DEF D!Mutate

LEMMA FlushKeepsDatabase ==
  ASSUME D!RevisionAssumption, DatabaseInv, D!Flush
  PROVE  DatabaseInv' /\ acked <= acked'
<1> USE DatabaseTyped, UnreadableFile
<1>1. /\ up /\ writer.mode \in {"none", "async"} /\ writer.step # "settled"
      /\ UNCHANGED <<data, up, primary, temp, knownGood, large, requested, persisted, error,
                     accepted, reported>>
  BY DEF D!Flush, D!Blocked, WriterType
<1>2. CASE (~large \/ (D!Settled /\ ~error)) /\ acked' = accepted
           /\ UNCHANGED <<writer, backup, timer, waiters>>
  <2>1. D!Recovered' = D!Recovered /\ waiters = {} /\ accepted <= D!Recovered
    <3>1. CASE ~large
      BY <1>1, <1>2, <3>1, SameFiles DEF DatabaseInv, WriterShape, RevisionsCount
    <3>2. CASE D!Settled
      BY <1>1, <1>2, <3>2, SameFiles
      DEF D!Settled, DatabaseInv, WaitersWait, RevisionsCount
    <3>3. QED BY <1>2, <3>1, <3>2
  <2>2. DatabaseTypes' /\ FilesFirm' /\ WriterShape'
    BY <1>1, <1>2 DEF DatabaseInv, DatabaseTypes, FilesFirm, Firm, WriterShape, Writing
  <2>3. DocsOrdered'
    BY <1>1, <1>2, <2>1 DEF DatabaseInv, DocsOrdered, Writing
  <2>4. RevisionsCount' /\ WaitersWait'
    BY <1>1, <1>2, <2>1 DEF DatabaseInv, RevisionsCount, WaitersWait, Writing
  <2>5. QED BY <1>1, <1>2, <2>2, <2>3, <2>4 DEF DatabaseInv, DocsOrdered
<1>3. CASE large /\ waiters' = waiters \cup {accepted} /\ acked' = acked
           /\ writer = D!Idle /\ timer' = FALSE /\ D!BeginAsync
  <2>1. DatabaseInv'
    BY <1>1, <1>3, PassKeepsDatabase DEF Writing
  <2>2. acked <= acked'
    BY <1>3 DEF DatabaseInv, DocsOrdered
  <2>3. QED BY <2>1, <2>2
<1>4. CASE large /\ waiters' = waiters \cup {accepted} /\ acked' = acked
           /\ writer # D!Idle /\ UNCHANGED <<writer, backup, timer>>
  <2>1. D!Recovered' = D!Recovered /\ writer.mode = "async"
    BY <1>1, <1>4, SameFiles
  <2>2. DatabaseTypes' /\ FilesFirm' /\ WriterShape'
    BY <1>1, <1>4 DEF DatabaseInv, DatabaseTypes, FilesFirm, Firm, WriterShape, Writing
  <2>3. DocsOrdered'
    BY <1>1, <1>4, <2>1 DEF DatabaseInv, DocsOrdered, Writing
  <2>4. RevisionsCount'
    BY <1>1, <1>4, <2>1 DEF DatabaseInv, RevisionsCount, Writing
  <2>5. WaitersWait'
    BY <1>1, <1>4, <2>1 DEF DatabaseInv, WaitersWait, DocsOrdered
  <2>6. QED BY <1>4, <2>2, <2>3, <2>4, <2>5 DEF DatabaseInv
<1>5. QED BY <1>2, <1>3, <1>4 DEF D!Flush

\* The steps of a save before the rename.
LEMMA SavingKeepsDatabase ==
  ASSUME D!RevisionAssumption, Reliable, DatabaseInv, D!Copy \/ D!Write
  PROVE  DatabaseInv'
<1> USE DatabaseTyped, UnreadableFile
<1>1. CASE D!Copy
  <2>1. /\ writer.step = "copy" /\ writer' = [writer EXCEPT !.step = "write", !.from = data]
        /\ (backup' = [primary EXCEPT !.synced = FALSE] \/ backup' = backup)
        /\ UNCHANGED <<data, up, primary, temp, knownGood, large, requested, persisted, timer,
                       error, waiters, accepted, acked, reported>>
    BY <1>1 DEF D!Copy, D!control, D!ghosts
  <2>2. primary.ok
    BY <2>1 DEF DatabaseInv, FilesFirm
  <2>3. backup' \in D!File /\ D!Recovered' = D!Recovered
    BY <2>1, <2>2, SameFiles DEF DatabaseInv, DatabaseTypes, D!File
  <2>4. /\ writer' \in WriterType /\ writer'.step = "write" /\ writer'.from = data
        /\ writer'.mode = writer.mode /\ writer'.try = writer.try
        /\ writer'.revision = writer.revision /\ writer'.mode # "none" /\ writer' # D!Idle
    <3>1. writer' \in WriterType
      BY <2>1 DEF WriterType
    <3>2. QED BY <2>1, <3>1 DEF WriterType
  <2>5. DatabaseTypes'
    BY <2>1, <2>3, <2>4 DEF DatabaseInv, DatabaseTypes
  <2>6. FilesFirm' /\ WriterShape'
    BY <2>1, <2>2, <2>4 DEF DatabaseInv, FilesFirm, Firm, WriterShape, Writing
  <2>7. DocsOrdered'
    BY <2>1, <2>3, <2>4 DEF DatabaseInv, DocsOrdered, WriterShape, Writing
  <2>8. RevisionsCount'
    BY <2>1, <2>3, <2>4 DEF DatabaseInv, RevisionsCount, DocsOrdered, WriterShape, Writing
  <2>9. WaitersWait'
    BY <2>1, <2>4 DEF DatabaseInv, WaitersWait
  <2>10. QED BY <2>5, <2>6, <2>7, <2>8, <2>9 DEF DatabaseInv
<1>2. CASE D!Write
  <2>1. PICK synced \in BOOLEAN :
          /\ synced \/ "fsync" \in Faults
          /\ temp' = [D!Good(writer.from) EXCEPT !.synced = synced]
    BY <1>2 DEF D!Write
  <2>2. /\ writer.step = "write" /\ writer' = [writer EXCEPT !.step = "rename"]
        /\ UNCHANGED <<data, up, primary, backup, knownGood, large, requested, persisted, timer,
                       error, waiters, accepted, acked, reported>>
    BY <1>2 DEF D!Write, D!control, D!ghosts
  <2>3. temp' \in D!File /\ temp'.ok /\ temp'.doc = writer.from /\ Firm(temp')
    BY <2>1 DEF D!Good, D!File, Firm, Reliable
  <2>4. /\ writer' \in WriterType /\ writer'.step = "rename" /\ writer'.from = writer.from
        /\ writer'.mode = writer.mode /\ writer'.try = writer.try
        /\ writer'.revision = writer.revision /\ writer'.mode # "none" /\ writer' # D!Idle
    <3>1. writer' \in WriterType
      BY <2>2 DEF WriterType
    <3>2. QED BY <2>2, <3>1 DEF WriterType
  <2>5. D!Recovered' = D!Recovered
    BY <2>2, SameFiles
  <2>6. DatabaseTypes'
    BY <2>2, <2>3, <2>4 DEF DatabaseInv, DatabaseTypes
  <2>7. FilesFirm' /\ WriterShape'
    <3>1. Firm(temp)'
      BY <2>3 DEF Firm
    <3>2. QED BY <2>2, <2>3, <2>4, <3>1 DEF DatabaseInv, FilesFirm, Firm, WriterShape, Writing
  <2>8. DocsOrdered'
    BY <2>2, <2>5, <2>4 DEF DatabaseInv, DocsOrdered, Writing
  <2>9. RevisionsCount' /\ WaitersWait'
    BY <2>2, <2>5, <2>4 DEF DatabaseInv, RevisionsCount, WaitersWait, Writing
  <2>10. QED BY <2>6, <2>7, <2>8, <2>9 DEF DatabaseInv
<1>3. QED BY <1>1, <1>2

\* A save that is renamed into place is no older than what was there.
LEMMA RenameKeepsDatabase ==
  ASSUME D!RevisionAssumption, Reliable, D!FaultsAssumption, DatabaseInv, D!Rename
  PROVE  /\ DatabaseInv'
         /\ D!Recovered <= D!Recovered' /\ acked' = acked /\ data' = data
         /\ up' = TRUE /\ (~up => D!Recovered' = D!Recovered /\ data = D!Recovered)
<1> USE DatabaseTyped, UnreadableFile
<1>1. /\ writer.step = "rename" /\ (writer.try > 1 => "transient" \in Faults)
      /\ primary' = temp /\ temp' = D!Unreadable /\ knownGood' = TRUE
      /\ UNCHANGED <<data, backup, requested, timer, error, waiters, acked>>
  BY DEF D!Rename
<1>2. temp.ok /\ temp.doc = writer.from /\ Firm(temp) /\ temp \in D!File /\ ~timer
  BY <1>1 DEF DatabaseInv, FilesFirm, DatabaseTypes, WriterShape
<1>3. D!Recovered' = writer.from
  BY <1>1, <1>2 DEF D!Recovered, D!Source
<1>4. CASE D!Blocked
  <2>1. writer' = D!Idle /\ up' = TRUE /\ accepted' = data /\ reported' = FALSE /\ large' \in {large, TRUE}
        /\ persisted' = persisted
    BY <1>4 DEF D!Rename
  <2>2. PICK m \in {"sync", "load"} : writer.mode = m
    BY <1>4 DEF D!Blocked
  <2>3. writer.from = data /\ D!Recovered <= data
    <3>1. CASE m = "sync"
      BY <1>1, <2>2, <3>1 DEF DatabaseInv, DocsOrdered, Writing
    <3>2. CASE m = "load"
      <4>1. ~(writer.try > 1)
        BY <1>1 DEF Reliable, DatabaseInv, WriterShape
      <4>2. writer.try <= 1
        BY <4>1 DEF WriterType
      <4>3. QED BY <1>1, <2>2, <3>2, <4>2 DEF DatabaseInv, DocsOrdered, Writing
    <3>3. QED BY <3>1, <3>2
  <2>4. DatabaseTypes'
    BY <1>1, <1>2, <2>1 DEF DatabaseInv, DatabaseTypes
  <2>5. acked <= D!Recovered /\ acked <= data /\ requested <= data + 1
    <3>1. up => requested <= data + 1
      BY DEF DatabaseInv, DocsOrdered
    <3>2. ~up => requested = 0
      BY DEF DatabaseInv, WriterShape
    <3>3. acked <= D!Recovered
      BY DEF DatabaseInv, DocsOrdered
    <3>4. QED BY <2>3, <3>1, <3>2, <3>3
  <2>6. FilesFirm'
    BY <1>1, <1>2, <2>1 DEF FilesFirm, Firm
  <2>7. requested = 0 /\ persisted = 0 /\ ~timer /\ ~error /\ waiters = {}
    BY <2>2 DEF DatabaseInv, WriterShape
  <2>8. WriterShape' /\ WaitersWait'
    BY <1>1, <2>1, <2>7 DEF WriterShape, WaitersWait, Writing
  <2>9. DocsOrdered'
    BY <1>1, <1>3, <2>1, <2>3, <2>5 DEF DocsOrdered, Writing
  <2>10. RevisionsCount'
    BY <1>1, <1>2, <1>3, <2>1, <2>3, <2>7 DEF RevisionsCount, Writing
  <2>11. ~up => data = D!Recovered
    BY <1>1, <2>2 DEF DatabaseInv, WriterShape, DocsOrdered, Writing, Reliable, WriterType
  <2>12. QED BY <1>1, <1>3, <2>1, <2>3, <2>4, <2>6, <2>8, <2>9, <2>10, <2>11 DEF DatabaseInv
<1>5. CASE ~D!Blocked
  <2>1. /\ persisted' = writer.revision /\ writer' = [writer EXCEPT !.step = "check"]
        /\ UNCHANGED <<up, large, accepted, reported>>
    BY <1>5 DEF D!Rename, D!SavedRevision
  <2>2. writer.mode = "async" /\ up
    BY <1>1, <1>5 DEF D!Blocked, WriterType, DatabaseInv, WriterShape
  <2>3. /\ writer' \in WriterType /\ writer'.step = "check" /\ writer'.from = writer.from
        /\ writer'.mode = "async" /\ writer'.try = writer.try /\ writer' # D!Idle
        /\ writer'.revision = writer.revision
    <3>1. writer' \in WriterType
      BY <2>1 DEF WriterType
    <3>2. QED BY <2>1, <2>2, <3>1 DEF WriterType
  <2>4. D!Recovered <= writer.from /\ writer.from <= data
    BY <1>1, <2>2 DEF DatabaseInv, DocsOrdered, Writing
  <2>5. DatabaseTypes'
    BY <1>1, <1>2, <2>1, <2>3 DEF DatabaseInv, DatabaseTypes
  <2>6. FilesFirm' /\ WriterShape'
    BY <1>1, <1>2, <2>1, <2>2, <2>3 DEF DatabaseInv, FilesFirm, Firm, WriterShape, Writing
  <2>7. DocsOrdered'
    BY <1>1, <1>3, <2>1, <2>2, <2>3, <2>4 DEF DatabaseInv, DocsOrdered, Writing
  <2>8. RevisionsCount'
    BY <1>1, <1>2, <1>3, <2>1, <2>2, <2>3, <2>4 DEF DatabaseInv, RevisionsCount, Writing
  <2>9. WaitersWait'
    BY <1>1, <2>1, <2>2, <2>3 DEF DatabaseInv, WaitersWait
  <2>10. QED BY <1>1, <1>3, <2>1, <2>2, <2>4, <2>5, <2>6, <2>7, <2>8, <2>9 DEF DatabaseInv
<1>6. QED BY <1>4, <1>5

\* The largest of the documents that flushes wait for.
LEMMA MaxOfBounded ==
  ASSUME NEW N \in Nat, NEW S \in SUBSET (0 .. N), S # {}
  PROVE  D!Max(S) \in S /\ \A x \in S : x <= D!Max(S)
<1> DEFINE Gaps == {N - x : x \in S}
<1>1. Gaps \in SUBSET Nat /\ Gaps # {}
  <2>1. \A x \in S : N - x \in Nat
    OBVIOUS
  <2>2. QED BY <2>1
<1>2. IsWellFoundedOn(OpToRel(<, Nat), Nat)
  BY NatLessThanWellFounded
<1>3. PICK g \in Gaps : \A y \in Gaps : <<y, g>> \notin OpToRel(<, Nat)
  BY <1>1, <1>2, WFMin
<1>4. \A y \in Gaps : ~(y < g)
  BY <1>1, <1>3 DEF OpToRel
<1>5. PICK x \in S : g = N - x
  BY <1>3
<1>6. \A y \in S : x >= y
  BY <1>4, <1>5
<1>7. QED BY <1>6 DEF D!Max

\* A pass that ends resolves the flushes, begins another pass, or leaves.
LEMMA PassEndKeepsDatabase ==
  ASSUME D!RevisionAssumption, DatabaseInv, D!Check \/ D!NextPass \/ D!Leave \/ D!TimerFires
  PROVE  DatabaseInv' /\ acked <= acked'
<1> USE DatabaseTyped, UnreadableFile
<1>a. writer.step \in {"check", "debounce", "settled"} => up /\ large /\ ~timer /\ ~Writing
      /\ writer.mode = "async"
  BY DEF DatabaseInv, WriterShape, Writing, WriterType
<1>1. CASE D!Check /\ persisted < requested
  <2>1. /\ writer.step = "check" /\ writer' = [writer EXCEPT !.step = "debounce"]
        /\ UNCHANGED <<error, waiters, acked, reported, data, up, primary, backup, temp, knownGood,
                       large, requested, persisted, timer, accepted>>
    BY <1>1 DEF D!Check, D!files
  <2>2. /\ writer' \in WriterType /\ writer'.step = "debounce" /\ writer'.mode = "async"
        /\ writer'.from = writer.from /\ writer'.try = writer.try /\ writer' # D!Idle
    <3>1. writer' \in WriterType
      BY <2>1 DEF WriterType
    <3>2. QED BY <1>a, <2>1, <3>1 DEF WriterType
  <2>3. D!Recovered' = D!Recovered
    BY <2>1, SameFiles
  <2>4. DatabaseTypes'
    BY <2>1, <2>2 DEF DatabaseInv, DatabaseTypes
  <2>5. FilesFirm' /\ WriterShape'
    BY <1>a, <2>1, <2>2 DEF DatabaseInv, FilesFirm, Firm, WriterShape, Writing
  <2>6. DocsOrdered' /\ RevisionsCount' /\ WaitersWait'
    BY <1>a, <2>1, <2>2, <2>3 DEF DatabaseInv, DocsOrdered, RevisionsCount, WaitersWait, Writing
  <2>7. QED BY <2>1, <2>4, <2>5, <2>6 DEF DatabaseInv
<1>2. CASE D!Check /\ ~(persisted < requested)
  <2>1. /\ writer.step = "check" /\ writer' = [writer EXCEPT !.step = "settled"]
        /\ error' = FALSE /\ waiters' = {} /\ reported' = (reported /\ writer.from < data)
        /\ acked' = IF waiters = {} THEN acked ELSE D!Max(waiters)
        /\ UNCHANGED <<data, up, primary, backup, temp, knownGood, large, requested, persisted,
                       timer, accepted>>
    BY <1>2 DEF D!Check, D!files
  <2>2. /\ writer' \in WriterType /\ writer'.step = "settled" /\ writer'.mode = "async"
        /\ writer'.from = writer.from /\ writer'.try = writer.try /\ writer' # D!Idle
    <3>1. writer' \in WriterType
      BY <2>1 DEF WriterType
    <3>2. QED BY <1>a, <2>1, <3>1 DEF WriterType
  <2>3. D!Recovered' = D!Recovered
    BY <2>1, SameFiles
  <2>4. persisted = requested /\ accepted <= D!Recovered
    BY <1>2, <1>a, <2>1 DEF DatabaseInv, RevisionsCount
  <2>5. acked' \in D!Revisions /\ acked <= acked' /\ acked' <= accepted
    <3>1. CASE waiters = {}
      BY <1>a, <2>1, <3>1 DEF DatabaseInv, DocsOrdered
    <3>2. CASE waiters # {}
      <4>1. waiters \in SUBSET (0 .. MaxRevision)
        BY DEF DatabaseInv, DatabaseTypes, D!Revisions
      <4>2. D!Max(waiters) \in waiters
        BY <3>2, <4>1, MaxOfBounded
      <4>3. QED BY <2>1, <3>2, <4>1, <4>2 DEF DatabaseInv, WaitersWait, D!Revisions
    <3>3. QED BY <3>1, <3>2
  <2>6. reported' \in BOOLEAN /\ (~reported' => ~reported \/ ~(writer.from < data))
    BY <2>1, Zenon
  <2>7. primary.ok /\ primary.doc = writer.from /\ writer.from <= data
        /\ (reported \/ writer.from = data)
    BY <2>1, <2>4 DEF DatabaseInv, RevisionsCount
  <2>8. ~reported' => primary.doc = data
    BY <2>6, <2>7
  <2>9. DatabaseTypes'
    BY <2>1, <2>2, <2>5, <2>6 DEF DatabaseInv, DatabaseTypes
  <2>10. FilesFirm' /\ WriterShape'
    BY <1>a, <2>1, <2>2 DEF DatabaseInv, FilesFirm, Firm, WriterShape, Writing
  <2>11. DocsOrdered'
    BY <1>a, <2>1, <2>2, <2>3, <2>4, <2>5 DEF DatabaseInv, DocsOrdered, Writing, D!Revisions
  <2>12. RevisionsCount' /\ WaitersWait'
    BY <1>a, <2>1, <2>2, <2>3, <2>4, <2>7, <2>8 DEF RevisionsCount, WaitersWait, Writing
  <2>13. QED BY <2>5, <2>9, <2>10, <2>11, <2>12 DEF DatabaseInv
<1>3. CASE D!NextPass \/ (D!Leave /\ D!BeginAsync) \/ D!TimerFires
  <2>1. /\ D!BeginAsync /\ up /\ large /\ ~Writing /\ timer' = FALSE
        /\ UNCHANGED <<data, up, primary, temp, knownGood, large, requested, persisted, error,
                       waiters, accepted, acked, reported>>
    <3>1. CASE D!NextPass \/ (D!Leave /\ D!BeginAsync)
      BY <1>a, <3>1 DEF D!NextPass, D!Leave, D!control, D!ghosts, DatabaseInv, DatabaseTypes
    <3>2. CASE D!TimerFires
      BY <3>2 DEF D!TimerFires, D!ghosts, DatabaseInv, WriterShape, Writing
    <3>3. QED BY <1>3, <3>1, <3>2
  <2>2. DatabaseInv'
    BY <2>1, PassKeepsDatabase
  <2>3. QED BY <2>1, <2>2
<1>4. CASE D!Leave /\ ~D!BeginAsync
  <2>1. /\ writer.step = "settled" /\ (error \/ ~(persisted < requested)) /\ writer' = D!Idle
        /\ UNCHANGED <<data, up, primary, backup, temp, knownGood, large, requested, persisted,
                       timer, error, waiters, accepted, acked, reported>>
    BY <1>4 DEF D!Leave, D!control, D!ghosts
  <2>2. D!Recovered' = D!Recovered
    BY <2>1, SameFiles
  <2>3. DatabaseTypes'
    BY <2>1 DEF DatabaseInv, DatabaseTypes
  <2>4. FilesFirm' /\ WriterShape'
    BY <1>a, <2>1 DEF DatabaseInv, FilesFirm, Firm, WriterShape, WaitersWait, Writing
  <2>5. DocsOrdered' /\ WaitersWait'
    BY <1>a, <2>1, <2>2 DEF DatabaseInv, DocsOrdered, WaitersWait, Writing
  <2>6. RevisionsCount'
    <3>1. error \/ persisted = requested
      BY <2>1 DEF DatabaseInv, RevisionsCount
    <3>2. QED BY <1>a, <2>1, <2>2, <3>1 DEF DatabaseInv, RevisionsCount, Writing
  <2>7. QED BY <2>1, <2>3, <2>4, <2>5, <2>6 DEF DatabaseInv
<1>5. QED BY <1>1, <1>2, <1>3, <1>4

\* A save that fails leaves the files as they were, and is known to somebody.
LEMMA FailureKeepsDatabase ==
  ASSUME D!RevisionAssumption, DatabaseInv, D!SyncSaveFails \/ D!AsyncSaveFails
  PROVE  DatabaseInv'
<1> USE DatabaseTyped, UnreadableFile
<1>1. CASE D!SyncSaveFails
  <2>1. /\ writer.mode = "sync" /\ writer' = D!Idle /\ temp' = D!Unreadable /\ reported' = TRUE
        /\ UNCHANGED <<data, up, primary, backup, knownGood, large, requested, persisted, timer,
                       error, waiters, accepted, acked>>
    BY <1>1 DEF D!SyncSaveFails, D!control
  <2>2. D!Recovered' = D!Recovered
    BY <2>1, SameFiles
  <2>3. DatabaseTypes'
    BY <2>1 DEF DatabaseInv, DatabaseTypes
  <2>4. FilesFirm' /\ WriterShape'
    BY <2>1 DEF DatabaseInv, FilesFirm, Firm, WriterShape, Writing
  <2>5. DocsOrdered' /\ RevisionsCount' /\ WaitersWait'
    BY <2>1, <2>2 DEF DatabaseInv, DocsOrdered, RevisionsCount, WaitersWait, Writing
  <2>6. QED BY <2>3, <2>4, <2>5 DEF DatabaseInv
<1>2. CASE D!AsyncSaveFails
  <2>1. /\ writer.mode = "async" /\ writer' = [writer EXCEPT !.step = "settled"]
        /\ temp' = D!Unreadable /\ error' = TRUE /\ waiters' = {}
        /\ UNCHANGED <<data, up, primary, backup, knownGood, large, requested, persisted, timer,
                       accepted, acked, reported>>
    BY <1>2 DEF D!AsyncSaveFails, D!ghosts
  <2>2. /\ writer' \in WriterType /\ writer'.step = "settled" /\ writer'.mode = "async"
        /\ writer'.from = writer.from /\ writer'.try = writer.try /\ writer' # D!Idle
    <3>1. writer' \in WriterType
      BY <2>1 DEF WriterType
    <3>2. QED BY <2>1, <3>1 DEF WriterType
  <2>3. D!Recovered' = D!Recovered
    BY <2>1, SameFiles
  <2>4. DatabaseTypes'
    BY <2>1, <2>2 DEF DatabaseInv, DatabaseTypes
  <2>5. FilesFirm' /\ WriterShape'
    BY <2>1, <2>2 DEF DatabaseInv, FilesFirm, Firm, WriterShape, Writing
  <2>6. DocsOrdered' /\ RevisionsCount' /\ WaitersWait'
    BY <2>1, <2>2, <2>3 DEF DatabaseInv, DocsOrdered, RevisionsCount, WaitersWait, Writing
  <2>7. QED BY <2>4, <2>5, <2>6 DEF DatabaseInv
<1>3. QED BY <1>1, <1>2

\* A load that cannot save tries with less, which is not saved either.
LEMMA FailedLoadKeepsDatabase ==
  ASSUME D!RevisionAssumption, DatabaseInv, D!LoadSaveFails
  PROVE  DatabaseInv' /\ D!Recovered' = D!Recovered /\ ~up' /\ primary' = primary /\ acked' = acked
<1> USE DatabaseTyped, UnreadableFile
<1>1. /\ "load" \in Faults /\ writer.mode = "load" /\ temp' = D!Unreadable
      /\ UNCHANGED <<up, primary, large, requested, persisted, timer, error, waiters, accepted,
                     acked, reported>>
  BY DEF D!LoadSaveFails, D!ghosts
<1>2. ~up /\ requested = 0 /\ persisted = 0 /\ ~timer /\ ~error /\ waiters = {} /\ ~large
  BY <1>1 DEF DatabaseInv, WriterShape
<1>3. CASE writer' = D!Idle /\ data' = D!Recovered /\ UNCHANGED <<backup, knownGood>>
  <2>1. D!Recovered' = D!Recovered
    BY <1>1, <1>3, SameFiles
  <2>2. DatabaseTypes'
    BY <1>1, <1>3 DEF DatabaseInv, DatabaseTypes
  <2>3. FilesFirm' /\ WriterShape'
    BY <1>1, <1>2, <1>3 DEF DatabaseInv, FilesFirm, Firm, WriterShape, Writing
  <2>4. DocsOrdered' /\ RevisionsCount' /\ WaitersWait'
    BY <1>1, <1>2, <1>3, <2>1 DEF DatabaseInv, DocsOrdered, RevisionsCount, WaitersWait, Writing
  <2>5. QED BY <1>1, <1>2, <2>1, <2>2, <2>3, <2>4 DEF DatabaseInv
<1>4. ASSUME NEW next \in {2, 3}, data' = IF next = 2 THEN backup.doc ELSE 0,
             knownGood' = (next = 3 /\ knownGood), D!BeginSync("load", next, data')
      PROVE  DatabaseInv' /\ D!Recovered' = D!Recovered /\ ~up' /\ primary' = primary /\ acked' = acked
  <2>1. D!Begin("load", 0, next, data', primary.ok) /\ data' \in D!Revisions
    BY <1>4 DEF D!BeginSync
  <2>2. /\ writer' \in WriterType /\ writer' # D!Idle /\ writer'.mode = "load"
        /\ writer'.step \in {"copy", "write"} /\ writer'.from = data' /\ writer'.try = next
        /\ (writer'.step = "copy" => primary.ok)
        /\ backup' \in D!File /\ (backup' = backup \/ primary.ok) /\ D!Recovered' = D!Recovered
    BY <1>1, <2>1, SaveBegins
  <2>3. knownGood' \in BOOLEAN /\ (knownGood' => knownGood)
    BY <1>4, Zenon
  <2>4. DatabaseTypes'
    BY <1>1, <2>1, <2>2, <2>3 DEF DatabaseInv, DatabaseTypes
  <2>5. FilesFirm'
    BY <1>1, <2>2, <2>3 DEF DatabaseInv, FilesFirm, Firm
  <2>6. WriterShape'
    BY <1>1, <1>2, <2>2 DEF WriterShape, Writing
  <2>7. DocsOrdered' /\ RevisionsCount' /\ WaitersWait'
    BY <1>1, <1>2, <2>2 DEF DatabaseInv, DocsOrdered, RevisionsCount, WaitersWait, Writing
  <2>8. QED BY <1>1, <1>2, <2>2, <2>4, <2>5, <2>6, <2>7 DEF DatabaseInv
<1>5. QED BY <1>3, <1>4 DEF D!LoadSaveFails

LEMMA DatabaseStep ==
  ASSUME D!RevisionAssumption, D!FaultsAssumption, Reliable, DatabaseInv, [D!Next]_(D!vars)
  PROVE  DatabaseInv'
<1>1. CASE D!Next
  BY <1>1, LoadKeepsDatabase, CrashKeepsDatabase, MutateKeepsDatabase, FlushKeepsDatabase,
     SavingKeepsDatabase, RenameKeepsDatabase, PassEndKeepsDatabase, FailureKeepsDatabase,
     FailedLoadKeepsDatabase
  DEF D!Next, D!WriterSteps
<1>2. CASE UNCHANGED D!vars
  <2>1. UNCHANGED <<data, up, primary, backup, temp, knownGood, large, requested, persisted, timer,
                    error, waiters, writer, accepted, acked, reported>>
    BY <1>2 DEF D!vars, D!files, D!control, D!ghosts
  <2>2. D!Recovered' = D!Recovered
    BY <2>1, SameFiles
  <2>3. QED BY <2>1, <2>2 DEF DatabaseInv, DatabaseTypes, FilesFirm, Firm, WriterShape, Writing,
                              DocsOrdered, RevisionsCount, WaitersWait
<1>3. QED BY <1>1, <1>2

\* Only a rename changes what a restart would find.
LEMMA OnlyRenameSaves ==
  ASSUME D!RevisionAssumption, Reliable, DatabaseInv,
         \/ D!Start \/ D!Crash \/ D!Mutate \/ D!Flush \/ D!TimerFires
         \/ D!Copy \/ D!Write \/ D!Check \/ D!NextPass \/ D!Leave
         \/ D!SyncSaveFails \/ D!AsyncSaveFails \/ D!LoadSaveFails
  PROVE  primary' = primary /\ (backup' = backup \/ primary.ok) /\ D!Recovered' = D!Recovered
<1>1. ASSUME NEW mode, NEW revision, NEW try, NEW doc, NEW copies,
             D!Begin(mode, revision, try, doc, copies), copies => primary.ok
      PROVE  backup' = backup \/ primary.ok
  BY <1>1 DEF D!Begin
<1>2. ASSUME NEW mode, NEW try, NEW doc, D!BeginSync(mode, try, doc)
      PROVE  backup' = backup \/ primary.ok
  BY <1>1, <1>2 DEF D!BeginSync
<1>3. D!BeginAsync => backup' = backup \/ primary.ok
  BY <1>1 DEF D!BeginAsync, DatabaseInv, FilesFirm
<1>4. CASE D!Start
  BY <1>2, <1>4, SameFiles DEF D!Start
<1>5. CASE D!Crash
  BY <1>5, CrashIsSafe
<1>6. CASE D!Mutate
  BY <1>2, <1>6, SameFiles DEF D!Mutate
<1>7. CASE D!Flush \/ D!TimerFires \/ D!Check \/ D!NextPass \/ D!Leave
  BY <1>3, <1>7, SameFiles DEF D!Flush, D!TimerFires, D!Check, D!NextPass, D!Leave, D!files
<1>8. CASE D!Copy
  BY <1>8, SameFiles DEF D!Copy, DatabaseInv, FilesFirm
<1>9. CASE D!Write \/ D!SyncSaveFails \/ D!AsyncSaveFails
  BY <1>9, SameFiles DEF D!Write, D!SyncSaveFails, D!AsyncSaveFails
<1>10. CASE D!LoadSaveFails
  BY <1>2, <1>10, SameFiles DEF D!LoadSaveFails
<1>11. QED BY <1>4, <1>5, <1>6, <1>7, <1>8, <1>9, <1>10

\* Each step of the code is one of DurableStore, or a stutter.
LEMMA DatabaseImplements ==
  ASSUME D!RevisionAssumption, D!FaultsAssumption, Reliable, DatabaseInv, [D!Next]_(D!vars)
  PROVE  [D!Store!Next]_(D!Store!vars)
<1> USE DatabaseTyped DEF D!Store!Next, D!Store!vars, D!Shown
<1>1. DatabaseInv'
  BY DatabaseStep
<1>2. acked' <= D!Recovered' /\ D!Recovered' \in Nat /\ acked' \in Nat /\ acked <= D!Recovered
  <2>1. D!Recovered' \in D!Revisions /\ acked' \in D!Revisions
    BY <1>1 DEF DatabaseInv, DatabaseTypes, D!Recovered, D!Source, D!File
  <2>2. QED BY <1>1, <2>1 DEF DatabaseInv, DocsOrdered
<1>3. CASE D!Rename
  <2>1. D!Store!Save
    <3>1. D!Recovered' <= data' /\ up' /\ data' = data /\ acked' = acked
      BY <1>1, <1>3, RenameKeepsDatabase DEF DatabaseInv, DocsOrdered
    <3>2. D!Recovered <= D!Recovered' /\ (~up => D!Recovered' = D!Recovered /\ data = D!Recovered)
      BY <1>3, RenameKeepsDatabase
    <3>3. QED BY <1>2, <3>1, <3>2 DEF D!Store!Save
  <2>2. QED BY <2>1
<1>4. CASE D!Mutate
  <2>1. up /\ up' = up /\ data' = data + 1 /\ acked' = acked /\ D!Recovered' = D!Recovered
    BY <1>4, OnlyRenameSaves DEF D!Mutate
  <2>2. QED BY <2>1 DEF D!Store!Mutate
<1>5. CASE D!Crash
  <2>1. up' = FALSE /\ acked' = acked /\ D!Recovered' = D!Recovered
    BY <1>5, CrashIsSafe DEF D!Crash, D!ghosts
  <2>2. QED BY <2>1 DEF D!Store!Crash
<1>6. CASE D!Flush \/ D!TimerFires \/ D!Check \/ D!NextPass \/ D!Leave
  <2>1. up' = up /\ data' = data /\ D!Recovered' = D!Recovered /\ acked <= acked'
    <3>1. up' = up /\ data' = data
      BY <1>6 DEF D!Flush, D!TimerFires, D!Check, D!NextPass, D!Leave
    <3>2. QED BY <1>6, <3>1, OnlyRenameSaves, FlushKeepsDatabase, PassEndKeepsDatabase
  <2>2. QED BY <1>2, <2>1 DEF D!Store!Acknowledge
<1>7. CASE D!Start
  <2>1. ~up /\ data' = D!Recovered /\ acked' = acked /\ D!Recovered' = D!Recovered
    BY <1>7, OnlyRenameSaves DEF D!Start
  <2>2. QED BY <2>1
<1>8. CASE D!Copy \/ D!Write \/ D!SyncSaveFails \/ D!AsyncSaveFails \/ D!LoadSaveFails
  <2>1. up' = up /\ acked' = acked
    BY <1>8 DEF D!Copy, D!Write, D!SyncSaveFails, D!AsyncSaveFails, D!LoadSaveFails, D!ghosts
  <2>2. D!Recovered' = D!Recovered
    BY <1>8, OnlyRenameSaves
  <2>3. up => data' = data
    BY <1>8 DEF D!Copy, D!Write, D!SyncSaveFails, D!AsyncSaveFails, D!LoadSaveFails,
                DatabaseInv, WriterShape
  <2>4. QED BY <2>1, <2>2, <2>3
<1>9. CASE UNCHANGED D!vars
  <2>1. up' = up /\ data' = data /\ acked' = acked /\ primary' = primary /\ backup' = backup
    BY <1>9 DEF D!vars, D!files, D!ghosts
  <2>2. QED BY <2>1, SameFiles
<1>10. QED BY <1>3, <1>4, <1>5, <1>6, <1>7, <1>8, <1>9 DEF D!Next, D!WriterSteps

LEMMA DatabaseStaysReadable ==
  ASSUME D!RevisionAssumption, Reliable, DatabaseInv, D!Next
  PROVE  D!Source.ok => (D!Source.ok)'
<1>1. CASE D!Rename
  BY <1>1 DEF D!Rename, D!Source, DatabaseInv, FilesFirm
<1>2. CASE /\ primary' = primary /\ (backup' = backup \/ primary.ok)
  BY <1>2 DEF D!Source
<1>3. QED BY <1>1, <1>2, OnlyRenameSaves DEF D!Next, D!WriterSteps

LEMMA DatabaseAlways ==
  ASSUME Reliable
  PROVE  Spec => []DatabaseInv
<1>1. Init => DatabaseInv
  BY PromisesAssumption, DatabaseInit DEF Init
<1>2. DatabaseInv /\ [Step]_vars => DatabaseInv'
  BY PromisesAssumption, DatabaseStep, OneMoves
<1>3. QED BY <1>1, <1>2, PTL DEF Spec, Step

\* Whatever mutations, flushes, failed copies and saves and crashes come, for
\* any number of them: when the database is quiet and nobody was told of a
\* failure, its file holds the document in memory.
THEOREM QuietDatabaseIsSaved ==
  ASSUME Reliable
  PROVE  Spec => []QuietIsSaved
<1>1. DatabaseInv => QuietIsSaved
  BY DEF DatabaseInv, RevisionsCount, QuietIsSaved, D!QuietIsSaved
<1>2. QED BY DatabaseAlways, <1>1, PTL

\* The database implements DurableStore: what a flush acknowledged is found by
\* every restart, and no restart finds less than an earlier one would have.
THEOREM DatabaseKeepsPromise ==
  ASSUME Reliable
  PROVE  Spec => KeepsPromise
<1>1. Init => D!Store!Init
  BY DEF Init, D!Init, D!Store!Init, D!Shown, D!Recovered, D!Source, D!Unreadable, D!Good
<1>2. DatabaseInv /\ [Step]_vars => [D!Store!Next]_(D!Store!vars)
  BY PromisesAssumption, DatabaseImplements, OneMoves
<1>3. QED BY DatabaseAlways, <1>1, <1>2, PTL DEF Spec, Step, KeepsPromise, D!KeepsPromise, D!Store!Spec

\* A copy of the document is readable at every instant once one was.
THEOREM ReadableAtEveryInstant ==
  ASSUME Reliable
  PROVE  Spec => StaysReadable
<1>1. DatabaseInv /\ [Step]_vars => [D!Source.ok => (D!Source.ok)']_(D!vars)
  BY PromisesAssumption, DatabaseStaysReadable, OneMoves
<1>2. QED BY DatabaseAlways, <1>1, PTL DEF Spec, Step, StaysReadable, D!StaysReadable

-----------------------------------------------------------------------------
(* VmBatches.  What the agent believes staged is written to its manifest   *)
(* when a batch is applied; that the tree holds it then rests on what the  *)
(* commit has taken into the tree, entry by entry, and on files that were  *)
(* not sent because the host had them.                                     *)

CommitType == [at : {"none", "files", "manifest", "record"}, todo : SUBSET VmFiles,
               manifest : [VmFiles -> B!Contents], changed : SUBSET VmFiles, deleted : SUBSET VmFiles]
QueueType  == [timer : BOOLEAN, changed : SUBSET VmFiles, deleted : SUBSET VmFiles]
BoundsType == [changes : 0 .. MaxChanges, crashes : 0 .. MaxCrashes, repairs : 0 .. MaxRepairs]

BatchTypes ==
  /\ vm \in [VmFiles -> B!Contents] /\ known \in [VmFiles -> B!Contents]
  /\ listed \in [VmFiles -> 0 .. B!Unlisted]
  /\ phase \in {"idle", "sending", "committing"}
  /\ missing \subseteq VmFiles /\ offset \in [VmFiles -> 0 .. 2]
  /\ record \in {"none", "prepared", "committed"} /\ missingIds \subseteq B!Listed
  /\ bytes \in [VmFiles -> 0 .. 2] /\ partial \in [VmFiles -> 0 .. 1] /\ uploads \subseteq missingIds
  /\ held \in [VmFiles -> B!Contents] /\ staged \in [VmFiles -> B!Contents]
  /\ commit \in CommitType /\ torn \subseteq VmFiles /\ overlooked \subseteq VmFiles
  /\ queued \in QueueType /\ dirty \subseteq VmFiles
  /\ backed \in [VmFiles -> B!Contents] /\ hostUp \in BOOLEAN
  /\ bounds \in BoundsType

Whole(f)   == bytes[f] = B!Chunks(f)
\* Files that a commit has renamed into the tree.
Taken      == {f \in missingIds : Whole(f) /\ f \notin uploads}
Committing == commit.at # "none"
\* Entries that the commit in progress is through with.
Through    == IF Committing THEN missingIds \ commit.todo ELSE {}

BatchShape ==
  /\ Committing => hostUp /\ phase = "committing" /\ record = "prepared"
  /\ commit.todo \subseteq B!Listed /\ (commit.at # "files" => commit.todo = {})
  /\ commit.changed \subseteq missingIds /\ commit.deleted \subseteq B!Listed
  /\ ~Committing => commit.changed = {} /\ commit.deleted = {}
  /\ missing \subseteq {f \in missingIds : ~Whole(f)} /\ (phase # "sending" => missing = {})
  /\ record # "prepared" => missingIds = {} /\ uploads = {}
  /\ record = "none" => bytes = B!Zero
  /\ \A f \in missingIds : listed[f] # B!Gone
  /\ Committing => \A f \in missingIds : Whole(f)
  /\ Committing => \A f \in VmFiles :
       commit.manifest[f] = IF f \in B!Listed \ commit.todo THEN listed[f] ELSE held[f]
  /\ commit.at = "record" => held = commit.manifest

\* Files are taken in one order, so that a retry fails at its first file.
TakenInOrder ==
  /\ Taken # {} => \A f \in missingIds : Whole(f)
  /\ \A f \in missingIds \cap uploads, g \in Taken : g < f
  /\ Through \cap uploads = {}
  /\ Through # {} => missingIds \cap commit.todo \subseteq uploads

\* The tree holds the file as the batch lists it.
Arrived(f) == listed[f] # B!Gone => staged[f] = listed[f]

TreeMatches ==
  /\ \A f \in VmFiles \ torn : f \notin B!Listed /\ known[f] # B!Gone => staged[f] = known[f]
  /\ \A f \in VmFiles \ torn : f \notin Through /\ held[f] # B!Gone /\ staged[f] # B!Gone =>
       staged[f] = held[f]
  /\ record = "prepared" => \A f \in B!Listed \ (missingIds \cup torn) : Arrived(f)
  /\ Committing => \A f \in B!Listed \ (commit.todo \cup torn) : Arrived(f)
  /\ record = "committed" => \A f \in B!Listed \ torn : Arrived(f)

BatchInv == BatchTypes /\ BatchShape /\ TakenInOrder /\ TreeMatches

LEMMA BatchValues ==
  ASSUME B!BatchesAssumption
  PROVE  /\ VmFiles \subseteq Nat /\ Large \subseteq VmFiles
         /\ B!Gone \in B!Contents /\ B!Unlisted \notin B!Contents /\ B!Gone # B!Unlisted
         /\ B!Contents \subseteq 0 .. B!Unlisted
         /\ \A c \in 0 .. B!Unlisted : c # B!Unlisted => c \in B!Contents
         /\ B!Zero \in [VmFiles -> B!Contents] /\ \A f \in VmFiles : B!Zero[f] = B!Gone
         /\ B!Zero \in [VmFiles -> 0 .. 2] /\ B!Zero \in [VmFiles -> 0 .. 1]
         /\ [f \in VmFiles |-> 1] \in [VmFiles -> B!Contents]
         /\ B!NoBatch \in [VmFiles -> 0 .. B!Unlisted]
         /\ B!NoCommit \in CommitType
         /\ B!NoCommit.at = "none" /\ B!NoCommit.todo = {}
         /\ B!NoCommit.changed = {} /\ B!NoCommit.deleted = {}
         /\ B!NoQueue \in QueueType
         /\ \A f \in VmFiles : B!Chunks(f) \in {1, 2} /\ B!Zero[f] # B!Chunks(f)
<1>1. 0 \in 0 .. MaxContent /\ 1 \in 0 .. MaxContent /\ MaxContent + 1 \notin 0 .. MaxContent
      /\ MaxContent \in Nat /\ 0 # MaxContent + 1
  BY DEF B!BatchesAssumption
<1>2. /\ VmFiles \subseteq Nat /\ Large \subseteq VmFiles
      /\ B!Gone \in B!Contents /\ B!Unlisted \notin B!Contents /\ B!Gone # B!Unlisted
      /\ B!Contents \subseteq 0 .. B!Unlisted
      /\ \A c \in 0 .. B!Unlisted : c # B!Unlisted => c \in B!Contents
  BY <1>1 DEF B!BatchesAssumption, B!Gone, B!Contents, B!Unlisted
<1>3. /\ B!Zero \in [VmFiles -> B!Contents] /\ (\A f \in VmFiles : B!Zero[f] = B!Gone)
      /\ B!Zero \in [VmFiles -> 0 .. 2] /\ B!Zero \in [VmFiles -> 0 .. 1]
      /\ [f \in VmFiles |-> 1] \in [VmFiles -> B!Contents]
  BY <1>1 DEF B!Zero, B!Gone, B!Contents
<1>4. B!NoBatch \in [VmFiles -> 0 .. B!Unlisted]
  BY <1>1 DEF B!NoBatch, B!Unlisted
<1>5. [f \in VmFiles |-> B!Gone] \in [VmFiles -> B!Contents]
  BY <1>2
<1>6. B!NoCommit \in CommitType
      /\ B!NoCommit.at = "none" /\ B!NoCommit.todo = {}
      /\ B!NoCommit.changed = {} /\ B!NoCommit.deleted = {}
  <2> DEFINE nothing == {}
  <2>1. nothing \in SUBSET VmFiles
    OBVIOUS
  <2>2. B!NoCommit = [at |-> "none", todo |-> nothing, manifest |-> [f \in VmFiles |-> B!Gone],
                      changed |-> nothing, deleted |-> nothing]
    BY DEF B!NoCommit
  <2> HIDE DEF nothing
  <2>3. B!NoCommit \in CommitType
    BY <1>5, <2>1, <2>2 DEF CommitType
  <2>4. QED BY <2>2, <2>3 DEF nothing
<1>7. B!NoQueue \in QueueType
  <2> DEFINE nothing == {}
  <2>1. nothing \in SUBSET VmFiles
    OBVIOUS
  <2>2. B!NoQueue = [timer |-> FALSE, changed |-> nothing, deleted |-> nothing]
    BY DEF B!NoQueue
  <2> HIDE DEF nothing
  <2>3. QED BY <2>1, <2>2 DEF QueueType
<1>8. \A f \in VmFiles : B!Chunks(f) \in {1, 2} /\ B!Zero[f] # B!Chunks(f)
  BY DEF B!Chunks, B!Zero
<1>9. QED BY <1>2, <1>3, <1>4, <1>6, <1>7, <1>8

LEMMA ListedFiles == B!Listed \subseteq VmFiles /\ \A f \in VmFiles : f \in B!Listed <=> listed[f] # B!Unlisted
BY DEF B!Listed

LEMMA NoneListed ==
  /\ listed = B!NoBatch => B!Listed = {}
  /\ listed' = B!NoBatch => B!Listed' = {}
BY DEF B!Listed, B!NoBatch

LEMMA SameListed == listed' = listed => B!Listed' = B!Listed
BY DEF B!Listed

LEMMA BatchInit == B!BatchesAssumption /\ B!Init => BatchInv
<1> SUFFICES ASSUME B!BatchesAssumption, B!Init PROVE BatchInv
  OBVIOUS
<1> USE BatchValues
<1>1. /\ known = vm /\ held = vm /\ staged = vm /\ backed = vm /\ listed = B!NoBatch
      /\ phase = "idle" /\ missing = {} /\ offset = B!Zero /\ record = "none" /\ missingIds = {}
      /\ bytes = B!Zero /\ partial = B!Zero /\ uploads = {} /\ commit = B!NoCommit /\ torn = {}
      /\ queued = B!NoQueue /\ dirty = {} /\ overlooked = {} /\ hostUp = TRUE
      /\ bounds = [changes |-> 0, crashes |-> 0, repairs |-> 0]
      /\ vm \in [VmFiles -> B!Contents]
  BY DEF B!Init
<1>2. bounds \in BoundsType
  BY <1>1 DEF B!BatchesAssumption, BoundsType
<1>3. BatchTypes
  BY <1>1, <1>2 DEF BatchTypes
<1>4. BatchShape /\ TakenInOrder
  BY <1>1 DEF BatchShape, TakenInOrder, Committing, Through, Taken
<1>5. TreeMatches
  BY <1>1, NoneListed DEF TreeMatches, Committing
<1>6. QED BY <1>3, <1>4, <1>5 DEF BatchInv

\* The tree, and what is said of it, stays.
LEMMA TreeStays ==
  ASSUME BatchInv,
         UNCHANGED <<known, listed, record, missingIds, held, staged, commit, torn>>
  PROVE  TreeMatches'
BY SameListed DEF BatchInv, TreeMatches, Arrived, Through, Committing

\* A batch, or what is left of it, is given up; the agent starts from its manifest.
LEMMA AgentKeepsBatches ==
  ASSUME B!BatchesAssumption, BatchInv,
         B!Change \/ B!NewPendingBatch \/ B!RequestFails \/ B!Repair
  PROVE  BatchInv'
<1> USE BatchValues
<1>1. CASE B!Change
  <2>1. UNCHANGED <<known, listed, phase, missing, offset, record, missingIds, bytes, partial, uploads,
                    held, staged, commit, torn, queued, dirty, backed, overlooked, hostUp>>
    BY <1>1 DEF B!Change, B!agentVars, B!recordVars, B!treeVars, B!backupVars
  <2>2. vm' \in [VmFiles -> B!Contents]
        /\ bounds' \in BoundsType
    BY <1>1 DEF B!Change, BatchInv, BatchTypes, BoundsType, B!BatchesAssumption
  <2>3. BatchTypes'
    BY <2>1, <2>2, SameListed DEF BatchInv, BatchTypes
  <2>4. BatchShape' /\ TakenInOrder'
    BY <2>1, SameListed DEF BatchInv, BatchShape, TakenInOrder, Whole, Taken, Committing, Through
  <2>5. QED BY <2>1, <2>3, <2>4, TreeStays DEF BatchInv
<1>2. CASE B!NewPendingBatch
  <2>1. /\ phase = "idle" /\ B!Listed = {} /\ record' = "none" /\ missingIds' = {}
        /\ bytes' = B!Zero /\ partial' = B!Zero /\ uploads' = {}
        /\ UNCHANGED <<vm, known, phase, missing, offset, held, staged, commit, torn, queued, dirty,
                       backed, overlooked, hostUp>>
    BY <1>2 DEF B!NewPendingBatch, B!vmVars, B!treeVars, B!backupVars
  <2>2. PICK seen \in {vm, B!Zero} :
          /\ B!Scan(seen)
          /\ listed' = [f \in VmFiles |-> IF seen[f] = known[f] THEN B!Unlisted ELSE seen[f]]
    BY <1>2 DEF B!NewPendingBatch
  <2>3. listed' \in [VmFiles -> 0 .. B!Unlisted] /\ B!Unlisted \in 0 .. B!Unlisted
    <3>1. seen \in [VmFiles -> B!Contents]
      BY DEF BatchInv, BatchTypes
    <3>2. B!Unlisted \in 0 .. B!Unlisted
      BY DEF B!Unlisted, B!BatchesAssumption
    <3>3. QED BY <2>2, <3>1, <3>2
  <2>4. bounds' \in BoundsType
    BY <2>2 DEF B!Scan, BatchInv, BatchTypes, BoundsType, B!BatchesAssumption
  <2>5. BatchTypes'
    BY <2>1, <2>3, <2>4 DEF BatchInv, BatchTypes
  <2>6. /\ missing = {} /\ commit.todo = {} /\ commit.at = "none"
        /\ commit.changed = {} /\ commit.deleted = {}
    BY <2>1 DEF BatchInv, BatchShape, Committing
  <2>7. BatchShape' /\ TakenInOrder'
    BY <2>1, <2>6 DEF BatchShape, TakenInOrder, Whole, Taken, Committing, Through
  <2>8. TreeMatches'
    BY <2>1, <2>6 DEF BatchInv, TreeMatches, Through, Committing
  <2>9. QED BY <2>5, <2>7, <2>8 DEF BatchInv
<1>3. CASE B!RequestFails
  <2>1. UNCHANGED <<vm, known, listed, record, missingIds, bytes, partial, uploads, held, staged, commit,
                    torn, queued, dirty, backed, overlooked, hostUp, bounds>>
        /\ phase = "sending" /\ phase' = "idle" /\ missing' = {} /\ offset' = B!Zero
    BY <1>3 DEF B!RequestFails, B!GiveUp, B!vmVars, B!recordVars, B!treeVars, B!backupVars
  <2>2. BatchTypes'
    BY <2>1, SameListed DEF BatchInv, BatchTypes
  <2>3. BatchShape' /\ TakenInOrder'
    BY <2>1, SameListed DEF BatchInv, BatchShape, TakenInOrder, Whole, Taken, Committing, Through
  <2>4. QED BY <2>1, <2>2, <2>3, TreeStays DEF BatchInv
<1>4. CASE B!Repair
  <2>1. /\ phase = "idle" /\ known' = B!Zero /\ listed' = B!NoBatch /\ record' = "none"
        /\ missingIds' = {} /\ bytes' = B!Zero /\ partial' = B!Zero /\ uploads' = {}
        /\ UNCHANGED <<vm, phase, missing, offset, held, staged, commit, torn, queued, dirty,
                       backed, overlooked, hostUp>>
    BY <1>4 DEF B!Repair, B!vmVars, B!treeVars, B!backupVars
  <2>2. bounds' \in BoundsType
    BY <1>4 DEF B!Repair, BatchInv, BatchTypes, BoundsType, B!BatchesAssumption
  <2>3. BatchTypes'
    BY <2>1, <2>2 DEF BatchInv, BatchTypes
  <2>4. /\ missing = {} /\ commit.todo = {} /\ commit.at = "none"
        /\ commit.changed = {} /\ commit.deleted = {}
    BY <2>1 DEF BatchInv, BatchShape, Committing
  <2>5. BatchShape' /\ TakenInOrder'
    BY <2>1, <2>4 DEF BatchShape, TakenInOrder, Whole, Taken, Committing, Through
  <2>6. TreeMatches'
    BY <2>1, <2>4, NoneListed DEF BatchInv, TreeMatches, Through, Committing
  <2>7. QED BY <2>3, <2>5, <2>6 DEF BatchInv
<1>5. QED BY <1>1, <1>2, <1>3, <1>4

\* What was listed becomes known: the tree holds it.
LEMMA ApplyKeepsTree ==
  ASSUME B!BatchesAssumption, BatchInv, B!ApplyCommittedBatch,
         \A f \in B!Listed \ torn : Arrived(f)
  PROVE  /\ known' \in [VmFiles -> B!Contents] /\ listed' = B!NoBatch /\ B!Listed' = {}
         /\ phase' = "idle" /\ missing' = {} /\ offset' = B!Zero
         /\ \A f \in VmFiles \ torn : known'[f] # B!Gone => staged[f] = known'[f]
<1> USE BatchValues, ListedFiles
<1>1. /\ known' = [f \in VmFiles |-> IF f \in B!Listed THEN listed[f] ELSE known[f]]
      /\ listed' = B!NoBatch /\ phase' = "idle" /\ missing' = {} /\ offset' = B!Zero
  BY DEF B!ApplyCommittedBatch
<1>2. \A f \in VmFiles : listed[f] \in 0 .. B!Unlisted /\ known[f] \in B!Contents
  BY DEF BatchInv, BatchTypes
<1>3. \A f \in B!Listed : listed[f] \in B!Contents
  BY <1>2
<1>4. known' \in [VmFiles -> B!Contents]
  BY <1>1, <1>2, <1>3
<1>5. ASSUME NEW f \in VmFiles \ torn, known'[f] # B!Gone
      PROVE  staged[f] = known'[f]
  <2>1. CASE f \in B!Listed
    BY <1>1, <1>5, <2>1 DEF Arrived
  <2>2. CASE f \notin B!Listed
    BY <1>1, <1>5, <2>2 DEF BatchInv, TreeMatches
  <2>3. QED BY <2>1, <2>2
<1>6. QED BY <1>1, <1>4, <1>5, NoneListed

\* The host answers a batch it knows from its record, and looks a new one up
\* in its manifest and its tree.
LEMMA PrepareKeepsBatches ==
  ASSUME B!BatchesAssumption, BatchInv, B!Prepare
  PROVE  BatchInv'
<1> USE BatchValues, ListedFiles
<1>1. /\ phase = "idle" /\ hostUp /\ ~Committing /\ commit.todo = {} /\ Through = {}
      /\ UNCHANGED <<vm, bytes, partial, uploads, held, staged, commit, torn, queued, dirty,
                     backed, overlooked, hostUp, bounds>>
  BY DEF B!Prepare, B!vmVars, B!treeVars, B!backupVars, BatchInv, BatchShape, Committing, Through
<1>t. ~Committing' /\ Through' = {}
  BY <1>1 DEF Committing, Through
<1>2. CASE record = "committed" /\ B!ApplyCommittedBatch
  <2>1. record' = record /\ missingIds' = missingIds /\ missingIds = {} /\ uploads = {}
    BY <1>2 DEF B!Prepare, BatchInv, BatchShape
  <2>2. \A f \in B!Listed \ torn : Arrived(f)
    BY <1>2 DEF BatchInv, TreeMatches
  <2>3. BatchTypes'
    BY <1>1, <1>2, <2>1, <2>2, ApplyKeepsTree DEF BatchInv, BatchTypes
  <2>4. BatchShape' /\ TakenInOrder'
    BY <1>1, <1>t, <1>2, <2>1, <2>2, ApplyKeepsTree
    DEF BatchInv, BatchShape, TakenInOrder, Taken, Whole
  <2>5. TreeMatches'
    BY <1>1, <1>t, <1>2, <2>1, <2>2, ApplyKeepsTree DEF BatchInv, TreeMatches
  <2>6. QED BY <2>3, <2>4, <2>5 DEF BatchInv
<1>3. ASSUME UNCHANGED <<known, listed>>, phase' \in {"idle", "sending"},
             offset' \in {B!Zero, bytes},
             missing' = {} \/ (phase' = "sending" /\ missing' = {f \in missingIds' : bytes[f] < B!Chunks(f)})
      PROVE  BatchInv'
  <2>1. missing' \subseteq {f \in missingIds' : ~Whole(f)} /\ (phase' # "sending" => missing' = {})
    <3>1. missingIds' \subseteq VmFiles
      BY DEF B!Prepare, BatchInv, BatchTypes
    <3>2. \A f \in VmFiles : bytes[f] \in 0 .. 2 /\ (bytes[f] < B!Chunks(f) => ~Whole(f))
      BY DEF Whole, BatchInv, BatchTypes
    <3>3. QED BY <1>3, <3>1, <3>2
  <2>2. B!Listed' = B!Listed
    BY <1>3, SameListed
  <2>3. CASE record # "none"
    <3>1. record' = record /\ missingIds' = missingIds
      BY <2>3 DEF B!Prepare
    <3>2. BatchTypes'
      BY <1>1, <1>3, <2>1, <2>2, <3>1 DEF BatchInv, BatchTypes
    <3>3. BatchShape' /\ TakenInOrder'
      BY <1>1, <1>t, <1>3, <2>1, <2>2, <3>1 DEF BatchInv, BatchShape, TakenInOrder, Taken, Whole
    <3>4. TreeMatches'
      BY <1>1, <1>3, <3>1, TreeStays
    <3>5. QED BY <3>2, <3>3, <3>4 DEF BatchInv
  <2>4. CASE record = "none"
    <3>1. /\ record' = "prepared" /\ bytes = B!Zero /\ uploads = {}
          /\ missingIds' = {f \in B!Listed : listed[f] # B!Gone /\ ~B!StagedAlready(f)}
      BY <2>4 DEF B!Prepare, BatchInv, BatchShape
    <3>2. BatchTypes'
      BY <1>1, <1>3, <2>1, <2>2, <3>1 DEF BatchInv, BatchTypes
    <3>3. \A f \in missingIds' : ~Whole(f)'
      BY <1>1, <3>1 DEF Whole
    <3>4. BatchShape'
      BY <1>1, <1>t, <1>3, <2>1, <2>2, <3>1 DEF BatchInv, BatchShape, Whole
    <3>5. TakenInOrder'
      BY <1>1, <1>t, <3>1, <3>3 DEF TakenInOrder, Taken
    <3>6. ASSUME NEW f \in B!Listed \ (missingIds' \cup torn), listed[f] # B!Gone
          PROVE  staged[f] = listed[f]
      BY <1>1, <3>1, <3>6 DEF B!StagedAlready, BatchInv, TreeMatches
    <3>7. TreeMatches'
      BY <1>1, <1>t, <1>3, <2>2, <3>1, <3>6 DEF BatchInv, TreeMatches, Arrived
    <3>8. QED BY <3>2, <3>4, <3>5, <3>7 DEF BatchInv
  <2>5. QED BY <2>3, <2>4
<1>4. CASE B!GiveUp
  BY <1>3, <1>4 DEF B!GiveUp
<1>5. CASE /\ phase' = "sending" /\ offset' = bytes
           /\ missing' = {f \in missingIds' : bytes[f] < B!Chunks(f)} /\ UNCHANGED <<known, listed>>
  BY <1>3, <1>5
<1>6. QED BY <1>2, <1>4, <1>5 DEF B!Prepare

\* Files are sent while none of the record's has been taken.
LEMMA SendingKeepsBatches ==
  ASSUME B!BatchesAssumption, BatchInv,
         UNCHANGED <<vm, known, listed, record, missingIds, held, staged, commit, torn, queued, dirty,
                     backed, overlooked, hostUp, bounds>>,
         phase = "sending", NEW sent \in SUBSET missing,
         bytes' \in [VmFiles -> 0 .. 2], partial' \in [VmFiles -> 0 .. 1],
         \A f \in VmFiles \ missing : bytes'[f] = bytes[f],
         \A f \in missing : (Whole(f)' => f \in sent),
         uploads' = uploads \cup sent,
         offset' \in [VmFiles -> 0 .. 2], phase' \in {"idle", "sending"},
         missing' \subseteq {f \in missing : ~Whole(f)'},
         phase' = "idle" => missing' = {}
  PROVE  BatchInv'
<1> USE BatchValues, ListedFiles, SameListed
<1>1. ~Committing /\ ~Committing' /\ Through' = {} /\ commit.todo = {}
  BY DEF BatchInv, BatchShape, Committing, Through
<1>2. missing \subseteq missingIds /\ missingIds \subseteq VmFiles /\ (missing # {} => record = "prepared")
      /\ \A f \in missing : ~Whole(f)
  BY DEF BatchInv, BatchShape, BatchTypes
<1>3. BatchTypes'
  BY <1>2 DEF BatchInv, BatchTypes
<1>4. missing' \subseteq {f \in missingIds : ~Whole(f)'}
  BY <1>2
<1>5. record = "none" => bytes' = bytes
  BY <1>2 DEF BatchInv, BatchTypes
<1>6. BatchShape'
  BY <1>1, <1>2, <1>4, <1>5 DEF BatchInv, BatchShape
<1>7. Taken' \subseteq Taken
  BY <1>2 DEF Taken, Whole
<1>8. TakenInOrder'
  <2>1. CASE missing = {}
    BY <1>1, <1>7, <2>1 DEF BatchInv, BatchTypes, TakenInOrder, Taken, Whole
  <2>2. CASE missing # {}
    <3>1. Taken = {}
      BY <1>2, <2>2 DEF BatchInv, TakenInOrder
    <3>2. QED BY <1>1, <1>7, <3>1 DEF TakenInOrder
  <2>3. QED BY <2>1, <2>2
<1>9. QED BY <1>3, <1>6, <1>8, TreeStays DEF BatchInv

LEMMA SendKeepsBatches ==
  ASSUME B!BatchesAssumption, BatchInv, B!SendBundle \/ \E f \in VmFiles : B!SendChunk(f)
  PROVE  BatchInv'
<1> USE BatchValues
<1>1. /\ UNCHANGED <<vm, known, listed, record, missingIds, held, staged, commit, torn, queued, dirty,
                     backed, overlooked, hostUp, bounds>>
      /\ phase = "sending"
  BY DEF B!SendBundle, B!SendChunk, B!GiveUp, B!vmVars, B!treeVars, B!backupVars
<1>2. /\ missing \subseteq VmFiles /\ offset \in [VmFiles -> 0 .. 2] /\ bytes \in [VmFiles -> 0 .. 2]
      /\ partial \in [VmFiles -> 0 .. 1] /\ B!Zero \in [VmFiles -> 0 .. 2]
      /\ \A f \in missing : ~Whole(f)
  BY DEF BatchInv, BatchTypes, BatchShape
<1>3. CASE B!SendBundle
  <2> DEFINE small == missing \ Large
  <2>1. /\ uploads' = uploads \cup small /\ partial' = partial
        /\ bytes' = [f \in VmFiles |-> IF f \in small THEN 1 ELSE bytes[f]]
        /\ \/ missing' = missing \ small /\ UNCHANGED <<phase, offset>>
           \/ phase' = "idle" /\ missing' = {} /\ offset' = B!Zero
    BY <1>3 DEF B!SendBundle, B!GiveUp
  <2>2. bytes' \in [VmFiles -> 0 .. 2] /\ (\A f \in VmFiles \ missing : bytes'[f] = bytes[f])
        /\ (\A f \in VmFiles \ small : bytes'[f] = bytes[f])
    BY <1>2, <2>1
  <2>3. \A f \in missing : (Whole(f)' => f \in small)
    BY <1>2, <2>2 DEF Whole
  <2>4. missing' \subseteq {f \in missing : ~Whole(f)'} /\ (phase' = "idle" => missing' = {})
        /\ phase' \in {"idle", "sending"} /\ offset' \in [VmFiles -> 0 .. 2]
    BY <1>1, <1>2, <2>1, <2>2, <2>3
  <2>5. QED BY <1>1, <1>2, <2>1, <2>2, <2>3, <2>4, SendingKeepsBatches
<1>4. ASSUME NEW f \in VmFiles, B!SendChunk(f)
      PROVE  BatchInv'
  <2>1. f \in missing /\ B!Chunks(f) \in {1, 2} /\ partial[f] \in 0 .. 1 /\ offset[f] \in 0 .. 2
    BY <1>2, <1>4 DEF B!SendChunk
  <2>2. CASE /\ UNCHANGED <<bytes, partial, uploads>> /\ phase' \in {phase, "idle"}
             /\ missing' \in {missing, {}} /\ (phase' = "idle" => missing' = {})
             /\ offset' \in [VmFiles -> 0 .. 2]
    <3>1. /\ {} \in SUBSET missing /\ uploads' = uploads \cup {}
          /\ (\A g \in missing : (Whole(g)' => g \in {}))
          /\ (\A g \in VmFiles \ missing : bytes'[g] = bytes[g])
      BY <1>2, <2>2 DEF Whole
    <3>2. /\ phase' \in {"idle", "sending"} /\ missing' \subseteq {g \in missing : ~Whole(g)'}
          /\ bytes' \in [VmFiles -> 0 .. 2] /\ partial' \in [VmFiles -> 0 .. 1]
      BY <1>1, <1>2, <2>2 DEF Whole
    <3>3. QED BY <1>1, <2>2, <3>1, <3>2, SendingKeepsBatches
  <2>3. CASE /\ partial[f] + 1 < B!Chunks(f) /\ partial' = [partial EXCEPT ![f] = @ + 1]
             /\ bytes' = [bytes EXCEPT ![f] = partial[f] + 1] /\ uploads' = uploads
             /\ \/ offset' = [offset EXCEPT ![f] = @ + 1] /\ offset[f] = partial[f]
                   /\ UNCHANGED <<phase, missing>>
                \/ phase' = "idle" /\ missing' = {} /\ offset' = B!Zero
    <3>1. partial[f] = 0 /\ partial[f] + 1 = 1 /\ B!Chunks(f) = 2
      BY <2>1, <2>3
    <3>2. /\ bytes' \in [VmFiles -> 0 .. 2] /\ bytes'[f] = 1
          /\ \A g \in VmFiles \ {f} : bytes'[g] = bytes[g]
      BY <1>2, <2>3, <3>1
    <3>3. partial' \in [VmFiles -> 0 .. 1] /\ offset' \in [VmFiles -> 0 .. 2]
      BY <1>2, <2>3, <3>1
    <3>4. \A g \in missing : ~Whole(g)'
      BY <1>2, <3>1, <3>2 DEF Whole
    <3>5. /\ {} \in SUBSET missing /\ uploads' = uploads \cup {}
          /\ (\A g \in missing : (Whole(g)' => g \in {}))
          /\ (\A g \in VmFiles \ missing : bytes'[g] = bytes[g])
      BY <2>1, <2>3, <3>2, <3>4
    <3>6. /\ phase' \in {"idle", "sending"} /\ (phase' = "idle" => missing' = {})
          /\ missing' \subseteq {g \in missing : ~Whole(g)'}
      BY <1>1, <2>3, <3>4
    <3>7. QED BY <1>1, <3>2, <3>3, <3>5, <3>6, SendingKeepsBatches
  <2>4. CASE /\ partial' = [partial EXCEPT ![f] = 0]
             /\ uploads' = uploads \cup {f} /\ bytes' = [bytes EXCEPT ![f] = B!Chunks(f)]
             /\ \/ missing' = missing \ {f} /\ UNCHANGED <<phase, offset>>
                \/ phase' = "idle" /\ missing' = {} /\ offset' = B!Zero
    <3>1. /\ bytes' \in [VmFiles -> 0 .. 2] /\ partial' \in [VmFiles -> 0 .. 1]
          /\ \A g \in VmFiles \ {f} : bytes'[g] = bytes[g]
      BY <1>2, <2>1, <2>4
    <3>2. \A g \in missing : (Whole(g)' => g \in {f})
      BY <1>2, <3>1 DEF Whole
    <3>3. /\ {f} \in SUBSET missing /\ (\A g \in VmFiles \ missing : bytes'[g] = bytes[g])
          /\ offset' \in [VmFiles -> 0 .. 2]
      BY <1>2, <2>1, <2>4, <3>1
    <3>4. /\ phase' \in {"idle", "sending"} /\ (phase' = "idle" => missing' = {})
          /\ missing' \subseteq {g \in missing : ~Whole(g)'}
      BY <1>1, <2>4, <3>2
    <3>5. QED BY <1>1, <2>4, <3>1, <3>2, <3>3, <3>4, SendingKeepsBatches
  <2>5. CASE /\ partial' = [partial EXCEPT ![f] = 0] /\ UNCHANGED <<uploads, bytes>>
             /\ phase' = "idle" /\ missing' = {} /\ offset' = B!Zero
    <3>1. partial' \in [VmFiles -> 0 .. 1]
      BY <1>2, <2>5
    <3>2. QED BY <1>1, <1>2, <2>5, <3>1, SendingKeepsBatches DEF Whole
  <2>6. QED
    <3>1. CASE offset[f] > partial[f] \/ offset[f] < partial[f]
      <4>1. [offset EXCEPT ![f] = partial[f]] \in [VmFiles -> 0 .. 2]
        BY <1>2, <2>1
      <4>2. QED BY <1>1, <1>2, <1>4, <2>1, <2>2, <3>1, <4>1 DEF B!SendChunk, B!GiveUp
    <3>2. CASE offset[f] = partial[f]
      BY <1>4, <2>1, <2>3, <2>4, <2>5, <3>2 DEF B!SendChunk, B!GiveUp
    <3>3. QED BY <2>1, <3>1, <3>2
<1>5. QED BY <1>3, <1>4

\* The smallest of a set of files.
LEMMA MinOfFiles ==
  ASSUME NEW S \in SUBSET Nat, S # {}
  PROVE  B!Min(S) \in S /\ \A x \in S : B!Min(S) <= x
<1>1. IsWellFoundedOn(OpToRel(<, Nat), Nat)
  BY NatLessThanWellFounded
<1>2. PICK m \in S : \A y \in S : <<y, m>> \notin OpToRel(<, Nat)
  BY <1>1, WFMin
<1>3. \A y \in S : ~(y < m)
  BY <1>2 DEF OpToRel
<1>4. \A y \in S : m <= y
  BY <1>3
<1>5. QED BY <1>4 DEF B!Min

\* A commit takes the files of the batch in order.  In a retry the first of them
\* is gone, so that nothing else is taken.
LEMMA EntryInOrder ==
  ASSUME B!BatchesAssumption, BatchInv, NEW f \in VmFiles, B!NextEntry(f)
  PROVE  /\ commit.at = "files" /\ f \in commit.todo /\ f \in B!Listed
         /\ f \in missingIds => \A g \in missingIds \cap commit.todo : f <= g
<1> USE BatchValues, ListedFiles
<1> DEFINE files == {g \in commit.todo : listed[g] # B!Gone}
<1>1. commit.at = "files" /\ f \in commit.todo /\ f = B!Min(IF files # {} THEN files ELSE commit.todo)
  BY DEF B!NextEntry
<1>2. commit.todo \subseteq B!Listed /\ B!Listed \subseteq Nat
  BY DEF BatchInv, BatchShape
<1>3. missingIds \cap commit.todo \subseteq files
  BY DEF BatchInv, BatchShape
<1>4. ASSUME f \in missingIds, NEW g \in missingIds \cap commit.todo
      PROVE  f <= g
  <2>1. files # {} /\ files \in SUBSET Nat /\ g \in files
    BY <1>2, <1>3, <1>4
  <2>2. f = B!Min(files)
    BY <1>1, <2>1
  <2>3. QED BY <2>1, <2>2, MinOfFiles
<1>5. QED BY <1>1, <1>2, <1>4

LEMMA CommitKeepsBatches ==
  ASSUME B!BatchesAssumption, BatchInv, B!Commit \/ B!SaveManifest
  PROVE  BatchInv'
<1> USE BatchValues, ListedFiles, SameListed
<1>1. CASE B!Commit
  <2>1. /\ phase = "sending" /\ hostUp /\ missing = {} /\ record = "prepared"
        /\ \A f \in missingIds : Whole(f)
        /\ phase' = "committing" /\ commit' = [at |-> "files", todo |-> B!Listed, manifest |-> held,
                                                  changed |-> {}, deleted |-> {}]
        /\ UNCHANGED <<vm, known, listed, missing, offset, record, missingIds, bytes, partial, uploads,
                       held, staged, torn, queued, dirty, backed, overlooked, hostUp, bounds>>
    BY <1>1 DEF B!Commit, B!vmVars, B!recordVars, B!backupVars, Whole
  <2>2. ~Committing /\ Through = {} /\ Through' = {} /\ commit'.at = "files" /\ commit'.todo = B!Listed
        /\ commit'.manifest = held /\ commit'.changed = {} /\ commit'.deleted = {}
    BY <2>1 DEF BatchInv, BatchShape, BatchTypes, Committing, Through
  <2>3. BatchTypes'
    <3> DEFINE nothing == {}
    <3>1. nothing \in SUBSET VmFiles /\ held \in [VmFiles -> B!Contents] /\ B!Listed \in SUBSET VmFiles
      BY DEF BatchInv, BatchTypes
    <3>2. commit' = [at |-> "files", todo |-> B!Listed, manifest |-> held,
                     changed |-> nothing, deleted |-> nothing]
      BY <2>1
    <3> HIDE DEF nothing
    <3>3. commit' \in CommitType
      BY <3>1, <3>2 DEF CommitType
    <3>4. QED BY <2>1, <3>3 DEF BatchInv, BatchTypes
  <2>4. BatchShape'
    BY <2>1, <2>2 DEF BatchInv, BatchShape, Committing, Whole
  <2>5. TakenInOrder'
    BY <2>1, <2>2 DEF BatchInv, TakenInOrder, Taken, Whole
  <2>6. TreeMatches'
    BY <2>1, <2>2 DEF BatchInv, TreeMatches, Arrived
  <2>7. QED BY <2>3, <2>4, <2>5, <2>6 DEF BatchInv
<1>2. CASE B!SaveManifest
  <2>1. /\ commit.at = "manifest" /\ held' = commit.manifest /\ commit' = [commit EXCEPT !.at = "record"]
        /\ UNCHANGED <<vm, known, listed, phase, missing, offset, record, missingIds, bytes, partial,
                       uploads, staged, torn, queued, dirty, backed, overlooked, hostUp, bounds>>
    BY <1>2 DEF B!SaveManifest, B!vmVars, B!agentVars, B!recordVars, B!backupVars
  <2>2. /\ commit.todo = {} /\ Through = missingIds /\ Committing
        /\ commit' \in CommitType
        /\ commit'.at = "record" /\ commit'.todo = {} /\ commit'.manifest = commit.manifest
        /\ commit'.changed = commit.changed /\ commit'.deleted = commit.deleted
        /\ commit.manifest \in [VmFiles -> B!Contents]
    BY <2>1 DEF BatchInv, BatchTypes, CommitType, BatchShape, Committing, Through
  <2>3. Through' = missingIds /\ Committing'
    BY <2>1, <2>2 DEF Committing, Through
  <2>4. BatchTypes'
    BY <2>1, <2>2 DEF BatchInv, BatchTypes
  <2>5. \A f \in VmFiles : held'[f] = IF f \in B!Listed THEN listed[f] ELSE held[f]
    BY <2>1, <2>2 DEF BatchInv, BatchShape
  <2>6. BatchShape'
    BY <2>1, <2>2, <2>3, <2>5 DEF BatchInv, BatchShape, Whole
  <2>7. TakenInOrder'
    BY <2>1, <2>2, <2>3 DEF BatchInv, TakenInOrder, Taken, Whole
  <2>8. TreeMatches'
    BY <2>1, <2>2, <2>3, <2>5 DEF BatchInv, TreeMatches, Arrived
  <2>9. QED BY <2>4, <2>6, <2>7, <2>8 DEF BatchInv
<1>3. QED BY <1>1, <1>2

LEMMA EntryKeepsBatches ==
  ASSUME B!BatchesAssumption, BatchInv, NEW f \in VmFiles, B!CommitEntry(f)
  PROVE  BatchInv'
<1> USE BatchValues, ListedFiles, SameListed
<1>1. /\ commit.at = "files" /\ f \in commit.todo /\ f \in B!Listed
      /\ f \in missingIds => \A g \in missingIds \cap commit.todo : f <= g
  BY EntryInOrder DEF B!CommitEntry
<1>2. /\ commit' = [at |-> IF commit.todo = {f} THEN "manifest" ELSE "files",
                    todo |-> commit.todo \ {f},
                    manifest |-> [commit.manifest EXCEPT ![f] = listed[f]],
                    changed |-> commit.changed \cup ({f} \cap missingIds),
                    deleted |-> IF listed[f] = B!Gone /\ commit.manifest[f] # B!Gone
                                THEN commit.deleted \cup {f} ELSE commit.deleted]
      /\ UNCHANGED <<vm, known, listed, phase, missing, offset, record, missingIds, bytes, partial,
                     held, queued, dirty, backed, overlooked, hostUp, bounds>>
  BY DEF B!CommitEntry, B!vmVars, B!agentVars, B!backupVars
<1>3. /\ commit.manifest \in [VmFiles -> B!Contents] /\ listed[f] \in B!Contents
      /\ staged \in [VmFiles -> B!Contents] /\ missingIds \subseteq VmFiles /\ VmFiles \subseteq Nat
      /\ commit.todo \subseteq B!Listed
      /\ commit.changed \subseteq missingIds /\ commit.deleted \subseteq B!Listed
      /\ commit.changed \in SUBSET VmFiles /\ commit.deleted \in SUBSET VmFiles
  BY <1>1 DEF BatchInv, BatchTypes, CommitType, BatchShape
<1>4. /\ commit'.manifest \in [VmFiles -> B!Contents] /\ commit'.manifest[f] = listed[f]
      /\ \A g \in VmFiles \ {f} : commit'.manifest[g] = commit.manifest[g]
      /\ commit'.todo = commit.todo \ {f} /\ commit'.at \in {"files", "manifest"}
      /\ (commit'.at = "manifest" => commit'.todo = {})
      /\ Committing /\ Committing' /\ Through = missingIds \ commit.todo
      /\ Through' = missingIds \ (commit.todo \ {f})
      /\ commit'.changed \subseteq missingIds /\ commit'.deleted \subseteq B!Listed
  BY <1>1, <1>2, <1>3 DEF Committing, Through
<1>5. commit' \in CommitType
  BY <1>2, <1>3, <1>4 DEF CommitType
<1>6. ASSUME staged' \in [VmFiles -> B!Contents], torn' \subseteq torn, uploads' \subseteq uploads
      PROVE  BatchTypes' /\ BatchShape'
  <2>1. BatchTypes'
    BY <1>2, <1>5, <1>6 DEF BatchInv, BatchTypes
  <2>2. BatchShape'
    BY <1>1, <1>2, <1>4, <1>6 DEF BatchInv, BatchShape, Whole
  <2>3. QED BY <2>1, <2>2
<1>7. CASE f \notin missingIds /\ UNCHANGED <<uploads, torn>>
           /\ staged' \in {staged, [staged EXCEPT ![f] = B!Gone]}
           /\ (listed[f] = B!Gone \/ staged' = staged)
  <2>1. Through' = Through /\ missingIds \cap commit'.todo = missingIds \cap commit.todo
    BY <1>4, <1>7
  <2>2. staged' \in [VmFiles -> B!Contents] /\ (\A g \in VmFiles \ {f} : staged'[g] = staged[g])
        /\ (staged'[f] = staged[f] \/ staged'[f] = B!Gone)
    BY <1>3, <1>7
  <2>3. TakenInOrder'
    BY <1>2, <1>7, <2>1 DEF BatchInv, TakenInOrder, Taken, Whole
  <2>4. TreeMatches'
    <3>1. record = "prepared"
      BY <1>4 DEF BatchInv, BatchShape
    <3>2. \A g \in B!Listed \ (commit'.todo \cup torn) : Arrived(g)'
      BY <1>1, <1>2, <1>4, <1>7, <2>2, <3>1 DEF BatchInv, TreeMatches, Arrived
    <3>3. QED BY <1>1, <1>2, <1>4, <1>7, <2>1, <2>2, <3>1, <3>2 DEF BatchInv, TreeMatches, Arrived
  <2>5. QED BY <1>6, <1>7, <2>2, <2>3, <2>4 DEF BatchInv
<1>8. CASE /\ listed[f] # B!Gone /\ f \in missingIds /\ f \in uploads
           /\ staged' = [staged EXCEPT ![f] = listed[f]]
           /\ uploads' = uploads \ {f} /\ torn' = torn \ {f}
  <2>1. Through' = Through \cup {f}
    BY <1>1, <1>4, <1>8
  <2>2. staged' \in [VmFiles -> B!Contents] /\ staged'[f] = listed[f]
        /\ (\A g \in VmFiles \ {f} : staged'[g] = staged[g])
    BY <1>3, <1>8
  <2>3. (\A g \in missingIds : Whole(g)) /\ Taken = missingIds \ uploads
        /\ Taken' = Taken \cup {f}
    BY <1>2, <1>4, <1>8 DEF BatchInv, BatchShape, Taken, Whole
  <2>4. missingIds \cap commit.todo \subseteq uploads
    <3>1. CASE Through # {}
      BY <3>1 DEF BatchInv, TakenInOrder
    <3>2. CASE Through = {}
      <4>1. missingIds \subseteq commit.todo
        BY <1>4, <3>2
      <4>2. ASSUME NEW g \in missingIds, g \notin uploads PROVE FALSE
        <5>1. g \in Taken /\ f \in missingIds \cap uploads
          BY <1>8, <2>3, <4>2
        <5>2. g < f
          BY <5>1 DEF BatchInv, TakenInOrder
        <5>3. f <= g /\ f \in Nat /\ g \in Nat
          BY <1>1, <1>3, <1>8, <4>1, <4>2
        <5>4. QED BY <5>2, <5>3
      <4>3. QED BY <4>2
    <3>3. QED BY <3>1, <3>2
  <2>5. TakenInOrder'
    <3>1. \A g \in missingIds \cap uploads' : g \in commit.todo /\ f < g
      <4>1. \A g \in missingIds \cap uploads : g \in commit.todo
        BY <1>4 DEF BatchInv, TakenInOrder
      <4>2. QED BY <1>1, <1>3, <1>8, <4>1
    <3>2. \A g \in missingIds \cap uploads', h \in Taken' : h < g
      BY <1>8, <2>3, <3>1 DEF BatchInv, TakenInOrder
    <3>3. Through' \cap uploads' = {} /\ missingIds \cap commit'.todo \subseteq uploads'
      BY <1>4, <1>8, <2>1, <2>4 DEF BatchInv, TakenInOrder
    <3>4. QED BY <1>2, <2>3, <3>2, <3>3 DEF TakenInOrder, Whole
  <2>6. TreeMatches'
    <3>1. record = "prepared"
      BY <1>4 DEF BatchInv, BatchShape
    <3>2. \A g \in B!Listed \ (commit'.todo \cup torn') : Arrived(g)'
      BY <1>2, <1>4, <1>8, <2>2 DEF BatchInv, TreeMatches, Arrived
    <3>3. QED BY <1>1, <1>2, <1>4, <1>8, <2>1, <2>2, <3>1, <3>2 DEF BatchInv, TreeMatches, Arrived
  <2>7. QED BY <1>6, <1>8, <2>2, <2>5, <2>6 DEF BatchInv
<1>9. f \in missingIds => listed[f] # B!Gone
  BY DEF BatchInv, BatchShape
<1>10. QED BY <1>7, <1>8, <1>9 DEF B!CommitEntry

\* The record is marked when its manifest is saved and all its files are taken.
LEMMA CommittedKeepsBatches ==
  ASSUME B!BatchesAssumption, BatchInv, B!Committed
  PROVE  BatchInv'
<1> USE BatchValues, ListedFiles, SameListed
<1>1. /\ commit.at = "record" /\ record' = "committed" /\ missingIds' = {} /\ bytes' = B!Zero
      /\ commit' = B!NoCommit
      /\ UNCHANGED <<vm, partial, uploads, held, staged, torn, dirty, backed, overlooked, hostUp, bounds>>
  BY DEF B!Committed, B!vmVars
<1>2. queued' = [timer |-> TRUE, changed |-> queued.changed \cup commit.changed,
                 deleted |-> queued.deleted \cup commit.deleted]
  BY DEF B!Committed, B!QueueBatch
<1>3. queued' \in QueueType
  BY <1>2 DEF BatchInv, BatchTypes, CommitType, QueueType
<1>4. /\ Committing /\ commit.todo = {} /\ Through = missingIds /\ record = "prepared"
      /\ missing = {} /\ held = commit.manifest
  BY <1>1 DEF BatchInv, BatchShape, Committing, Through
<1>5. uploads = {}
  BY <1>4 DEF BatchInv, BatchTypes, TakenInOrder
<1>6. \A f \in B!Listed \ torn : Arrived(f)
  BY <1>4 DEF BatchInv, TreeMatches
<1>7. /\ ~Committing' /\ Through' = {} /\ Taken' = {} /\ commit'.todo = {} /\ commit'.at = "none"
      /\ commit'.changed = {} /\ commit'.deleted = {}
  BY <1>1 DEF Committing, Through, Taken
<1>8. \A f \in VmFiles : held[f] = IF f \in B!Listed THEN listed[f] ELSE held[f]
  BY <1>4 DEF BatchInv, BatchShape
<1>9. \A f \in VmFiles \ torn : held[f] # B!Gone /\ staged[f] # B!Gone => staged[f] = held[f]
  BY <1>4, <1>6, <1>8 DEF BatchInv, BatchTypes, TreeMatches, Arrived
<1>10. TakenInOrder'
  BY <1>1, <1>7 DEF TakenInOrder
<1>11. CASE B!ApplyCommittedBatch
  <2>1. BatchTypes'
    BY <1>1, <1>3, <1>5, <1>6, <1>11, ApplyKeepsTree DEF BatchInv, BatchTypes
  <2>2. BatchShape'
    BY <1>1, <1>5, <1>6, <1>7, <1>11, ApplyKeepsTree DEF BatchShape
  <2>3. TreeMatches'
    BY <1>1, <1>6, <1>7, <1>9, <1>11, ApplyKeepsTree DEF TreeMatches
  <2>4. QED BY <1>10, <2>1, <2>2, <2>3 DEF BatchInv
<1>12. CASE B!GiveUp
  <2>1. phase' = "idle" /\ missing' = {} /\ offset' = B!Zero /\ UNCHANGED <<known, listed>>
    BY <1>12 DEF B!GiveUp
  <2>2. BatchTypes'
    BY <1>1, <1>3, <1>5, <2>1 DEF BatchInv, BatchTypes
  <2>3. BatchShape'
    BY <1>1, <1>5, <1>7, <2>1 DEF BatchShape
  <2>4. TreeMatches'
    BY <1>1, <1>6, <1>7, <1>9, <2>1 DEF BatchInv, TreeMatches, Arrived
  <2>5. QED BY <1>10, <2>2, <2>3, <2>4 DEF BatchInv
<1>13. QED BY <1>11, <1>12 DEF B!Committed

\* What the program and its backup remember, over a step of the receiver.
Beside == queued' \in QueueType /\ dirty' \subseteq VmFiles /\ overlooked' \subseteq VmFiles
          /\ backed' = backed /\ hostUp' \in BOOLEAN /\ bounds' \in BoundsType

\* A request ends in the middle: what one handler has done of it stays.
LEMMA HalfKeepsBatches ==
  ASSUME B!BatchesAssumption, BatchInv, ~Committing, Beside, B!HalfReceived, B!GiveUp,
         UNCHANGED <<vm, record, missingIds, bytes, held, staged, commit, torn>>
  PROVE  BatchInv'
<1> USE BatchValues, ListedFiles, SameListed
<1>1. /\ phase' = "idle" /\ missing' = {} /\ offset' = B!Zero /\ UNCHANGED <<known, listed>>
      /\ B!Listed' = B!Listed
  BY DEF B!GiveUp
<1>2. /\ partial' \in [VmFiles -> 0 .. 1]
      /\ uploads \subseteq uploads' /\ (uploads' = uploads \/ missing # {})
      /\ uploads' \subseteq uploads \cup missing
  <2>1. partial \in [VmFiles -> 0 .. 1] /\ 0 \in 0 .. 1 /\ 1 \in 0 .. 1
    BY DEF BatchInv, BatchTypes
  <2>2. CASE UNCHANGED <<partial, uploads>>
    BY <2>1, <2>2
  <2>3. ASSUME NEW f \in missing, partial' = [partial EXCEPT ![f] = 0], uploads' = uploads \cup {f}
        PROVE  <1>2!:
    BY <2>1, <2>3
  <2>4. ASSUME NEW f \in missing, partial' = [partial EXCEPT ![f] = 1], uploads' = uploads
        PROVE  <1>2!:
    BY <2>1, <2>4
  <2>5. QED BY <2>2, <2>3, <2>4 DEF B!HalfReceived
<1>3. /\ missing \subseteq {f \in missingIds : ~Whole(f)} /\ missingIds \subseteq B!Listed
      /\ missingIds \subseteq VmFiles /\ uploads \subseteq missingIds
  BY DEF BatchInv, BatchShape, BatchTypes
<1>4. ~Committing' /\ Through' = {} /\ Through = {}
  BY DEF Committing, Through
<1>5. BatchTypes'
  BY <1>1, <1>2, <1>3 DEF BatchInv, BatchTypes, Beside
<1>6. BatchShape'
  BY <1>1, <1>2, <1>3, <1>4 DEF BatchInv, BatchShape, Whole
<1>7. TakenInOrder'
  <2>1. Taken' \subseteq Taken
    BY <1>2 DEF Taken, Whole
  <2>2. CASE uploads' = uploads
    BY <1>4, <2>1, <2>2 DEF BatchInv, TakenInOrder, Whole
  <2>3. CASE missing # {}
    <3>1. Taken = {}
      BY <1>3, <2>3 DEF BatchInv, TakenInOrder
    <3>2. QED BY <1>4, <2>1, <3>1 DEF TakenInOrder
  <2>4. QED BY <1>2, <2>2, <2>3
<1>8. QED BY <1>1, <1>5, <1>6, <1>7, TreeStays DEF BatchInv

\* A commit ends in the middle: the files that it has replaced in the tree, and that
\* the manifest does not know, are remembered as torn; one may be out of the way.
LEMMA CutShortKeepsBatches ==
  ASSUME B!BatchesAssumption, BatchInv, Committing, Beside, B!CutShort,
         B!Displaced \/ UNCHANGED staged,
         UNCHANGED <<vm, record, missingIds, bytes, partial, uploads, held>>
  PROVE  BatchInv'
<1> USE BatchValues, ListedFiles, SameListed
<1>1. /\ commit' = B!NoCommit /\ phase' = "idle" /\ missing' = {} /\ offset' = B!Zero
      /\ torn' = torn \cup {f \in missingIds : staged[f] = listed[f] /\ held[f] # listed[f]}
      /\ UNCHANGED <<known, listed>> /\ B!Listed' = B!Listed
  BY DEF B!CutShort, B!GiveUp
<1>2. /\ missingIds \subseteq B!Listed /\ missingIds \subseteq VmFiles /\ torn \subseteq VmFiles
      /\ torn \subseteq torn' /\ torn' \subseteq VmFiles /\ record = "prepared"
  BY <1>1 DEF BatchInv, BatchShape, BatchTypes
<1>3. /\ ~Committing' /\ Through' = {} /\ commit'.todo = {} /\ commit'.at = "none"
      /\ commit'.changed = {} /\ commit'.deleted = {}
  BY <1>1 DEF Committing, Through
<1>4. /\ staged' \in [VmFiles -> B!Contents]
      /\ \A f \in VmFiles : staged'[f] = staged[f] \/ (staged'[f] = B!Gone /\ f \in missingIds)
  <2>1. staged \in [VmFiles -> B!Contents]
    BY DEF BatchInv, BatchTypes
  <2>2. CASE UNCHANGED staged
    BY <2>1, <2>2
  <2>3. ASSUME NEW f \in missingIds, staged' = [staged EXCEPT ![f] = B!Gone]
        PROVE  <1>4!:
    BY <1>2, <2>1, <2>3
  <2>4. QED BY <2>2, <2>3 DEF B!Displaced
<1>5. BatchTypes'
  BY <1>1, <1>2, <1>4 DEF BatchInv, BatchTypes, Beside
<1>6. BatchShape'
  BY <1>1, <1>2, <1>3 DEF BatchInv, BatchShape, Whole
<1>7. TakenInOrder'
  BY <1>1, <1>3 DEF BatchInv, TakenInOrder, Taken, Whole
<1>8. ASSUME NEW f \in VmFiles \ torn', held[f] # B!Gone, staged'[f] # B!Gone
      PROVE  staged'[f] = held[f]
  <2>1. staged'[f] = staged[f] /\ f \notin torn
    BY <1>2, <1>4, <1>8
  <2>2. CASE f \notin Through
    BY <1>8, <2>1, <2>2 DEF BatchInv, TreeMatches
  <2>3. CASE f \in Through
    <3>1. f \in missingIds /\ f \notin commit.todo
      BY <2>3 DEF Through
    <3>2. staged[f] = listed[f]
      BY <1>2, <2>1, <3>1 DEF BatchInv, BatchShape, TreeMatches, Arrived
    <3>3. QED BY <1>1, <1>8, <2>1, <3>1, <3>2
  <2>4. QED BY <2>2, <2>3
<1>9. ASSUME NEW f \in VmFiles \ torn', f \notin B!Listed, known[f] # B!Gone
      PROVE  staged'[f] = known[f]
  BY <1>2, <1>4, <1>9 DEF BatchInv, TreeMatches
<1>10. ASSUME NEW f \in B!Listed \ (missingIds \cup torn'), listed[f] # B!Gone
       PROVE  staged'[f] = listed[f]
  BY <1>2, <1>4, <1>10 DEF BatchInv, TreeMatches, Arrived
<1>11. TreeMatches'
  BY <1>1, <1>2, <1>3, <1>8, <1>9, <1>10 DEF TreeMatches, Arrived
<1>12. QED BY <1>5, <1>6, <1>7, <1>11 DEF BatchInv

\* Operations that fail, and the end of the program.
LEMMA BreakKeepsBatches ==
  ASSUME B!BatchesAssumption, BatchInv, B!ReceiverFails \/ B!CommitFails \/ B!Crash
  PROVE  BatchInv'
<1> USE BatchValues
<1>1. /\ bounds \in BoundsType /\ queued \in QueueType /\ dirty \subseteq VmFiles
      /\ overlooked \subseteq VmFiles /\ commit.changed \subseteq VmFiles /\ hostUp \in BOOLEAN
  <2>1. /\ bounds \in BoundsType /\ queued \in QueueType /\ dirty \subseteq VmFiles
        /\ overlooked \subseteq VmFiles /\ commit \in CommitType /\ hostUp \in BOOLEAN
    BY DEF BatchInv, BatchTypes
  <2>2. QED BY <2>1 DEF CommitType
<1>2. bounds.crashes < MaxCrashes => [bounds EXCEPT !.crashes = @ + 1] \in BoundsType
  BY <1>1 DEF BoundsType, B!BatchesAssumption
<1>3. CASE B!ReceiverFails
  <2>1. /\ phase = "sending" /\ B!HalfReceived /\ B!GiveUp
        /\ UNCHANGED <<vm, record, missingIds, bytes, held, staged, commit, torn>>
    BY <1>3 DEF B!ReceiverFails, B!vmVars, B!treeVars
  <2>2. Beside
    BY <1>1, <1>2, <1>3 DEF B!ReceiverFails, B!backupVars, Beside
  <2>3. ~Committing
    BY <2>1 DEF BatchInv, BatchShape
  <2>4. QED BY <2>1, <2>2, <2>3, HalfKeepsBatches
<1>4. CASE B!CommitFails
  <2>1. /\ Committing /\ B!CutShort /\ (B!Displaced \/ UNCHANGED staged)
        /\ UNCHANGED <<vm, record, missingIds, bytes, partial, uploads, held>>
    BY <1>4 DEF B!CommitFails, Committing, B!vmVars, B!recordVars
  <2>2. Beside
    BY <1>1, <1>2, <1>4 DEF B!CommitFails, Beside
  <2>3. QED BY <2>1, <2>2, CutShortKeepsBatches
<1>5. CASE B!Crash
  <2>1. Beside
    BY <1>1, <1>2, <1>5 DEF B!Crash, Beside
  <2>2. CASE ~Committing
    <3>1. /\ B!HalfReceived /\ B!GiveUp
          /\ UNCHANGED <<vm, record, missingIds, bytes, held, staged, commit, torn>>
      BY <1>5, <2>2 DEF B!Crash, B!vmVars, Committing
    <3>2. QED BY <2>1, <2>2, <3>1, HalfKeepsBatches
  <2>3. CASE Committing
    <3>1. missing = {}
      BY <2>3 DEF BatchInv, BatchShape
    <3>2. UNCHANGED <<partial, uploads>>
      BY <1>5, <3>1 DEF B!Crash, B!HalfReceived
    <3>3. /\ B!CutShort /\ (B!Displaced \/ UNCHANGED staged)
          /\ UNCHANGED <<vm, record, missingIds, bytes, held>>
      BY <1>5, <2>3 DEF B!Crash, B!vmVars, Committing
    <3>4. QED BY <2>1, <2>3, <3>2, <3>3, CutShortKeepsBatches
  <2>4. QED BY <2>2, <2>3
<1>6. QED BY <1>3, <1>4, <1>5

\* What is backed up of the tree does not bear on the tree.
LEMMA BackupKeepsBatches ==
  ASSUME B!BatchesAssumption, BatchInv,
         B!RegisterForBackup \/ B!BackUp \/ B!Start \/ UNCHANGED B!vars
  PROVE  BatchInv'
<1> USE BatchValues, ListedFiles, SameListed
<1>1. /\ UNCHANGED <<vm, known, listed, phase, missing, offset, record, missingIds, bytes, partial, uploads,
                     held, staged, commit, torn, bounds>>
      /\ (hostUp' = hostUp \/ hostUp' = TRUE)
  BY DEF B!RegisterForBackup, B!BackUp, B!Start, B!vars, B!vmVars, B!agentVars, B!recordVars,
         B!treeVars, B!backupVars
<1>2. B!Differing \subseteq VmFiles /\ B!Walked \subseteq VmFiles
  BY DEF B!Differing, B!Walked
<1>3. queued' \in QueueType
  BY DEF B!RegisterForBackup, B!BackUp, B!Start, B!vars, B!backupVars, BatchInv, BatchTypes
<1>4. dirty' \subseteq VmFiles /\ overlooked' \subseteq VmFiles
  <2>1. dirty \subseteq VmFiles /\ overlooked \subseteq VmFiles /\ queued \in QueueType
    BY DEF BatchInv, BatchTypes
  <2>2. CASE B!RegisterForBackup
    <3> DEFINE told == {f \in queued.changed : staged[f] # B!Gone} \cup queued.deleted
               marked == IF told = {} THEN B!Walked ELSE told
    <3>1. dirty' = dirty \cup marked /\ overlooked' = overlooked \ marked
      BY <2>2 DEF B!RegisterForBackup
    <3>2. told \subseteq VmFiles
      BY <2>1 DEF QueueType
    <3>3. marked \subseteq VmFiles
      BY <1>2, <3>2
    <3> HIDE DEF marked
    <3>4. QED BY <2>1, <3>1, <3>3
  <2>3. CASE B!Start
    BY <1>2, <2>1, <2>3 DEF B!Start, B!Reconciled
  <2>4. CASE B!BackUp \/ UNCHANGED B!vars
    BY <2>1, <2>4 DEF B!BackUp, B!vars, B!backupVars
  <2>5. QED BY <2>2, <2>3, <2>4
<1>5. backed' \in [VmFiles -> B!Contents]
  BY DEF B!RegisterForBackup, B!BackUp, B!Start, B!vars, B!backupVars, BatchInv, BatchTypes
<1>6. BatchTypes'
  BY <1>1, <1>3, <1>4, <1>5 DEF BatchInv, BatchTypes
<1>7. BatchShape' /\ TakenInOrder'
  BY <1>1 DEF BatchInv, BatchTypes, BatchShape, TakenInOrder, Taken, Whole, Committing, Through
<1>8. QED BY <1>1, <1>6, <1>7, TreeStays DEF BatchInv

LEMMA BatchStep == B!BatchesAssumption /\ BatchInv /\ [B!Next]_(B!vars) => BatchInv'
BY AgentKeepsBatches, PrepareKeepsBatches, SendKeepsBatches, CommitKeepsBatches, EntryKeepsBatches,
   CommittedKeepsBatches, BreakKeepsBatches, BackupKeepsBatches
DEF B!Next, B!SyncPendingBatch, B!HandleCommit

\* Whatever answers are lost and batches retried, wherever the host crashes, and
\* whichever of its file operations fail, what the agent believes staged is staged
\* when it has nothing to send.
THEOREM KnownFilesAreStaged == Spec => []KnownIsStaged
<1>1. Init => BatchInv
  BY BatchInit, PromisesAssumption DEF Init
<1>2. BatchInv /\ [Step]_vars => BatchInv'
  BY OneMoves, BatchStep, PromisesAssumption
<1>3. BatchInv => KnownIsStaged
  BY DEF BatchInv, TreeMatches, KnownIsStaged, B!KnownIsStaged
<1>4. QED BY <1>1, <1>2, <1>3, PTL DEF Spec, Step

-----------------------------------------------------------------------------
(* LanTransfers.  One job runs at a time, so that the target is as the     *)
(* job has left it; that nothing of the user's is there when it starts to  *)
(* write rests on the folder it has opened and on the names it has asked.  *)

QueueShape ==
  \A j \in Jobs :
    /\ status[j] \in {"none", "queued", "running"} => ~verified[j]
    /\ status[j] = "none" => tries[j] = 0
    /\ status[j] = "queued" => tries[j] < MaxTries

\* What the running job has delivered lies in one folder, file by file, and the
\* place of the next file is free until it writes.
TransferShape ==
  currentJob # 0 =>
    /\ transfer.phase # "idle"
    /\ transfer.phase = "text" => T!Kind = "drop-text"
    /\ T!Kind = "drop-text" => transfer.phase \in {"text", "cut"}
    /\ transfer.phase = "root" => T!Kind \in T!Folder
    /\ transfer.phase = "root" \/ T!Kind \notin T!Folder => transfer.file = 1
    /\ transfer.phase = "requested" => T!At(T!Place) = "none"
    /\ transfer.phase = "writing" => T!At(T!Place) = "partial"
    /\ made = {transfer.slot} \X (1 .. transfer.file - 1)

\* A folder opened beside others is empty but for what the job has put there.
RootsShape ==
  /\ \A k \in Kinds \cap T!Folder, p \in T!Slots \X T!Files : disk[k][p] # "none" => p[1] \in roots[k]
  /\ currentJob # 0 /\ T!Kind \in T!Folder /\ transfer.phase \notin {"root", "cut"} =>
       /\ transfer.slot \in roots[T!Kind]
       /\ T!Strategy = "keepBoth" =>
            \A f \in T!Files : f > transfer.file \/ (f = transfer.file /\ transfer.phase # "writing") =>
              disk[T!Kind][<<transfer.slot, f>>] = "none"

WholeSoFar == "skip" \notin Strategies /\ currentJob # 0 => \A p \in made : T!At(p) = "whole"

TransferInv == T!TypeOK /\ QueueShape /\ TransferShape /\ RootsShape /\ WholeSoFar

JobsGiven ==
  T!JobsAssumption /\ T!KindsAssumption /\ T!StrategiesAssumption /\ T!BoundsAssumption

Statuses == {"none", "queued", "running", "cleared"} \cup T!Finished

DiskType == [Kinds -> [T!Slots \X T!Files -> {"none", "old", "partial", "whole"}]]

LEMMA MinOfJobs ==
  ASSUME NEW S \in SUBSET Nat, S # {}
  PROVE  T!Min(S) \in S
BY MinOfFiles DEF T!Min, B!Min

LEMMA JobValues ==
  ASSUME JobsGiven
  PROVE  /\ 0 \notin Jobs /\ Jobs \subseteq Nat
         /\ T!Files \subseteq Nat \ {0} /\ 1 \in T!Files /\ T!Slots \subseteq Nat \ {0} /\ 1 \in T!Slots
         /\ T!Files = 1 .. FolderSize /\ T!Slots = 1 .. MaxSlot /\ FolderSize \in Nat
         /\ MaxTries \in Nat \ {0}
         /\ T!Idle \in [phase : {"idle", "root", "file", "requested", "writing", "text", "cut"},
                        file : T!Files, slot : T!Slots]
         /\ T!Idle.phase = "idle" /\ T!Idle.file = 1 /\ T!Idle.slot = 1
BY DEF JobsGiven, T!JobsAssumption, T!BoundsAssumption, T!Files, T!Slots, T!Idle

LEMMA TransferInit == JobsGiven /\ T!Init => TransferInv
<1> SUFFICES ASSUME JobsGiven, T!Init PROVE TransferInv
  OBVIOUS
<1> USE JobValues
<1>1. /\ payload \in [Jobs -> [kind : Kinds, strategy : Strategies]]
      /\ status = [j \in Jobs |-> "none"] /\ verified = [j \in Jobs |-> FALSE]
      /\ tries = [j \in Jobs |-> 0]
      /\ currentJob = 0 /\ cancelled = FALSE /\ transfer = T!Idle /\ made = {} /\ immediate = FALSE
  BY DEF T!Init
<1>2. PICK old \in BOOLEAN :
        /\ roots = [k \in Kinds |-> IF old THEN {1} ELSE {}]
        /\ disk  = [k \in Kinds |-> [p \in T!Slots \X T!Files |->
                      IF old /\ p = <<1, 1>> THEN "old" ELSE "none"]]
  BY DEF T!Init
<1>3. disk \in DiskType /\ roots \in [Kinds -> SUBSET T!Slots]
  BY <1>2 DEF DiskType
<1>4. T!TypeOK
  <2>1. \A j \in Jobs : status[j] = "running" <=> j = currentJob
    BY <1>1
  <2>2. tries \in [Jobs -> 0 .. MaxTries]
    BY <1>1
  <2>3. QED BY <1>1, <1>3, <2>1, <2>2 DEF T!TypeOK, DiskType
<1>5. QueueShape
  BY <1>1 DEF QueueShape
<1>6. RootsShape
  BY <1>1, <1>2 DEF RootsShape
<1>7. QED BY <1>1, <1>4, <1>5, <1>6 DEF TransferInv, TransferShape, WholeSoFar

\* The transfer of the running job stays as it is.
LEMMA TransferStays ==
  ASSUME TransferInv, UNCHANGED <<payload, currentJob, transfer, made, roots, disk>>
  PROVE  TransferShape' /\ RootsShape' /\ WholeSoFar'
BY DEF TransferInv, TransferShape, RootsShape, WholeSoFar, T!Kind, T!Strategy, T!At, T!Place

\* The next job starts unless one runs, and then nothing else changes.
LEMMA NextStarts ==
  ASSUME JobsGiven, TransferInv, UNCHANGED <<payload, roots, disk>>,
         immediate' \in BOOLEAN, verified' \in [Jobs -> BOOLEAN],
         NEW st \in [Jobs -> Statuses], T!ProcessNext(st),
         \A j \in Jobs : st[j] = "running" <=> j = currentJob,
         \A j \in Jobs : st[j] \in {"none", "queued", "running"} => ~verified'[j],
         \A j \in Jobs : st[j] = "none" => tries[j] = 0,
         \A j \in Jobs : st[j] = "queued" => tries[j] < MaxTries
  PROVE  /\ TransferInv'
         /\ \A j \in Jobs : status'[j] = st[j] \/ (st[j] = "queued" /\ status'[j] = "running")
<1> USE JobValues
<1> DEFINE queue == {j \in Jobs : st[j] = "queued"}
<1>1. CASE currentJob # 0 \/ queue = {}
  <2>1. status' = st /\ UNCHANGED <<tries, currentJob, cancelled, transfer, made>>
    BY <1>1 DEF T!ProcessNext
  <2>2. T!TypeOK'
    BY <2>1 DEF TransferInv, T!TypeOK, Statuses
  <2>3. QueueShape'
    BY <2>1 DEF QueueShape
  <2>4. QED BY <2>1, <2>2, <2>3, TransferStays DEF TransferInv
<1>2. CASE currentJob = 0 /\ queue # {}
  <2> DEFINE next == T!Min(queue)
  <2>1. next \in queue /\ next \in Jobs /\ next # 0
    <3>1. queue \in SUBSET Nat /\ queue # {}
      BY <1>2
    <3>2. next \in queue
      BY <3>1, MinOfJobs
    <3>3. QED BY <3>2
  <2>2. /\ status' = [st EXCEPT ![next] = "running"] /\ tries' = [tries EXCEPT ![next] = @ + 1]
        /\ currentJob' = next /\ cancelled' = FALSE /\ made' = {}
        /\ transfer' = [T!Idle EXCEPT !.phase = T!FirstPhase(payload[next].kind)]
    BY <1>2 DEF T!ProcessNext
  <2> HIDE DEF next
  <2>3. /\ transfer' \in [phase : {"idle", "root", "file", "requested", "writing", "text", "cut"},
                          file : T!Files, slot : T!Slots]
        /\ transfer'.phase = T!FirstPhase(payload[next].kind) /\ transfer'.file = 1
        /\ transfer'.phase \in {"root", "text", "file"}
    BY <2>2 DEF T!FirstPhase
  <2>4. transfer' # T!Idle
    BY <2>3
  <2>5. status' \in [Jobs -> Statuses] /\ status'[next] = "running"
        /\ \A j \in Jobs \ {next} : status'[j] = st[j]
    BY <2>1, <2>2 DEF Statuses
  <2>6. \A j \in Jobs : status'[j] = "running" <=> j = currentJob'
    BY <1>2, <2>1, <2>2, <2>5
  <2>7. tries' \in [Jobs -> 0 .. MaxTries] /\ \A j \in Jobs \ {next} : tries'[j] = tries[j]
    BY <2>1, <2>2 DEF TransferInv, T!TypeOK
  <2>8. T!TypeOK'
    BY <2>1, <2>2, <2>3, <2>4, <2>5, <2>6, <2>7 DEF TransferInv, T!TypeOK, Statuses
  <2>9. QueueShape'
    BY <2>1, <2>5, <2>7 DEF QueueShape
  <2>10. TransferShape'
    <3>1. 1 .. transfer'.file - 1 = {}
      BY <2>3
    <3>2. QED BY <2>2, <2>3, <3>1 DEF TransferShape, T!FirstPhase, T!Kind, T!Folder
  <2>11. RootsShape'
    <3>1. payload[next].kind \in T!Folder => transfer'.phase = "root"
      BY <2>3 DEF T!FirstPhase
    <3>2. QED BY <2>2, <3>1 DEF TransferInv, RootsShape, T!Kind
  <2>12. WholeSoFar'
    BY <2>2 DEF WholeSoFar
  <2>13. QED BY <2>1, <2>5, <2>8, <2>9, <2>10, <2>11, <2>12 DEF TransferInv
<1>3. QED BY <1>1, <1>2

\* The user's commands and the immediates between jobs.
Commanded(j) == T!Enqueue(j) \/ T!Retry(j) \/ T!Cancel(j)

LEMMA CommandsKeepTransfers ==
  ASSUME JobsGiven, TransferInv,
         (\E j \in Jobs : Commanded(j)) \/ T!ClearFinished \/ T!Immediate
  PROVE  TransferInv'
<1> USE JobValues
<1>1. /\ status \in [Jobs -> Statuses] /\ verified \in [Jobs -> BOOLEAN] /\ tries \in [Jobs -> 0 .. MaxTries]
      /\ immediate \in BOOLEAN /\ cancelled \in BOOLEAN
      /\ \A j \in Jobs : status[j] = "running" <=> j = currentJob
  BY DEF TransferInv, T!TypeOK, Statuses
<1>2. ASSUME NEW j \in Jobs, T!Enqueue(j) PROVE TransferInv'
  <2> DEFINE st == [status EXCEPT ![j] = "queued"]
  <2>1. /\ status[j] = "none" /\ T!ProcessNext(st) /\ UNCHANGED <<payload, verified, immediate, roots, disk>>
    BY <1>2 DEF T!Enqueue
  <2>2. st \in [Jobs -> Statuses] /\ st[j] = "queued" /\ \A i \in Jobs \ {j} : st[i] = status[i]
    BY <1>1 DEF Statuses
  <2> HIDE DEF st
  <2>3. /\ \A i \in Jobs : st[i] = "running" <=> i = currentJob
        /\ \A i \in Jobs : st[i] \in {"none", "queued", "running"} => ~verified'[i]
        /\ \A i \in Jobs : st[i] = "none" => tries[i] = 0
        /\ \A i \in Jobs : st[i] = "queued" => tries[i] < MaxTries
    BY <1>1, <2>1, <2>2 DEF TransferInv, QueueShape
  <2>4. immediate' \in BOOLEAN /\ verified' \in [Jobs -> BOOLEAN]
    BY <1>1, <2>1
  <2>5. QED BY <2>1, <2>2, <2>3, <2>4, NextStarts
<1>3. ASSUME NEW j \in Jobs, T!Retry(j) PROVE TransferInv'
  <2> DEFINE st == [status EXCEPT ![j] = "queued"]
  <2>1. /\ status[j] \in {"failed", "canceled"} /\ tries[j] < MaxTries
        /\ T!ProcessNext(st) /\ UNCHANGED <<payload, immediate, roots, disk>>
        /\ verified' = [verified EXCEPT ![j] = FALSE]
    BY <1>3 DEF T!Retry
  <2>2. st \in [Jobs -> Statuses] /\ st[j] = "queued" /\ \A i \in Jobs \ {j} : st[i] = status[i]
    BY <1>1 DEF Statuses
  <2> HIDE DEF st
  <2>3. verified' \in [Jobs -> BOOLEAN] /\ ~verified'[j] /\ \A i \in Jobs \ {j} : verified'[i] = verified[i]
    BY <1>1, <2>1
  <2>4. /\ \A i \in Jobs : st[i] = "running" <=> i = currentJob
        /\ \A i \in Jobs : st[i] \in {"none", "queued", "running"} => ~verified'[i]
        /\ \A i \in Jobs : st[i] = "none" => tries[i] = 0
        /\ \A i \in Jobs : st[i] = "queued" => tries[i] < MaxTries
    BY <1>1, <2>1, <2>2, <2>3 DEF TransferInv, QueueShape
  <2>5. immediate' \in BOOLEAN
    BY <1>1, <2>1
  <2>6. QED BY <2>1, <2>2, <2>3, <2>4, <2>5, NextStarts
<1>4. ASSUME NEW j \in Jobs, T!Cancel(j) PROVE TransferInv'
  <2>1. UNCHANGED <<payload, verified, tries, currentJob, immediate, transfer, made, roots, disk>>
    BY <1>4 DEF T!Cancel
  <2>2. /\ status' \in [Jobs -> Statuses] /\ cancelled' \in BOOLEAN
        /\ \A i \in Jobs : status'[i] = status[i] \/ (status[i] = "queued" /\ status'[i] = "canceled")
    BY <1>1, <1>4 DEF T!Cancel, Statuses, T!Finished
  <2>3. T!TypeOK'
    BY <2>1, <2>2 DEF TransferInv, T!TypeOK, Statuses
  <2>4. QueueShape'
    BY <2>1, <2>2 DEF TransferInv, QueueShape
  <2>5. QED BY <2>1, <2>3, <2>4, TransferStays DEF TransferInv
<1>5. CASE T!ClearFinished
  <2>1. /\ UNCHANGED <<payload, verified, tries, currentJob, cancelled, immediate, transfer, made, roots, disk>>
        /\ status' = [j \in Jobs |-> IF status[j] \in T!Finished THEN "cleared" ELSE status[j]]
    BY <1>5 DEF T!ClearFinished
  <2>2. /\ status' \in [Jobs -> Statuses]
        /\ \A i \in Jobs : status'[i] = status[i] \/ (status[i] \in T!Finished /\ status'[i] = "cleared")
    BY <1>1, <2>1 DEF Statuses
  <2>3. T!TypeOK'
    BY <2>1, <2>2 DEF TransferInv, T!TypeOK, Statuses, T!Finished
  <2>4. QueueShape'
    BY <2>1, <2>2 DEF TransferInv, QueueShape
  <2>5. QED BY <2>1, <2>3, <2>4, TransferStays DEF TransferInv
<1>6. CASE T!Immediate
  <2>1. T!ProcessNext(status) /\ immediate' \in BOOLEAN /\ UNCHANGED <<payload, verified, roots, disk>>
    BY <1>6 DEF T!Immediate
  <2>2. /\ \A i \in Jobs : status[i] \in {"none", "queued", "running"} => ~verified'[i]
        /\ \A i \in Jobs : status[i] = "none" => tries[i] = 0
        /\ \A i \in Jobs : status[i] = "queued" => tries[i] < MaxTries
    BY <2>1 DEF TransferInv, QueueShape
  <2>3. QED BY <1>1, <2>1, <2>2, NextStarts
<1>7. QED BY <1>2, <1>3, <1>4, <1>5, <1>6 DEF Commanded

LEMMA Written ==
  ASSUME disk \in DiskType, NEW k \in Kinds, NEW p \in T!Slots \X T!Files,
         NEW v \in {"none", "old", "partial", "whole"}, disk' = [disk EXCEPT ![k][p] = v]
  PROVE  /\ disk' \in DiskType /\ disk'[k][p] = v
         /\ \A l \in Kinds, q \in T!Slots \X T!Files : l # k \/ q # p => disk'[l][q] = disk[l][q]
BY DEF DiskType

\* The running job: its types, and its place in the tree.
LEMMA CurrentJob ==
  ASSUME JobsGiven, TransferInv, transfer.phase # "idle"
  PROVE  /\ currentJob \in Jobs /\ currentJob # 0 /\ status[currentJob] = "running"
         /\ T!Kind \in Kinds /\ T!Strategy \in Strategies
         /\ transfer.file \in T!Files /\ transfer.slot \in T!Slots
         /\ T!Place \in T!Slots \X T!Files /\ T!Place = <<transfer.slot, transfer.file>>
         /\ disk \in DiskType /\ roots \in [Kinds -> SUBSET T!Slots]
         /\ transfer \in [phase : {"idle", "root", "file", "requested", "writing", "text", "cut"},
                          file : T!Files, slot : T!Slots]
         /\ transfer # T!Idle
<1> USE JobValues
<1>1. currentJob # 0 /\ transfer # T!Idle
  BY DEF TransferInv, T!TypeOK
<1>2. currentJob \in Jobs /\ payload[currentJob] \in [kind : Kinds, strategy : Strategies]
  BY <1>1 DEF TransferInv, T!TypeOK
<1>3. status[currentJob] = "running"
  BY <1>1, <1>2 DEF TransferInv, T!TypeOK
<1>4. T!Kind \in Kinds /\ T!Strategy \in Strategies
  BY <1>2 DEF T!Kind, T!Strategy
<1>5. QED BY <1>1, <1>2, <1>3, <1>4 DEF TransferInv, T!TypeOK, T!Place, DiskType

LEMMA PlaceWritten ==
  ASSUME JobsGiven, TransferInv, transfer.phase # "idle",
         NEW v \in {"none", "old", "partial", "whole"}, disk' = [disk EXCEPT ![T!Kind][T!Place] = v]
  PROVE  /\ disk' \in DiskType /\ disk'[T!Kind][T!Place] = v
         /\ \A l \in Kinds, p \in T!Slots \X T!Files : l # T!Kind \/ p # T!Place => disk'[l][p] = disk[l][p]
<1>1. T!Kind \in Kinds /\ T!Place \in T!Slots \X T!Files /\ disk \in DiskType
  BY CurrentJob
<1>2. QED BY <1>1 DEF DiskType

\* A job ends, and the target keeps its shape.
LEMMA JobEnds ==
  ASSUME JobsGiven, TransferInv, transfer.phase # "idle", NEW o \in {"complete", "failed"}, T!EndJob(o),
         UNCHANGED roots, disk' \in DiskType, made' \subseteq T!Slots \X T!Files,
         \A k \in Kinds \cap T!Folder, p \in T!Slots \X T!Files :
           disk'[k][p] # "none" => p[1] \in roots[k]
  PROVE  TransferInv'
<1> USE JobValues, CurrentJob
<1>1. /\ status' = [status EXCEPT ![currentJob] = T!Outcome(o)]
      /\ verified' = [verified EXCEPT ![currentJob] = T!Outcome(o) = "complete"]
      /\ currentJob' = 0 /\ cancelled' = FALSE /\ transfer' = T!Idle /\ immediate' = TRUE
      /\ UNCHANGED <<payload, tries>>
  BY DEF T!EndJob, T!SetNext
<1>2. T!Outcome(o) \in T!Finished /\ (T!Outcome(o) = "complete") \in BOOLEAN
  BY DEF T!Outcome, T!Finished
<1>3. /\ status' \in [Jobs -> Statuses] /\ status'[currentJob] \in T!Finished
      /\ \A j \in Jobs \ {currentJob} : status'[j] = status[j]
  BY <1>1, <1>2 DEF TransferInv, T!TypeOK, Statuses
<1>4. /\ verified' \in [Jobs -> BOOLEAN]
      /\ \A j \in Jobs \ {currentJob} : verified'[j] = verified[j]
  BY <1>1, <1>2 DEF TransferInv, T!TypeOK
<1>5. \A j \in Jobs : status'[j] = "running" <=> j = currentJob'
  BY <1>1, <1>3 DEF TransferInv, T!TypeOK, T!Finished
<1>6. T!TypeOK'
  BY <1>1, <1>3, <1>4, <1>5 DEF TransferInv, T!TypeOK, Statuses, DiskType
<1>7. QueueShape'
  BY <1>1, <1>3, <1>4 DEF TransferInv, QueueShape, T!Finished
<1>8. TransferShape' /\ RootsShape' /\ WholeSoFar'
  BY <1>1 DEF TransferShape, RootsShape, WholeSoFar
<1>9. QED BY <1>6, <1>7, <1>8 DEF TransferInv

\* A job goes on with its transfer: the queue stays.
LEMMA QueueStays ==
  ASSUME JobsGiven, TransferInv, UNCHANGED T!queueVars, transfer.phase # "idle",
         transfer' \in [phase : {"root", "file", "requested", "writing", "text", "cut"},
                        file : T!Files, slot : T!Slots],
         made' \subseteq T!Slots \X T!Files,
         disk' \in DiskType, roots' \in [Kinds -> SUBSET T!Slots]
  PROVE  /\ T!TypeOK' /\ QueueShape' /\ T!Kind' = T!Kind /\ T!Strategy' = T!Strategy
         /\ currentJob' = currentJob /\ transfer'.phase # "idle"
<1> USE JobValues
<1>1. UNCHANGED <<payload, status, verified, tries, currentJob, cancelled, immediate>>
  BY DEF T!queueVars
<1>2. transfer' # T!Idle /\ transfer'.phase # "idle" /\ currentJob # 0
  BY CurrentJob
<1>3. T!TypeOK'
  BY <1>1, <1>2 DEF TransferInv, T!TypeOK, DiskType
<1>4. QueueShape'
  BY <1>1 DEF TransferInv, QueueShape
<1>5. QED BY <1>1, <1>2, <1>3, <1>4 DEF T!Kind, T!Strategy

\* The path a file gets is free, unless it was to be replaced; a folder's files
\* stay in the folder.
LEMMA FreeTarget ==
  ASSUME JobsGiven, TransferInv, transfer.phase = "file", NEW s \in T!Target
  PROVE  /\ s \in T!Slots
         /\ T!At(<<s, transfer.file>>) = "none" \/ (T!Conflict /\ T!Strategy = "replace" /\ s = transfer.slot)
         /\ s = transfer.slot \/ (T!Kind \notin T!Folder /\ transfer.file = 1)
<1> USE JobValues, CurrentJob
<1>1. CASE s = transfer.slot /\ (~T!Conflict \/ T!Strategy = "replace")
  BY <1>1 DEF T!Conflict, T!Place
<1>2. CASE T!Conflict /\ T!Strategy = "keepBoth" /\ T!FreeSlots # {} /\ s = T!FreeSlot
  <2>1. s \in T!FreeSlots
    <3>1. T!FreeSlots \in SUBSET Nat
      BY DEF T!FreeSlots
    <3>2. QED BY <1>2, <3>1, MinOfJobs DEF T!FreeSlot
  <2>2. s \in T!Slots /\ T!At(<<s, 1>>) = "none"
    BY <2>1 DEF T!FreeSlots
  <2>3. T!Kind \notin T!Folder
    BY <1>2 DEF TransferInv, RootsShape, T!Conflict, T!Place, T!At
  <2>4. transfer.file = 1
    BY <2>3 DEF TransferInv, TransferShape
  <2>5. QED BY <2>2, <2>3, <2>4
<1>3. QED BY <1>1, <1>2 DEF T!Target

\* What a step of the running job may do to the target.
Untouched ==
  \A k \in Kinds, p \in T!Slots \X T!Files :
    disk[k][p] \in {"old", "whole"} /\ disk'[k][p] # disk[k][p] => currentJob # 0 /\ T!Strategy = "replace"

LEMMA RootKeepsTransfers ==
  ASSUME JobsGiven, TransferInv, T!OpenRoot
  PROVE  TransferInv'
<1> USE JobValues
<1>1. transfer.phase = "root" /\ transfer.phase # "idle" /\ UNCHANGED <<T!queueVars, made, disk>>
  BY DEF T!OpenRoot
<1> USE CurrentJob, <1>1
<1>2. PICK s \in T!Slots : /\ transfer' = [transfer EXCEPT !.phase = "file", !.slot = s]
                           /\ roots' = [roots EXCEPT ![T!Kind] = @ \cup {s}]
                           /\ T!Strategy = "keepBoth" => s \notin roots[T!Kind]
  <2>1. CASE T!Strategy = "keepBoth"
    <3>1. T!FreeRoots # {} /\ T!FreeRoots \in SUBSET Nat
      BY <2>1 DEF T!OpenRoot, T!FreeRoots
    <3>2. T!Min(T!FreeRoots) \in T!FreeRoots
      BY <3>1, MinOfJobs
    <3>3. T!Min(T!FreeRoots) \in T!Slots /\ T!Min(T!FreeRoots) \notin roots[T!Kind]
      BY <3>2 DEF T!FreeRoots
    <3>4. QED BY <2>1, <3>3 DEF T!OpenRoot
  <2>2. CASE T!Strategy # "keepBoth"
    BY <2>2 DEF T!OpenRoot
  <2>3. QED BY <2>1, <2>2
<1>3. /\ transfer' \in [phase : {"root", "file", "requested", "writing", "text", "cut"},
                        file : T!Files, slot : T!Slots]
      /\ transfer'.phase = "file" /\ transfer'.file = 1 /\ transfer'.slot = s /\ transfer.file = 1
      /\ T!Kind \in T!Folder /\ T!Kind # "drop-text" /\ currentJob # 0
      /\ made = {transfer.slot} \X (1 .. transfer.file - 1)
  BY <1>2 DEF TransferInv, TransferShape, T!Folder
<1>4. /\ roots' \in [Kinds -> SUBSET T!Slots] /\ s \in roots'[T!Kind]
      /\ \A k \in Kinds : roots[k] \subseteq roots'[k]
  BY <1>2
<1>5. /\ T!TypeOK' /\ QueueShape' /\ T!Kind' = T!Kind /\ T!Strategy' = T!Strategy
      /\ currentJob' = currentJob
  BY <1>3, <1>4, QueueStays DEF TransferInv, T!TypeOK
<1>6. TransferShape'
  <2>1. made = {} /\ {s} \X (1 .. 1 - 1) = {}
    BY <1>3
  <2>2. QED BY <1>3, <1>5, <2>1 DEF TransferShape
<1>7. RootsShape'
  <2>1. T!Strategy = "keepBoth" => \A f \in T!Files : disk[T!Kind][<<s, f>>] = "none"
    BY <1>2, <1>3 DEF TransferInv, RootsShape
  <2>2. QED BY <1>3, <1>4, <1>5, <2>1 DEF TransferInv, RootsShape
<1>8. WholeSoFar'
  <2>1. made' = {}
    BY <1>3
  <2>2. QED BY <2>1 DEF WholeSoFar
<1>9. QED BY <1>5, <1>6, <1>7, <1>8 DEF TransferInv

\* A file gets its path; what was there is gone only if it was to be replaced.
LEMMA PathKeepsTransfers ==
  ASSUME JobsGiven, TransferInv, transfer.phase = "file", T!Kind # "drop-text",
         UNCHANGED <<T!queueVars, made, roots>>,
         NEW s \in T!Target, NEW phase1 \in {"requested", "writing"}, NEW v \in {"none", "partial"},
         phase1 = "requested" <=> v = "none",
         transfer' = [transfer EXCEPT !.phase = phase1, !.slot = s],
         disk' = [disk EXCEPT ![T!Kind][<<s, transfer.file>>] = v]
  PROVE  TransferInv' /\ Untouched
<1>u. ASSUME NEW k \in Kinds, disk \in DiskType,
             NEW g \in [T!Slots \X T!Files -> {"none", "old", "partial", "whole"}]
      PROVE  [disk EXCEPT ![k] = g] \in DiskType
  BY <1>u DEF DiskType
<1> USE JobValues
<1>1. transfer.phase # "idle"
  OBVIOUS
<1> USE CurrentJob, <1>1
<1> DEFINE q == <<s, transfer.file>>
<1>2. /\ s \in T!Slots
      /\ T!At(q) = "none" \/ (T!Conflict /\ T!Strategy = "replace" /\ s = transfer.slot)
      /\ s = transfer.slot \/ (T!Kind \notin T!Folder /\ transfer.file = 1)
  BY FreeTarget
<1>3. /\ disk' \in DiskType /\ disk'[T!Kind][q] = v
      /\ \A l \in Kinds, p \in T!Slots \X T!Files : l # T!Kind \/ p # q => disk'[l][p] = disk[l][p]
  <2>1. T!Kind \in Kinds /\ q \in T!Slots \X T!Files /\ disk \in DiskType
        /\ disk' = [disk EXCEPT ![T!Kind][q] = v]
    BY <1>2
  <2> DEFINE k == T!Kind
  <2>2. disk' = [disk EXCEPT ![k] = [disk[k] EXCEPT ![q] = v]] /\ k \in Kinds
        /\ q \in T!Slots \X T!Files
    BY <2>1
  <2> HIDE DEF k, q
  <2>3. disk[k] \in [T!Slots \X T!Files -> {"none", "old", "partial", "whole"}]
    BY <2>1, <2>2 DEF DiskType
  <2>4. /\ disk'[k] = [disk[k] EXCEPT ![q] = v]
        /\ \A l \in Kinds : l # k => disk'[l] = disk[l]
    BY <2>1, <2>2 DEF DiskType
  <2>5. disk' \in DiskType
    <3>1. v \in {"none", "old", "partial", "whole"}
      OBVIOUS
    <3> DEFINE g == [disk[k] EXCEPT ![q] = v]
    <3>2. /\ g \in [T!Slots \X T!Files -> {"none", "old", "partial", "whole"}]
          /\ disk' = [disk EXCEPT ![k] = g]
      BY <2>2, <2>3, <3>1
    <3> HIDE DEF g
    <3>3. [disk EXCEPT ![k] = g] \in DiskType
      BY <1>u, <2>1, <2>2, <3>2
    <3>4. QED BY <3>2, <3>3
  <2>6. disk'[k][q] = v /\ \A p \in T!Slots \X T!Files : p # q => disk'[k][p] = disk[k][p]
    BY <2>2, <2>3, <2>4
  <2>7. QED BY <2>4, <2>5, <2>6 DEF k
<1>4. /\ transfer' \in [phase : {"root", "file", "requested", "writing", "text", "cut"},
                        file : T!Files, slot : T!Slots]
      /\ transfer'.phase = phase1 /\ transfer'.file = transfer.file /\ transfer'.slot = s
  BY <1>2
<1>5. /\ T!TypeOK' /\ QueueShape' /\ T!Kind' = T!Kind /\ T!Strategy' = T!Strategy
      /\ currentJob' = currentJob /\ T!Place' = q
  BY <1>3, <1>4, QueueStays DEF TransferInv, T!TypeOK, T!Place
<1>6. made = {transfer.slot} \X (1 .. transfer.file - 1) /\ made = {s} \X (1 .. transfer.file - 1)
  <2>1. made = {transfer.slot} \X (1 .. transfer.file - 1)
    BY DEF TransferInv, TransferShape
  <2>2. CASE s = transfer.slot
    BY <2>1, <2>2
  <2>3. CASE transfer.file = 1
    BY <2>1, <2>3
  <2>4. QED BY <1>2, <2>1, <2>2, <2>3
<1>7. TransferShape'
  <2>1. T!Kind \notin T!Folder => transfer.file = 1
    BY DEF TransferInv, TransferShape
  <2>2. QED BY <1>3, <1>4, <1>5, <1>6, <2>1 DEF TransferShape, T!At
<1>8. RootsShape'
  <2>1. ASSUME NEW k \in Kinds \cap T!Folder, NEW p \in T!Slots \X T!Files, disk'[k][p] # "none"
        PROVE  p[1] \in roots[k]
    <3>1. CASE k = T!Kind /\ p = q
      BY <1>2, <3>1 DEF TransferInv, RootsShape
    <3>2. CASE k # T!Kind \/ p # q
      BY <1>3, <2>1, <3>2 DEF TransferInv, RootsShape
    <3>3. QED BY <3>1, <3>2
  <2>2. ASSUME T!Kind \in T!Folder
        PROVE  s = transfer.slot /\ transfer.slot \in roots[T!Kind]
    BY <1>2, <2>2 DEF TransferInv, RootsShape
  <2>3. ASSUME T!Kind \in T!Folder, T!Strategy = "keepBoth", NEW f \in T!Files,
               f > transfer.file \/ (f = transfer.file /\ phase1 # "writing")
        PROVE  disk'[T!Kind][<<s, f>>] = "none"
    <3>1. CASE f = transfer.file
      BY <1>3, <2>3, <3>1
    <3>2. CASE f > transfer.file
      <4>1. disk[T!Kind][<<s, f>>] = "none"
        BY <2>2, <2>3, <3>2 DEF TransferInv, RootsShape
      <4>2. <<s, f>> # q /\ <<s, f>> \in T!Slots \X T!Files
        BY <1>2, <3>2
      <4>3. QED BY <1>3, <4>1, <4>2
    <3>3. QED BY <2>3, <3>1, <3>2
  <2>4. QED BY <1>4, <1>5, <2>1, <2>2, <2>3 DEF RootsShape
<1>9. WholeSoFar'
  <2>1. ASSUME NEW p \in made PROVE p # q /\ p \in T!Slots \X T!Files
    BY <1>2, <1>6, <2>1 DEF TransferInv, T!TypeOK
  <2>2. QED BY <1>3, <1>5, <2>1 DEF TransferInv, WholeSoFar, T!At
<1>10. Untouched
  BY <1>2, <1>3 DEF Untouched, T!At
<1>11. QED BY <1>5, <1>7, <1>8, <1>9, <1>10 DEF TransferInv

LEMMA WritingKeepsTransfers ==
  ASSUME JobsGiven, TransferInv, T!RequestDownload \/ T!ReceiveUpload
  PROVE  TransferInv' /\ Untouched
<1> USE JobValues
<1>1. transfer.phase = "file" /\ transfer.phase # "idle" /\ UNCHANGED <<T!queueVars, made, roots>>
  BY DEF T!RequestDownload, T!ReceiveUpload
<1> USE CurrentJob, <1>1
<1>2. T!Kind # "drop-text"
  BY DEF TransferInv, TransferShape
<1>3. CASE T!RequestDownload
  <2>1. PICK s \in T!Target :
          /\ transfer' = [transfer EXCEPT !.phase = "requested", !.slot = s]
          /\ disk' = IF T!Conflict /\ T!Strategy = "replace" THEN T!Taken(<<s, transfer.file>>) ELSE disk
    BY <1>3 DEF T!RequestDownload
  <2>2. s \in T!Slots /\ (T!At(<<s, transfer.file>>) = "none" \/ (T!Conflict /\ T!Strategy = "replace"))
    BY FreeTarget
  <2>3. disk' = [disk EXCEPT ![T!Kind][<<s, transfer.file>>] = "none"]
    <3>1. CASE T!Conflict /\ T!Strategy = "replace"
      BY <2>1, <3>1 DEF T!Taken
    <3>2. CASE ~(T!Conflict /\ T!Strategy = "replace")
      <4>1. disk[T!Kind][<<s, transfer.file>>] = "none" /\ disk' = disk
        BY <2>1, <2>2, <3>2 DEF T!At
      <4>2. disk = [disk EXCEPT ![T!Kind][<<s, transfer.file>>] = "none"]
        BY <2>2, <4>1 DEF DiskType
      <4>3. QED BY <4>1, <4>2
    <3>3. QED BY <3>1, <3>2
  <2>4. QED BY <1>2, <2>1, <2>3, PathKeepsTransfers
<1>4. CASE T!ReceiveUpload
  <2>1. PICK s \in T!Target :
          /\ transfer' = [transfer EXCEPT !.phase = "writing", !.slot = s]
          /\ disk' = [disk EXCEPT ![T!Kind][<<s, transfer.file>>] = "partial"]
    BY <1>4 DEF T!ReceiveUpload
  <2>2. QED BY <1>2, <2>1, PathKeepsTransfers
<1>5. QED BY <1>3, <1>4

LEMMA FilesOfFolder ==
  ASSUME NEW s, NEW n \in Nat
  PROVE  T!Cardinality({s} \X (1 .. n)) = n
<1>1. IsFiniteSet({s}) /\ Cardinality({s}) = 1
  BY FS_Singleton
<1>2. IsFiniteSet(1 .. n) /\ Cardinality(1 .. n) = n
  <2>1. 1 \in Int /\ n \in Int
    OBVIOUS
  <2>2. IsFiniteSet(1 .. n) /\ Cardinality(1 .. n) = IF 1 > n THEN 0 ELSE n - 1 + 1
    BY <2>1, FS_Interval
  <2>3. QED BY <2>2
<1>3. Cardinality({s} \X (1 .. n)) = 1 * n
  BY <1>1, <1>2, FS_Product
<1>4. Cardinality({s} \X (1 .. n)) = n
  BY <1>3
<1>5. T!Cardinality({s} \X (1 .. n)) = Cardinality({s} \X (1 .. n))
  BY DEF T!Cardinality, Cardinality
<1>6. QED BY <1>4, <1>5

\* A job that was canceled ends as canceled.
CancelsStand ==
  \A j \in Jobs : status[j] = "running" /\ cancelled /\ status'[j] # "running" => status'[j] = "canceled"

\* A job that ends as verified has delivered all its files whole.
ArrivesWhole ==
  "skip" \notin Strategies =>
  \A j \in Jobs : status[j] = "running" /\ verified'[j] =>
    payload[j].kind = "drop-text" \/
    /\ T!Cardinality(made') = (IF payload[j].kind \in T!Folder THEN FolderSize ELSE 1)
    /\ \A p \in made' : disk'[payload[j].kind][p] = "whole"

\* The running job goes on.
LEMMA NoneEnds ==
  ASSUME TransferInv,
         \A j \in Jobs : status[j] = "running" => status'[j] = "running" /\ verified'[j] = verified[j]
  PROVE  CancelsStand /\ ArrivesWhole
BY DEF TransferInv, QueueShape, CancelsStand, ArrivesWhole

LEMMA JobEndsAsTold ==
  ASSUME JobsGiven, TransferInv, transfer.phase # "idle", NEW o \in {"complete", "failed"}, T!EndJob(o)
  PROVE  /\ CancelsStand
         /\ \A j \in Jobs : status[j] = "running" /\ verified'[j] => j = currentJob /\ o = "complete"
<1> USE JobValues, CurrentJob
<1>1. /\ status' = [status EXCEPT ![currentJob] = T!Outcome(o)]
      /\ verified' = [verified EXCEPT ![currentJob] = T!Outcome(o) = "complete"]
  BY DEF T!EndJob
<1>2. \A j \in Jobs : status[j] = "running" <=> j = currentJob
  BY DEF TransferInv, T!TypeOK
<1>3. status'[currentJob] = T!Outcome(o) /\ (verified'[currentJob] <=> T!Outcome(o) = "complete")
  BY <1>1 DEF TransferInv, T!TypeOK
<1>4. QED BY <1>2, <1>3 DEF CancelsStand, T!Outcome

\* A file is at its place; the loop goes on, or the job is complete.
LEMMA DeliveredKeepsTransfers ==
  ASSUME JobsGiven, TransferInv, transfer.phase \in {"file", "writing"}, T!Delivered(T!Place),
         UNCHANGED roots, disk' \in DiskType, T!At(T!Place) # "none",
         "skip" \notin Strategies => disk'[T!Kind][T!Place] = "whole",
         \A l \in Kinds, p \in T!Slots \X T!Files : l # T!Kind \/ p # T!Place => disk'[l][p] = disk[l][p]
  PROVE  TransferInv' /\ CancelsStand /\ ArrivesWhole
<1>c. transfer.file \in Nat => T!Cardinality({transfer.slot} \X (1 .. transfer.file)) = transfer.file
  BY FilesOfFolder
<1> USE JobValues
<1>1. transfer.phase # "idle"
  OBVIOUS
<1> USE CurrentJob, <1>1
<1>2. /\ T!Kind # "drop-text" /\ (T!Kind \notin T!Folder => transfer.file = 1)
      /\ made = {transfer.slot} \X (1 .. transfer.file - 1)
  BY DEF TransferInv, TransferShape
<1>3. made' = {transfer.slot} \X (1 .. transfer.file) /\ made' \subseteq T!Slots \X T!Files
      /\ made' = made \cup {T!Place} /\ T!Place \notin made
  <2>1. made' = made \cup {T!Place}
    BY DEF T!Delivered
  <2>2. 1 .. transfer.file = (1 .. transfer.file - 1) \cup {transfer.file}
    OBVIOUS
  <2>3. 1 .. transfer.file \subseteq T!Files
    OBVIOUS
  <2>4. made' = {transfer.slot} \X (1 .. transfer.file)
    BY <1>2, <2>1, <2>2
  <2>5. T!Place \notin made
    BY <1>2
  <2>6. QED BY <2>1, <2>3, <2>4, <2>5
<1>4. \A k \in Kinds \cap T!Folder, p \in T!Slots \X T!Files : disk'[k][p] # "none" => p[1] \in roots[k]
  BY DEF TransferInv, RootsShape, T!At
<1>5. "skip" \notin Strategies => \A p \in made' : disk'[T!Kind][p] = "whole"
  <2>1. SUFFICES ASSUME "skip" \notin Strategies, NEW p \in made' PROVE disk'[T!Kind][p] = "whole"
    OBVIOUS
  <2>2. p \in T!Slots \X T!Files
    BY <1>3
  <2>3. CASE p = T!Place
    BY <2>1, <2>3
  <2>4. CASE p # T!Place
    BY <1>3, <2>1, <2>2, <2>4 DEF TransferInv, WholeSoFar, T!At
  <2>5. QED BY <2>3, <2>4
<1>6. CASE T!LastFile /\ T!EndJob("complete")
  <2>1. TransferInv'
    BY <1>3, <1>4, <1>6, JobEnds
  <2>2. CancelsStand /\ \A j \in Jobs : status[j] = "running" /\ verified'[j] => j = currentJob
    BY <1>6, JobEndsAsTold
  <2>3. transfer.file = IF T!Kind \in T!Folder THEN FolderSize ELSE 1
    BY <1>2, <1>6 DEF T!LastFile
  <2>4. T!Cardinality(made') = transfer.file
    <3>1. transfer.file \in Nat
      OBVIOUS
    <3>2. T!Cardinality({transfer.slot} \X (1 .. transfer.file)) = transfer.file
      BY <1>c, <3>1
    <3>3. made' = {transfer.slot} \X (1 .. transfer.file)
      BY <1>3
    <3>4. QED BY <3>2, <3>3, Zenon
  <2>5. ArrivesWhole
    BY <1>5, <2>2, <2>3, <2>4 DEF ArrivesWhole, T!Kind
  <2>6. QED BY <2>1, <2>2, <2>5
<1>7. CASE /\ ~T!LastFile /\ UNCHANGED T!queueVars
           /\ transfer' = [transfer EXCEPT !.phase = "file", !.file = @ + 1]
  <2>1. /\ T!Kind \in T!Folder /\ transfer.file # FolderSize
        /\ transfer.file + 1 \in T!Files
    BY <1>7 DEF T!LastFile
  <2>2. /\ transfer' \in [phase : {"root", "file", "requested", "writing", "text", "cut"},
                          file : T!Files, slot : T!Slots]
        /\ transfer'.phase = "file" /\ transfer'.file = transfer.file + 1
        /\ transfer'.slot = transfer.slot
    BY <1>7, <2>1
  <2>3. roots' \in [Kinds -> SUBSET T!Slots]
    OBVIOUS
  <2>4. /\ T!TypeOK' /\ QueueShape' /\ T!Kind' = T!Kind /\ T!Strategy' = T!Strategy
        /\ currentJob' = currentJob
    BY <1>3, <1>7, <2>2, <2>3, QueueStays
  <2>5. TransferShape'
    <3>1. transfer.file + 1 - 1 = transfer.file
      OBVIOUS
    <3>2. QED BY <1>2, <1>3, <2>1, <2>2, <2>4, <3>1 DEF TransferShape
  <2>6. RootsShape'
    <3>1. transfer.slot \in roots[T!Kind]
      BY <2>1 DEF TransferInv, RootsShape
    <3>2. ASSUME T!Strategy = "keepBoth", NEW f \in T!Files, f >= transfer.file + 1
          PROVE  disk'[T!Kind][<<transfer.slot, f>>] = "none"
      <4>1. f > transfer.file /\ <<transfer.slot, f>> # T!Place
            /\ <<transfer.slot, f>> \in T!Slots \X T!Files
        BY <3>2
      <4>2. disk[T!Kind][<<transfer.slot, f>>] = "none"
        BY <2>1, <3>2, <4>1 DEF TransferInv, RootsShape
      <4>3. QED BY <4>1, <4>2
    <3>3. QED BY <1>4, <2>1, <2>2, <2>4, <3>1, <3>2 DEF RootsShape
  <2>7. WholeSoFar'
    BY <1>5, <2>4 DEF WholeSoFar, T!At
  <2>8. CancelsStand /\ ArrivesWhole
    BY <1>7, NoneEnds DEF T!queueVars
  <2>9. QED BY <2>4, <2>5, <2>6, <2>7, <2>8 DEF TransferInv
<1>8. QED BY <1>6, <1>7 DEF T!Delivered

LEMMA OpenKeepsTransfers ==
  ASSUME JobsGiven, TransferInv, T!Open
  PROVE  TransferInv' /\ Untouched
<1> USE JobValues
<1>1. /\ transfer.phase = "requested" /\ transfer.phase # "idle" /\ UNCHANGED <<T!queueVars, made, roots>>
      /\ transfer' = [transfer EXCEPT !.phase = "writing"]
      /\ disk' = [disk EXCEPT ![T!Kind][T!Place] = "partial"]
  BY DEF T!Open
<1> USE CurrentJob, <1>1
<1>2. T!At(T!Place) = "none"
  BY DEF TransferInv, TransferShape
<1>3. /\ disk' \in DiskType /\ disk'[T!Kind][T!Place] = "partial"
      /\ \A l \in Kinds, p \in T!Slots \X T!Files : l # T!Kind \/ p # T!Place => disk'[l][p] = disk[l][p]
  BY Written
<1>4. /\ transfer' \in [phase : {"root", "file", "requested", "writing", "text", "cut"},
                        file : T!Files, slot : T!Slots]
      /\ transfer'.phase = "writing" /\ transfer'.file = transfer.file
      /\ transfer'.slot = transfer.slot
  OBVIOUS
<1>5. /\ T!TypeOK' /\ QueueShape' /\ T!Kind' = T!Kind /\ T!Strategy' = T!Strategy
      /\ currentJob' = currentJob /\ T!Place' = T!Place
  BY <1>3, <1>4, QueueStays DEF TransferInv, T!TypeOK, T!Place
<1>6. TransferShape'
  BY <1>3, <1>4, <1>5 DEF TransferInv, TransferShape, T!At
<1>7. RootsShape'
  <2>1. ASSUME NEW k \in Kinds \cap T!Folder, NEW p \in T!Slots \X T!Files, disk'[k][p] # "none"
        PROVE  p[1] \in roots[k]
    <3>1. CASE k = T!Kind /\ p = T!Place
      BY <3>1 DEF TransferInv, RootsShape
    <3>2. CASE k # T!Kind \/ p # T!Place
      BY <1>3, <2>1, <3>2 DEF TransferInv, RootsShape
    <3>3. QED BY <3>1, <3>2
  <2>2. ASSUME T!Kind \in T!Folder, T!Strategy = "keepBoth", NEW f \in T!Files, f > transfer.file
        PROVE  disk'[T!Kind][<<transfer.slot, f>>] = "none"
    <3>1. disk[T!Kind][<<transfer.slot, f>>] = "none"
      BY <2>2 DEF TransferInv, RootsShape
    <3>2. <<transfer.slot, f>> # T!Place /\ <<transfer.slot, f>> \in T!Slots \X T!Files
      BY <2>2
    <3>3. QED BY <1>3, <3>1, <3>2
  <2>3. T!Kind \in T!Folder => transfer.slot \in roots[T!Kind]
    BY DEF TransferInv, RootsShape
  <2>4. \A f \in T!Files : ~(f = transfer.file /\ transfer'.phase # "writing")
    BY <1>4
  <2>5. QED BY <1>4, <1>5, <2>1, <2>2, <2>3, <2>4 DEF RootsShape
<1>8. WholeSoFar'
  <2>1. made = {transfer.slot} \X (1 .. transfer.file - 1) /\ made \subseteq T!Slots \X T!Files
    BY DEF TransferInv, TransferShape, T!TypeOK
  <2>2. ASSUME NEW p \in made PROVE p # T!Place
    BY <2>1, <2>2
  <2>3. QED BY <1>3, <1>5, <2>1, <2>2 DEF TransferInv, WholeSoFar, T!At
<1>9. Untouched
  BY <1>2, <1>3 DEF Untouched, T!At
<1>10. QED BY <1>5, <1>6, <1>7, <1>8, <1>9 DEF TransferInv

\* A file that arrives, or one that is there and is skipped.
LEMMA ArrivalKeepsTransfers ==
  ASSUME JobsGiven, TransferInv, T!FileArrives \/ T!SkipFile
  PROVE  TransferInv' /\ Untouched /\ CancelsStand /\ ArrivesWhole
<1> USE JobValues
<1>1. transfer.phase \in {"file", "writing"} /\ transfer.phase # "idle" /\ UNCHANGED roots
      /\ T!Delivered(T!Place)
  BY DEF T!FileArrives, T!SkipFile
<1> USE CurrentJob, <1>1
<1>2. CASE T!FileArrives
  <2>1. T!At(T!Place) = "partial"
    BY <1>2 DEF T!FileArrives, TransferInv, TransferShape
  <2>2. disk' = [disk EXCEPT ![T!Kind][T!Place] = "whole"]
    BY <1>2 DEF T!FileArrives
  <2>3. /\ disk' \in DiskType /\ disk'[T!Kind][T!Place] = "whole"
        /\ \A l \in Kinds, p \in T!Slots \X T!Files : l # T!Kind \/ p # T!Place => disk'[l][p] = disk[l][p]
    BY <2>2, PlaceWritten
  <2>4. TransferInv' /\ CancelsStand /\ ArrivesWhole
    BY <2>1, <2>3, DeliveredKeepsTransfers
  <2>5. QED BY <2>1, <2>3, <2>4 DEF Untouched, T!At
<1>3. CASE T!SkipFile
  <2>1. T!Strategy = "skip" /\ T!At(T!Place) # "none" /\ disk' = disk
    BY <1>3 DEF T!SkipFile, T!Conflict
  <2>2. "skip" \in Strategies
    BY <2>1
  <2>3. TransferInv' /\ CancelsStand /\ ArrivesWhole
    BY <2>1, <2>2, DeliveredKeepsTransfers
  <2>4. QED BY <2>1, <2>3 DEF Untouched
<1>4. QED BY <1>2, <1>3

\* A text that arrives, and a transfer that fails.
LEMMA EndKeepsTransfers ==
  ASSUME JobsGiven, TransferInv, T!TextArrives \/ T!Fail
  PROVE  TransferInv' /\ Untouched /\ CancelsStand /\ ArrivesWhole
<1> USE JobValues
<1>1. transfer.phase # "idle" /\ UNCHANGED <<made, roots>> /\ made \subseteq T!Slots \X T!Files
  BY DEF T!TextArrives, T!Fail, TransferInv, T!TypeOK
<1> USE CurrentJob, <1>1
<1>2. \A k \in Kinds \cap T!Folder, p \in T!Slots \X T!Files : disk[k][p] # "none" => p[1] \in roots[k]
  BY DEF TransferInv, RootsShape
<1>3. CASE T!TextArrives
  <2>1. T!EndJob("complete") /\ disk' = disk /\ T!Kind = "drop-text"
    BY <1>3 DEF T!TextArrives, TransferInv, TransferShape
  <2>2. TransferInv'
    BY <1>2, <2>1, JobEnds
  <2>3. CancelsStand /\ \A j \in Jobs : status[j] = "running" /\ verified'[j] => j = currentJob
    BY <2>1, JobEndsAsTold
  <2>4. ArrivesWhole
    BY <2>1, <2>3 DEF ArrivesWhole, T!Kind
  <2>5. QED BY <2>1, <2>2, <2>3, <2>4 DEF Untouched
<1>4. CASE T!Fail
  <2>1. T!EndJob("failed")
    BY <1>4 DEF T!Fail
  <2>2. /\ disk' \in DiskType
        /\ \A k \in Kinds, p \in T!Slots \X T!Files :
             disk'[k][p] = disk[k][p] \/ disk[k][p] = "partial"
    <3>1. CASE disk' = disk
      BY <3>1
    <3>2. CASE transfer.phase = "writing" /\ disk' = [disk EXCEPT ![T!Kind][T!Place] = "whole"]
      <4>1. T!At(T!Place) = "partial"
        BY <3>2 DEF TransferInv, TransferShape
      <4>2. /\ disk' \in DiskType /\ \A l \in Kinds, p \in T!Slots \X T!Files :
              l # T!Kind \/ p # T!Place => disk'[l][p] = disk[l][p]
        BY <3>2, PlaceWritten
      <4>3. QED BY <4>1, <4>2 DEF T!At
    <3>3. QED BY <1>4, <3>1, <3>2 DEF T!Fail
  <2>3. TransferInv'
    BY <1>2, <2>1, <2>2, JobEnds
  <2>4. CancelsStand /\ \A j \in Jobs : ~(status[j] = "running" /\ verified'[j])
    BY <2>1, JobEndsAsTold
  <2>5. QED BY <2>2, <2>3, <2>4 DEF Untouched, ArrivesWhole
<1>5. QED BY <1>3, <1>4

\* An answer that breaks off: the job stays where it is.
LEMMA CutKeepsTransfers ==
  ASSUME JobsGiven, TransferInv, T!CutOff
  PROVE  TransferInv' /\ Untouched /\ CancelsStand /\ ArrivesWhole
<1> USE JobValues
<1>1. /\ transfer.phase # "idle" /\ UNCHANGED <<T!queueVars, made, roots>>
      /\ transfer' = [transfer EXCEPT !.phase = "cut"]
      /\ transfer.phase \notin {"requested", "idle"}
  BY DEF T!CutOff
<1> USE CurrentJob, <1>1
<1>2. /\ disk' \in DiskType
      /\ \A k \in Kinds, p \in T!Slots \X T!Files :
           disk'[k][p] = disk[k][p] \/ disk[k][p] = "partial"
  <2>1. CASE disk' = disk
    BY <2>1
  <2>2. CASE transfer.phase = "writing" /\ disk' = [disk EXCEPT ![T!Kind][T!Place] = "whole"]
    <3>1. T!At(T!Place) = "partial"
      BY <2>2 DEF TransferInv, TransferShape
    <3>2. /\ disk' \in DiskType /\ \A l \in Kinds, p \in T!Slots \X T!Files :
            l # T!Kind \/ p # T!Place => disk'[l][p] = disk[l][p]
      BY <2>2, PlaceWritten
    <3>3. QED BY <3>1, <3>2 DEF T!At
  <2>3. QED BY <2>1, <2>2 DEF T!CutOff
<1>3. /\ transfer' \in [phase : {"root", "file", "requested", "writing", "text", "cut"},
                        file : T!Files, slot : T!Slots]
      /\ transfer'.phase = "cut" /\ transfer'.file = transfer.file
      /\ transfer'.slot = transfer.slot
  OBVIOUS
<1>4. made' \subseteq T!Slots \X T!Files /\ roots' \in [Kinds -> SUBSET T!Slots]
  BY DEF TransferInv, T!TypeOK
<1>5. /\ T!TypeOK' /\ QueueShape' /\ T!Kind' = T!Kind /\ T!Strategy' = T!Strategy
      /\ currentJob' = currentJob
  BY <1>2, <1>3, <1>4, QueueStays
<1>6. TransferShape'
  BY <1>3, <1>5 DEF TransferInv, TransferShape
<1>7. RootsShape'
  <2>1. ASSUME NEW k \in Kinds \cap T!Folder, NEW p \in T!Slots \X T!Files, disk'[k][p] # "none"
        PROVE  p[1] \in roots[k]
    BY <1>2, <2>1 DEF TransferInv, RootsShape
  <2>2. QED BY <1>3, <2>1 DEF RootsShape
<1>8. WholeSoFar'
  <2>1. made \subseteq T!Slots \X T!Files
    BY DEF TransferInv, T!TypeOK
  <2>2. QED BY <1>2, <1>5, <2>1 DEF TransferInv, WholeSoFar, T!At
<1>9. Untouched
  BY <1>2 DEF Untouched
<1>10. CancelsStand /\ ArrivesWhole
  BY NoneEnds DEF T!queueVars
<1>11. QED BY <1>5, <1>6, <1>7, <1>8, <1>9, <1>10 DEF TransferInv

\* A command ends no running job and touches no target.
LEMMA CommandsEndNothing ==
  ASSUME JobsGiven, TransferInv,
         (\E j \in Jobs : Commanded(j)) \/ T!ClearFinished \/ T!Immediate
  PROVE  /\ disk' = disk
         /\ \A j \in Jobs : status[j] = "running" => status'[j] = "running" /\ verified'[j] = verified[j]
<1> USE JobValues
<1>1. /\ status \in [Jobs -> Statuses] /\ verified \in [Jobs -> BOOLEAN]
  BY DEF TransferInv, T!TypeOK, Statuses
<1>2. ASSUME NEW st \in [Jobs -> Statuses], T!ProcessNext(st), NEW j \in Jobs, st[j] = "running"
      PROVE  status'[j] = "running"
  <2>1. CASE status' = st
    BY <1>2, <2>1
  <2>2. ASSUME NEW i, status' = [st EXCEPT ![i] = "running"]
        PROVE  status'[j] = "running"
    BY <1>2, <2>2
  <2>3. QED BY <1>2, <2>1, <2>2 DEF T!ProcessNext
<1>3. ASSUME NEW i \in Jobs, T!Enqueue(i) \/ T!Retry(i), NEW j \in Jobs, status[j] = "running"
      PROVE  disk' = disk /\ status'[j] = "running" /\ verified'[j] = verified[j]
  <2> DEFINE st == [status EXCEPT ![i] = "queued"]
  <2>1. /\ T!ProcessNext(st) /\ disk' = disk /\ status[i] # "running"
        /\ verified' = verified \/ verified' = [verified EXCEPT ![i] = FALSE]
    BY <1>3 DEF T!Enqueue, T!Retry
  <2>2. st \in [Jobs -> Statuses] /\ st[j] = "running" /\ i # j
    BY <1>1, <1>3, <2>1 DEF Statuses
  <2> HIDE DEF st
  <2>3. QED BY <1>1, <1>2, <2>1, <2>2
<1>4. ASSUME NEW i \in Jobs, T!Cancel(i), NEW j \in Jobs, status[j] = "running"
      PROVE  disk' = disk /\ status'[j] = "running" /\ verified'[j] = verified[j]
  BY <1>1, <1>4 DEF T!Cancel
<1>5. CASE T!ClearFinished
  BY <1>5 DEF T!ClearFinished, T!Finished
<1>6. CASE T!Immediate
  BY <1>1, <1>2, <1>6 DEF T!Immediate
<1>7. ASSUME NEW i \in Jobs, Commanded(i) PROVE disk' = disk
  BY <1>7 DEF Commanded, T!Enqueue, T!Retry, T!Cancel
<1>8. QED BY <1>3, <1>4, <1>5, <1>6, <1>7 DEF Commanded

\* Every step of the queue and of its transfers.
LEMMA TransferStep ==
  ASSUME JobsGiven, TransferInv, [T!Next]_(T!vars)
  PROVE  TransferInv' /\ Untouched /\ CancelsStand /\ ArrivesWhole
<1>1. CASE (\E j \in Jobs : Commanded(j)) \/ T!ClearFinished \/ T!Immediate
  <2>1. TransferInv'
    BY <1>1, CommandsKeepTransfers
  <2>2. disk' = disk /\ CancelsStand /\ ArrivesWhole
    BY <1>1, CommandsEndNothing, NoneEnds
  <2>3. QED BY <2>1, <2>2 DEF Untouched
<1>2. CASE T!OpenRoot
  <2>1. TransferInv'
    BY <1>2, RootKeepsTransfers
  <2>2. UNCHANGED <<disk, status, verified>>
    BY <1>2 DEF T!OpenRoot, T!queueVars
  <2>3. QED BY <2>1, <2>2, NoneEnds DEF Untouched
<1>3. CASE T!RequestDownload \/ T!ReceiveUpload \/ T!Open
  <2>1. TransferInv' /\ Untouched
    BY <1>3, WritingKeepsTransfers, OpenKeepsTransfers
  <2>2. UNCHANGED <<status, verified>>
    BY <1>3 DEF T!RequestDownload, T!ReceiveUpload, T!Open, T!queueVars
  <2>3. QED BY <2>1, <2>2, NoneEnds
<1>4. CASE T!SkipFile \/ T!FileArrives \/ T!TextArrives \/ T!Fail
  BY <1>4, ArrivalKeepsTransfers, EndKeepsTransfers
<1>c. CASE T!CutOff
  BY <1>c, CutKeepsTransfers
<1>5. CASE UNCHANGED T!vars
  <2>1. UNCHANGED <<payload, status, verified, tries, currentJob, cancelled, immediate, transfer, made,
                    roots, disk>>
    BY <1>5 DEF T!vars, T!queueVars
  <2>2. T!TypeOK' /\ QueueShape'
    BY <2>1 DEF TransferInv, T!TypeOK, QueueShape
  <2>3. QED BY <2>1, <2>2, TransferStays, NoneEnds DEF TransferInv, Untouched
<1>6. QED BY <1>1, <1>2, <1>3, <1>4, <1>c, <1>5
      DEF T!Next, T!QueueDrop, T!QueueUpload, T!QueueDownload, T!Transfer, Commanded

LEMMA TransfersAlways == Spec => []TransferInv
<1>1. JobsGiven
  BY PromisesAssumption DEF JobsGiven
<1>2. Init => TransferInv
  BY <1>1, TransferInit DEF Init
<1>3. TransferInv /\ [Step]_vars => TransferInv'
  BY <1>1, OneMoves, TransferStep
<1>4. QED BY <1>2, <1>3, PTL DEF Spec, Step

\* A job touches nothing that was whole or the user's unless it was told to
\* replace it, and a job that was canceled ends as canceled.
THEOREM JobsDoWhatTheyWereTold == Spec => JobsDoAsTold
<1>1. JobsGiven
  BY PromisesAssumption DEF JobsGiven
<1>2. TransferInv /\ [Step]_vars => [Untouched]_(T!vars) /\ [CancelsStand]_(T!vars)
  BY <1>1, OneMoves, TransferStep
<1>3. TransferInv /\ [Step]_vars =>
        [\A k \in Kinds, p \in T!Slots \X T!Files :
           (disk[k][p] \in {"old", "whole"} /\ disk'[k][p] # disk[k][p])
             => currentJob # 0 /\ T!Strategy = "replace"]_(T!vars)
  BY <1>2 DEF Untouched
<1>4. TransferInv /\ [Step]_vars =>
        [\A j \in Jobs : (status[j] = "running" /\ cancelled /\ status'[j] # "running")
           => status'[j] = "canceled"]_(T!vars)
  BY <1>2 DEF CancelsStand
<1>5. QED BY <1>3, <1>4, TransfersAlways, PTL
      DEF Spec, Step, JobsDoAsTold, T!NothingOverwritten, T!CancelIsFinal

\* Unless a job may skip what is there, every file of a job reported verified has
\* arrived whole, for any number of jobs and files and wherever transfers break.
THEOREM VerifiedJobsAreWhole ==
  ASSUME "skip" \notin Strategies
  PROVE  Spec => VerifiedIsWhole
<1>1. JobsGiven
  BY PromisesAssumption DEF JobsGiven
<1>2. TransferInv /\ [Step]_vars => [ArrivesWhole]_(T!vars)
  BY <1>1, OneMoves, TransferStep
<1>3. TransferInv /\ [Step]_vars =>
        [\A j \in Jobs : (status[j] = "running" /\ verified'[j]) =>
           payload[j].kind = "drop-text" \/
           /\ T!Cardinality(made') = (IF payload[j].kind \in T!Folder THEN FolderSize ELSE 1)
           /\ \A p \in made' : disk'[payload[j].kind][p] = "whole"]_(T!vars)
  BY <1>2 DEF ArrivesWhole
<1>4. QED BY <1>3, TransfersAlways, PTL DEF Spec, Step, VerifiedIsWhole, T!VerifiedIsWhole

-----------------------------------------------------------------------------
(* The types of all four.                                                  *)

\* Whatever is queued, sent, saved and asked for, the variables hold what the code
\* puts there: no transfer outlives its job, no commit its batch, no save its
\* revision.
THEOREM TypeCorrect ==
  ASSUME Reliable
  PROVE  Spec => []TypesOK
<1>1. Init => AccessInv /\ BatchInv
  BY PromisesAssumption, AccessInit, BatchInit DEF Init
<1>2. AccessInv /\ [Step]_vars => AccessInv'
  BY PromisesAssumption, AccessStep, OneMoves
<1>3. BatchInv /\ [Step]_vars => BatchInv'
  BY PromisesAssumption, BatchStep, OneMoves
<1>4. TransferInv => T!TypeOK
  BY DEF TransferInv
<1>5. DatabaseInv => D!TypeOK
  BY DEF DatabaseInv, DatabaseTypes, WriterType, D!TypeOK
<1>6. AccessInv => A!TypeOK
  <2>1. AccessTyped => /\ config.folder \in A!Folders \cup {"none"} /\ config.key \in Keys \cup {"none"}
                       /\ form.at \in {"idle", "create", "validate", "layout", "waiting", "marker", "store"}
                       /\ form.mode \in {"backup", "access"}
    BY DEF AccessTyped, ConfigType, FormType
  <2>2. QED BY <2>1 DEF AccessInv, AccessTyped, A!TypeOK, A!None
<1>7. BatchInv => B!TypeOK
  <2>1. BatchTypes => /\ commit.at \in {"none", "files", "manifest", "record"}
                      /\ commit.manifest \in [VmFiles -> B!Contents]
                      /\ queued.changed \subseteq VmFiles /\ queued.deleted \subseteq VmFiles
                      /\ queued.timer \in BOOLEAN
    BY DEF BatchTypes, CommitType, QueueType
  <2>2. QED BY <2>1 DEF BatchInv, BatchTypes, BoundsType, BatchShape, Committing, B!TypeOK
<1>8. TransferInv /\ BatchInv /\ DatabaseInv /\ AccessInv => TypesOK
  BY <1>4, <1>5, <1>6, <1>7 DEF TypesOK
<1>9. QED BY <1>1, <1>2, <1>3, <1>8, TransfersAlways, DatabaseAlways, PTL DEF Spec, Step
=============================================================================
