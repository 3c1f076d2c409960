--------------------------- MODULE TelegramArchive --------------------------
(***************************************************************************)
(* The readable archive of Telegram chats (main/telegramArchive.js).       *)
(*                                                                         *)
(* A backup of a chat lets Telegram export the messages since one day      *)
(* before the checkpoint, appends those whose digest is new to the archive *)
(* as a segment, notes the digests, copies the archive to the cloud and    *)
(* moves the checkpoint to the start of the export.  A message is known by *)
(* its day; edits give it another text.                                    *)
(*                                                                         *)
(* The encrypted backup of Telegram sessions (telegramBackup.js): a        *)
(* snapshot of the session folder in a temporary folder, mirrored to the   *)
(* cloud, by a timer or a click.                                           *)
(***************************************************************************)
EXTENDS Naturals, FiniteSets

CONSTANTS Chats,        \* the chats that the user has selected
          MaxDay,       \* bound: days
          MaxText,      \* bound: texts of a message, the first and its edits
          MaxCrashes,   \* bound: times the program ends
          Together      \* a backup may begin while another chat is exported

ArchiveAssumption ==
  /\ Chats # {} /\ MaxDay \in Nat \ {0} /\ MaxText \in Nat \ {0} /\ MaxCrashes \in Nat
  /\ Together \in BOOLEAN

Days  == 1 .. MaxDay
Texts == 0 .. MaxText      \* 0: no message

VARIABLES
  today,
  telegram,     \* of each chat and day: the text of the message in Telegram
  segments,     \* what loadArchiveMessages folds from the segments of a chat
  state,        \* the digests in its state.json
  remote,       \* the text in the cloud's copy of the segments
  checkpoint,   \* checkpoint_date, 0 before the first backup
  status,       \* last_backup_status
  job,          \* of each chat: what the running backup of it does
  newest,       \* the chat of the newest result.json
  crashes

archiveVars ==
  <<today, telegram, segments, state, remote, checkpoint, status, job, newest, crashes>>

Idle  == [phase |-> "idle", started |-> 0, result |-> [d \in Days |-> 0]]
Empty == [c \in Chats |-> [d \in Days |-> 0]]

TypeOK ==
  /\ today \in Days /\ crashes \in 0 .. MaxCrashes
  /\ telegram \in [Chats -> [Days -> Texts]]
  /\ segments \in [Chats -> [Days -> Texts]]
  /\ state \in [Chats -> [Days -> Texts]]
  /\ remote \in [Chats -> [Days -> Texts]]
  /\ checkpoint \in [Chats -> 0 .. MaxDay]
  /\ status \in [Chats -> {"none", "running", "success", "local-only", "failed"}]
  /\ job \in [Chats -> [phase : {"idle", "export", "wait", "segment", "state", "upload"},
                        started : 0 .. MaxDay, result : [Days -> Texts]]]
  /\ newest \in Chats

Init ==
  /\ today = 1 /\ telegram = Empty
  /\ segments = Empty /\ state = Empty /\ remote = Empty
  /\ checkpoint = [c \in Chats |-> 0] /\ status = [c \in Chats |-> "none"]
  /\ job = [c \in Chats |-> Idle]
  /\ newest \in Chats /\ crashes = 0

-----------------------------------------------------------------------------
(* Telegram. *)

NextDay ==
  /\ today < MaxDay
  /\ today' = today + 1
  /\ UNCHANGED <<telegram, segments, state, remote, checkpoint, status, job, newest, crashes>>

\* A message is sent today, or an older one is edited.
Write(c, d) ==
  /\ telegram[c][d] < MaxText /\ (d = today \/ telegram[c][d] # 0) /\ d <= today
  /\ telegram' = [telegram EXCEPT ![c][d] = @ + 1]
  /\ UNCHANGED <<today, segments, state, remote, checkpoint, status, job, newest, crashes>>

-----------------------------------------------------------------------------
(* backupChat. *)

Active == {c \in Chats : job[c].phase # "idle"}

\* By the user or by the scheduler, which waits until nothing is active.
BackupChat(c) ==
  /\ c \notin Active /\ (Together \/ Active = {})
  /\ status' = [status EXCEPT ![c] = "running"]
  /\ job' = [job EXCEPT ![c] = [Idle EXCEPT !.phase = "export"]]
  /\ UNCHANGED <<today, telegram, segments, state, remote, checkpoint, newest, crashes>>

\* Mutant: the export begins after the day of the checkpoint.
FromNextDay(c) == checkpoint[c] + 1

\* Open-FromDate: one day before the checkpoint.
FromDate(c) == IF checkpoint[c] = 0 THEN 1 ELSE checkpoint[c] - 1

\* Telegram reads the messages and writes result.json.
Export(c) ==
  /\ job[c].phase = "export"
  /\ job' = [job EXCEPT ![c].phase = "wait", ![c].started = today,
                        ![c].result = [d \in Days |-> IF d >= FromDate(c) THEN telegram[c][d] ELSE 0]]
  /\ newest' = c
  /\ UNCHANGED <<today, telegram, segments, state, remote, checkpoint, status, crashes>>

\* Wait-ForResult takes the newest result.json written since it began.
TakeResult(c) ==
  /\ job[c].phase = "wait"
  /\ job' = [job EXCEPT ![c].phase = "segment", ![c].result = job[newest].result]
  /\ UNCHANGED <<today, telegram, segments, state, remote, checkpoint, status, newest, crashes>>

\* Telegram's window is not as expected, or a step takes too long.
ExportFails(c) ==
  /\ job[c].phase \in {"export", "wait"}
  /\ job' = [job EXCEPT ![c] = Idle]
  /\ status' = [status EXCEPT ![c] = "failed"]
  /\ UNCHANGED <<today, telegram, segments, state, remote, checkpoint, newest, crashes>>

Changed(c) == {d \in Days : job[c].result[d] \notin {0, state[c][d]}}

\* ingestExport, up to the segment, which is written whole or not at all.
WriteSegment(c) ==
  /\ job[c].phase = "segment"
  /\ segments' = [segments EXCEPT ![c] =
       [d \in Days |-> IF d \in Changed(c) THEN job[c].result[d] ELSE @[d]]]
  /\ job' = [job EXCEPT ![c].phase = "state"]
  /\ UNCHANGED <<today, telegram, state, remote, checkpoint, status, newest, crashes>>

\* ingestExport, from state.json on.  The export is removed.
WriteState(c) ==
  /\ job[c].phase = "state"
  /\ state' = [state EXCEPT ![c] =
       [d \in Days |-> IF d \in Changed(c) THEN job[c].result[d] ELSE @[d]]]
  /\ job' = [job EXCEPT ![c].phase = "upload"]
  /\ UNCHANGED <<today, telegram, segments, remote, checkpoint, status, newest, crashes>>

Latest(S) == CHOOSE d \in S : \A e \in S : e <= d

\* The latest of the messages, the start of this export and the checkpoint.
Checkpoint(c) ==
  Latest({d \in Days : job[c].result[d] # 0} \cup {job[c].started, checkpoint[c]})

\* Mutant: a failed copy counts as a backup.
StatusAlways(copied) == "success"

Status(copied) == IF copied THEN "success" ELSE "local-only"

\* rclone copies every segment the cloud lacks, or some of them and fails.
Upload(c, copied) ==
  /\ job[c].phase = "upload"
  /\ \E part \in SUBSET Days :
       /\ copied => part = Days
       /\ remote' = [remote EXCEPT ![c] = [d \in Days |-> IF d \in part THEN segments[c][d] ELSE @[d]]]
  /\ status' = [status EXCEPT ![c] = Status(copied)]
  /\ checkpoint' = [checkpoint EXCEPT ![c] = Checkpoint(c)]
  /\ job' = [job EXCEPT ![c] = Idle]
  /\ UNCHANGED <<today, telegram, segments, state, newest, crashes>>

\* The program ends, and is started again.
Crash ==
  /\ Active # {} /\ crashes < MaxCrashes
  /\ crashes' = crashes + 1
  /\ job' = [c \in Chats |-> Idle]
  /\ UNCHANGED <<today, telegram, segments, state, remote, checkpoint, status, newest>>

Next ==
  \/ NextDay \/ Crash
  \/ \E c \in Chats :
       \/ \E d \in Days : Write(c, d)
       \/ BackupChat(c) \/ Export(c) \/ TakeResult(c) \/ ExportFails(c)
       \/ WriteSegment(c) \/ WriteState(c)
       \/ \E copied \in BOOLEAN : Upload(c, copied)


-----------------------------------------------------------------------------

\* What backupChat promises: no message from before the checkpoint is missing in
\* the archive, whatever failed or was cut off, and a chat that shows as backed up
\* has its whole archive in the cloud.  It relies on chats being exported one at a
\* time: of two exports at once both backups take the newest result.
ArchiveHasAll ==
  \A c \in Chats :
    /\ \A d \in Days : d < checkpoint[c] /\ telegram[c][d] # 0 => segments[c][d] # 0
    /\ status[c] = "success" => \A d \in Days : segments[c][d] = remote[c][d]

-----------------------------------------------------------------------------
(* The backup of sessions. *)

CONSTANTS Installs,         \* Telegram installations
          Files,            \* what a session consists of
          SessionFaults,    \* "gone" the session vanishes, "upload" rclone fails, "crash";
                            \* "locked" a file is not copied, as Telegram holds it open
                            \* or the session vanishes in the snapshot,
                            \* "rm" the temporary folder cannot be cleaned
          Overlap           \* the user clicks while the timer's backup takes its snapshot

SessionsAssumption ==
  /\ Files # {} /\ IsFiniteSet(Files) /\ Overlap \in BOOLEAN
  /\ SessionFaults \subseteq {"gone", "upload", "crash", "locked", "rm"}

VARIABLES
  registered,   \* telegramInstalls
  on,           \* enabled, with a schedule that is not manual
  last,         \* last_backup_status
  saved,        \* last_backup_at is set
  due,          \* and the time of the schedule has passed since
  tdata, temp, cloud,   \* the session, the temporary folder, the remote folder
  runs,         \* the backups under way, by who started them
  orphaned      \* (ghost) LabSuite ended in a backup of this install

sessionVars == <<registered, on, last, saved, due, tdata, temp, cloud, runs, orphaned>>
Rows        == <<registered, on, saved, due>>

Starters == {"timer", "click"}

SessionTypeOK ==
  /\ registered \subseteq Installs /\ on \subseteq Installs /\ saved \subseteq Installs
  /\ due \subseteq Installs /\ orphaned \subseteq Installs
  /\ last \in [Installs -> {"none", "running", "success", "failed"}]
  /\ \A folder \in {tdata, temp, cloud} : folder \in [Installs -> SUBSET Files]
  /\ runs \in [Installs -> [Starters -> {"none", "snapshot", "upload"}]]

SessionIdle == [s \in Starters |-> "none"]

SessionInit ==
  /\ registered = Installs /\ on = Installs /\ saved = {} /\ due = Installs /\ orphaned = {}
  /\ last = [i \in Installs |-> "none"] /\ tdata = [i \in Installs |-> Files]
  /\ temp = [i \in Installs |-> {}] /\ cloud = temp /\ runs = [i \in Installs |-> SessionIdle]

Running(i)   == \E s \in Starters : runs[i][s] # "none"
Goes(i, s, step) == runs' = [runs EXCEPT ![i][s] = step]

-----------------------------------------------------------------------------
\* activeBackups: a backup is known from the start of its upload.
SessionActive(i) == \E s \in Starters : runs[i][s] = "upload"

Cleaned(i) == \/ temp' = [temp EXCEPT ![i] = {}]
              \/ "rm" \in SessionFaults /\ UNCHANGED temp

\* runTelegramBackup up to the snapshot.
RunTelegramBackup(i, s) ==
  /\ i \in registered /\ runs[i][s] = "none" /\ ~SessionActive(i)
  /\ last' = [last EXCEPT ![i] = "running"] /\ Cleaned(i) /\ Goes(i, s, "snapshot")
  /\ orphaned' = orphaned \ {i}
  /\ UNCHANGED <<Rows, tdata, cloud>>

\* Mutant: a backup that runs is not seen by the timer.
MayStartAlways(i) == TRUE

MayStart(i) == last[i] # "running"

Timer(i) == i \in on \cap due /\ MayStart(i) /\ RunTelegramBackup(i, "timer")

Click(i) == (Overlap \/ ~Running(i)) /\ RunTelegramBackup(i, "click")

\* robocopy, from a shadow copy or from the folder itself.
CopyFile(i, s) ==
  /\ runs[i][s] = "snapshot"
  /\ \E f \in tdata[i] \ temp[i] : temp' = [temp EXCEPT ![i] = @ \cup {f}]
  /\ UNCHANGED <<Rows, last, tdata, cloud, runs, orphaned>>

\* updateTelegramInstall, which throws when the install was removed.
Outcome(i, result, savedNow, dueNow) ==
  IF i \in registered
  THEN last' = [last EXCEPT ![i] = result] /\ saved' = savedNow /\ due' = dueNow
  ELSE UNCHANGED <<last, saved, due>>

Failed(i, s) ==
  /\ Cleaned(i) /\ Outcome(i, "failed", saved, due) /\ Goes(i, s, "none")
  /\ UNCHANGED <<registered, on, tdata, cloud, orphaned>>

\* Mutant: an empty snapshot is a snapshot.
AnySnapshot(i) == TRUE

\* Any file in the temporary folder will do, whatever robocopy says.
SnapshotTaken(i) == temp[i] # {}

SnapshotEnds(i, s) ==
  /\ runs[i][s] = "snapshot" /\ (tdata[i] \subseteq temp[i] \/ "locked" \in SessionFaults)
  /\ IF SnapshotTaken(i)
     THEN Goes(i, s, "upload") /\ UNCHANGED <<Rows, last, tdata, temp, cloud, orphaned>>
     ELSE Failed(i, s)

\* rclone sync: new files first; what is gone is deleted when there was no error.
UploadFile(i, s) ==
  /\ runs[i][s] = "upload"
  /\ \E f \in temp[i] \ cloud[i] : cloud' = [cloud EXCEPT ![i] = @ \cup {f}]
  /\ UNCHANGED <<Rows, last, tdata, temp, runs, orphaned>>

UploadEnds(i, s) ==
  /\ runs[i][s] = "upload" /\ temp[i] \subseteq cloud[i]
  /\ cloud' = [cloud EXCEPT ![i] = temp[i]]
  /\ Cleaned(i) /\ Outcome(i, "success", saved \cup {i}, due \ {i}) /\ Goes(i, s, "none")
  /\ UNCHANGED <<registered, on, tdata, orphaned>>

UploadFails(i, s) == runs[i][s] = "upload" /\ "upload" \in SessionFaults /\ Failed(i, s)

-----------------------------------------------------------------------------
\* telegram:updateInstall: the schedule, or enabled.
UpdateInstall(i) ==
  /\ i \in registered /\ on' = (IF i \in on THEN on \ {i} ELSE on \cup {i})
  /\ UNCHANGED <<registered, last, saved, due, tdata, temp, cloud, runs, orphaned>>

RemoveInstall(i) ==
  /\ i \in registered /\ registered' = registered \ {i}
  /\ on' = on \ {i} /\ saved' = saved \ {i} /\ due' = due \ {i} /\ orphaned' = orphaned \ {i}
  /\ last' = [last EXCEPT ![i] = "none"]
  /\ UNCHANGED <<tdata, temp, cloud, runs>>

TimePasses(i) ==
  /\ i \in registered /\ due' = due \cup {i}
  /\ UNCHANGED <<registered, on, last, saved, tdata, temp, cloud, runs, orphaned>>

\* Telegram is uninstalled, or its drive removed, and comes back.
SessionChanges(i) ==
  /\ "gone" \in SessionFaults
  /\ (\E s \in Starters : runs[i][s] = "snapshot") => "locked" \in SessionFaults
  /\ tdata' = [tdata EXCEPT ![i] = IF @ = {} THEN Files ELSE {}]
  /\ UNCHANGED <<Rows, last, temp, cloud, runs, orphaned>>

\* LabSuite ends and starts: what it stored about a backup stays.
SessionCrash ==
  /\ "crash" \in SessionFaults
  /\ orphaned' = orphaned \cup {i \in registered : Running(i)}
  /\ runs' = [i \in Installs |-> SessionIdle]
  /\ UNCHANGED <<Rows, last, tdata, temp, cloud>>

SessionNext ==
  \/ \E i \in Installs :
       \/ Timer(i) \/ Click(i) \/ UpdateInstall(i) \/ RemoveInstall(i) \/ TimePasses(i)
       \/ SessionChanges(i)
       \/ \E s \in Starters : \/ CopyFile(i, s) \/ SnapshotEnds(i, s)
                              \/ UploadFile(i, s) \/ UploadEnds(i, s) \/ UploadFails(i, s)
  \/ SessionCrash

-----------------------------------------------------------------------------
\* An install with the time of a last backup has a whole session in the cloud, also
\* when a later backup fails, is interrupted or finds no session.  It relies on every
\* file being copied and on backups of one install that do not overlap.
SavedIsWhole == \A i \in saved : cloud[i] = Files

\* A backup that is stored as running runs, or ended with LabSuite: then no timer
\* starts another (telegramBackup.js:570).
RunningRuns == \A i \in registered \ orphaned : last[i] = "running" => Running(i)

SessionsKept == SavedIsWhole /\ RunningRuns
=============================================================================
