---------------------------- MODULE LanTransfers ----------------------------
(***************************************************************************)
(* The Network Drive's transfer queue (main/lanTransferQueue.js) and the   *)
(* transfers it runs (main/lanFileServer.js): files and folders copied     *)
(* from or to a paired PC, one job at a time.                              *)
(*                                                                         *)
(* All jobs of one kind go to the same target, which is where conflicts    *)
(* come from.  A content is how much of a file is there; a slot is the     *)
(* number in "name (2)".  Progress, speed and labels are left out.         *)
(***************************************************************************)
EXTENDS Naturals, FiniteSets, FiniteSetsExt

CONSTANTS Jobs,        \* job ids, in the order of enqueue
          Kinds,       \* what the jobs are
          Strategies,  \* what to do with an existing target
          FolderSize,  \* files in a folder
          MaxSlot,     \* bound: copies of a target kept side by side
          MaxTries     \* bound: runs of a job

JobsAssumption == Jobs \subseteq Nat \ {0} /\ IsFiniteSet(Jobs)
KindsAssumption ==
  Kinds \subseteq {"download-file", "download-folder", "upload-file", "upload-folder", "drop-text"}
StrategiesAssumption == Strategies \subseteq {"keepBoth", "replace", "skip"}
BoundsAssumption == FolderSize \in Nat \ {0} /\ MaxSlot \in Nat \ {0} /\ MaxTries \in Nat \ {0}

VARIABLES
  payload,     \* each job's kind and conflictStrategy
  status,      \* each job's status; "none" before, "cleared" after it is in the list
  verified,    \* each job's verified
  tries,       \* how often each job ran
  currentJob,  \* the job that runs, 0 for none
  cancelled,   \* currentJob.cancelToken.cancelled
  transfer,    \* where the transfer of the current job is
  made,        \* files the current job has delivered, or found with "skip"
  immediate,   \* a setImmediate(processNext) is due
  roots,       \* per folder kind, the slots at which the target folder exists
  disk         \* per kind, slot and file, what is at the target

queueVars == <<payload, status, verified, tries, currentJob, cancelled, immediate>>
vars      == <<queueVars, transfer, made, roots, disk>>

\* Mutant: only what waits is kept.
FinishedOrRunning == {"complete", "failed", "canceled", "running"}

Finished == {"complete", "failed", "canceled"}
Folder   == {"download-folder", "upload-folder"}
Download == {"download-file", "download-folder"}
Slots    == 1 .. MaxSlot
Files    == 1 .. FolderSize
Idle     == [phase |-> "idle", file |-> 1, slot |-> 1]

TypeOK ==
  /\ payload \in [Jobs -> [kind : Kinds, strategy : Strategies]]
  /\ status \in [Jobs -> {"none", "queued", "running", "cleared"} \cup Finished]
  /\ verified \in [Jobs -> BOOLEAN]
  /\ tries \in [Jobs -> 0 .. MaxTries]
  /\ currentJob \in {0} \cup Jobs
  /\ \A j \in Jobs : status[j] = "running" <=> j = currentJob
  /\ cancelled \in BOOLEAN /\ immediate \in BOOLEAN
  /\ transfer \in [phase : {"idle", "root", "file", "requested", "writing", "text", "cut"},
                   file : Files, slot : Slots]
  /\ (transfer = Idle) <=> (currentJob = 0)
  /\ made \subseteq Slots \X Files
  /\ roots \in [Kinds -> SUBSET Slots]
  /\ disk \in [Kinds -> [Slots \X Files -> {"none", "old", "partial", "whole"}]]

\* At first the target may be there from before, at its own name.
Init ==
  /\ payload \in [Jobs -> [kind : Kinds, strategy : Strategies]]
  /\ \E old \in BOOLEAN :
       /\ roots = [k \in Kinds |-> IF old THEN {1} ELSE {}]
       /\ disk  = [k \in Kinds |-> [p \in Slots \X Files |->
                     IF old /\ p = <<1, 1>> THEN "old" ELSE "none"]]
  /\ status = [j \in Jobs |-> "none"] /\ verified = [j \in Jobs |-> FALSE]
  /\ tries = [j \in Jobs |-> 0]
  /\ currentJob = 0 /\ cancelled = FALSE /\ transfer = Idle /\ made = {} /\ immediate = FALSE

-----------------------------------------------------------------------------
(* The queue. *)

FirstPhase(kind) ==
  IF kind \in Folder THEN "root" ELSE IF kind = "drop-text" THEN "text" ELSE "file"

\* The oldest queued job starts, unless one runs; st is the list with the
\* caller's change.
ProcessNext(st) ==
  LET queued == {j \in Jobs : st[j] = "queued"} IN
  \/ /\ currentJob # 0 \/ queued = {}
     /\ status' = st
     /\ UNCHANGED <<tries, currentJob, cancelled, transfer, made>>
  \/ /\ currentJob = 0 /\ queued # {}
     /\ LET j == Min(queued) IN
        /\ status' = [st EXCEPT ![j] = "running"]
        /\ tries' = [tries EXCEPT ![j] = @ + 1]
        /\ currentJob' = j
        /\ transfer' = [Idle EXCEPT !.phase = FirstPhase(payload[j].kind)]
     /\ cancelled' = FALSE /\ made' = {}

Enqueue(j) ==
  /\ status[j] = "none" /\ \A i \in Jobs : i < j => status[i] # "none"
  /\ ProcessNext([status EXCEPT ![j] = "queued"])
  /\ UNCHANGED <<payload, verified, immediate, roots, disk>>

\* The handlers that put a drop in the queue ask the peer for its settings
\* first; a refusal enqueues nothing.
QueueDrop(j) == payload[j].kind \in {"upload-file", "upload-folder", "drop-text"} /\ Enqueue(j)

QueueUpload(j) == payload[j].kind \in {"upload-file", "upload-folder"} /\ Enqueue(j)

QueueDownload(j) == payload[j].kind \in Download /\ Enqueue(j)

Retry(j) ==
  /\ status[j] \in {"failed", "canceled"} /\ tries[j] < MaxTries
  /\ verified' = [verified EXCEPT ![j] = FALSE]
  /\ ProcessNext([status EXCEPT ![j] = "queued"])
  /\ UNCHANGED <<payload, immediate, roots, disk>>

ClearFinished ==
  /\ \E j \in Jobs : status[j] \in Finished
  /\ status' = [j \in Jobs |-> IF status[j] \in Finished THEN "cleared" ELSE status[j]]
  /\ UNCHANGED <<payload, verified, tries, currentJob, cancelled, immediate, transfer, made, roots, disk>>

Cancel(j) ==
  /\ \/ /\ status[j] = "queued"
        /\ status' = [status EXCEPT ![j] = "canceled"]
        /\ UNCHANGED cancelled
     \/ /\ status[j] = "running" /\ ~cancelled
        /\ cancelled' = TRUE
        /\ UNCHANGED status
  /\ UNCHANGED <<payload, verified, tries, currentJob, immediate, transfer, made, roots, disk>>

Immediate ==
  /\ immediate
  /\ immediate' = FALSE
  /\ ProcessNext(status)
  /\ UNCHANGED <<payload, verified, roots, disk>>

\* Mutant: what arrived whole counts, canceled or not.
OutcomeArrived(o) == IF cancelled /\ o # "complete" THEN "canceled" ELSE o

\* How the job ends when its transfer does: the token decides in both cases.
Outcome(o) == IF cancelled THEN "canceled" ELSE o

\* Mutant: the end of a job does not start the next one.
SetNothing == UNCHANGED immediate

SetNext == immediate' = TRUE

\* try ... catch ... finally of processNext.
EndJob(o) ==
  /\ status' = [status EXCEPT ![currentJob] = Outcome(o)]
  /\ verified' = [verified EXCEPT ![currentJob] = Outcome(o) = "complete"]
  /\ currentJob' = 0 /\ cancelled' = FALSE /\ transfer' = Idle
  /\ SetNext
  /\ UNCHANGED <<payload, tries>>

-----------------------------------------------------------------------------
(* A transfer. *)

Kind     == payload[currentJob].kind
Strategy == payload[currentJob].strategy
At(p)    == disk[Kind][p]

\* resolveDirectoryPath: "keep both" opens another folder, the other two merge.
FreeRoots == {s \in Slots : s \notin roots[Kind]}

OpenRoot ==
  /\ transfer.phase = "root"
  /\ FreeRoots # {} \/ Strategy # "keepBoth"
  /\ LET s == IF Strategy = "keepBoth" THEN Min(FreeRoots) ELSE 1 IN
     /\ transfer' = [transfer EXCEPT !.phase = "file", !.slot = s]
     /\ roots' = [roots EXCEPT ![Kind] = @ \cup {s}]
  /\ UNCHANGED <<queueVars, made, disk>>

\* getAvailablePath: the first name that is free.
FreeSlots == {s \in Slots : At(<<s, 1>>) = "none"}

\* Mutant: the name as it came.
OwnSlot == 1

FreeSlot == Min(FreeSlots)

\* resolveDestinationPath for the current file: a conflict is only looked for
\* here, and "replace" deletes what is there before anything has arrived.
Place == <<transfer.slot, transfer.file>>
Conflict == At(Place) # "none"
Taken(p) == [disk EXCEPT ![Kind][p] = "none"]

\* The slot of the path a file will have; none for a file that is skipped, or
\* when the bound leaves no free name.
Target ==
  IF ~Conflict \/ Strategy = "replace" THEN {transfer.slot}
  ELSE IF Strategy = "keepBoth" /\ FreeSlots # {} THEN {FreeSlot} ELSE {}

\* Mutant: the loop ends one file early.
LastFileEarly == transfer.file + 1 >= FolderSize \/ Kind \notin Folder

LastFile == transfer.file = FolderSize \/ Kind \notin Folder

\* The loop over the files of a folder; a single file is a loop of one.  No
\* await lies between the last file and the end of the job.
Delivered(p) ==
  /\ made' = made \cup {p}
  /\ \/ LastFile /\ EndJob("complete")
     \/ /\ ~LastFile
        /\ transfer' = [transfer EXCEPT !.phase = "file", !.file = @ + 1]
        /\ UNCHANGED queueVars

SkipFile ==
  /\ transfer.phase = "file" /\ ~cancelled /\ Strategy = "skip" /\ Conflict
  /\ Delivered(Place)
  /\ UNCHANGED <<roots, disk>>

\* The path of a download is settled before the peer is asked for it.
RequestDownload ==
  /\ transfer.phase = "file" /\ ~cancelled /\ Kind \in Download
  /\ \E s \in Target :
       /\ transfer' = [transfer EXCEPT !.phase = "requested", !.slot = s]
       /\ disk' = IF Conflict /\ Strategy = "replace" THEN Taken(<<s, transfer.file>>) ELSE disk
  /\ UNCHANGED <<queueVars, made, roots>>

\* The path of an upload is settled by the peer, which starts to write at once.
ReceiveUpload ==
  /\ transfer.phase = "file" /\ ~cancelled /\ Kind \notin Download
  /\ \E s \in Target :
       /\ transfer' = [transfer EXCEPT !.phase = "writing", !.slot = s]
       /\ disk' = [disk EXCEPT ![Kind][<<s, transfer.file>>] = "partial"]
  /\ UNCHANGED <<queueVars, made, roots>>

\* The peer answers a download: createWriteStream truncates the target.
\* Cancel destroys request and streams, so nothing arrives after it.
Open ==
  /\ transfer.phase = "requested" /\ ~cancelled
  /\ transfer' = [transfer EXCEPT !.phase = "writing"]
  /\ disk' = [disk EXCEPT ![Kind][Place] = "partial"]
  /\ UNCHANGED <<queueVars, made, roots>>

FileArrives ==
  /\ transfer.phase = "writing" /\ ~cancelled
  /\ disk' = [disk EXCEPT ![Kind][Place] = "whole"]
  /\ Delivered(Place)
  /\ UNCHANGED roots

\* The text is in the peer's inbox and the answer came.  Its request has no
\* cancel token: it arrives although the user canceled.
TextArrives ==
  /\ transfer.phase = "text"
  /\ EndJob("complete")
  /\ UNCHANGED <<made, roots, disk>>

\* The connection breaks, the peer refuses, a disk fails, or the user canceled.
\* What was written stays; an upload may have arrived although its answer did
\* not.
Fail ==
  /\ transfer.phase \notin {"idle", "cut"}
  /\ \/ UNCHANGED disk
     \/ /\ transfer.phase = "writing" /\ Kind \notin Download
        /\ disk' = [disk EXCEPT ![Kind][Place] = "whole"]
  /\ EndJob("failed")
  /\ UNCHANGED <<made, roots>>

\* An answer that is read as a whole breaks off half-way: nothing listens for
\* that, its promise is never settled, and a cancellation no longer reaches it.
CutOff ==
  /\ \/ transfer.phase = "text"
     \/ transfer.phase = "root" /\ Kind \in Download
     \/ transfer.phase \in {"root", "file", "writing"} /\ Kind \notin Download /\ ~cancelled
  /\ \/ UNCHANGED disk
     \/ /\ transfer.phase = "writing"
        /\ disk' = [disk EXCEPT ![Kind][Place] = "whole"]
  /\ transfer' = [transfer EXCEPT !.phase = "cut"]
  /\ UNCHANGED <<queueVars, made, roots>>

Transfer == OpenRoot \/ SkipFile \/ RequestDownload \/ ReceiveUpload
            \/ Open \/ FileArrives \/ TextArrives \/ Fail \/ CutOff

\* Only the peer can end this: the request has no timeout, and nobody has
\* canceled it, or nobody can.
Waits ==
  \/ transfer.phase \in {"text", "cut"}
  \/ transfer.phase \in {"requested", "writing"} /\ ~cancelled
  \/ transfer.phase \in {"root", "file"} /\ Kind \notin Download /\ ~cancelled

Next ==
  \/ \E j \in Jobs : QueueDrop(j) \/ QueueUpload(j) \/ QueueDownload(j) \/ Retry(j) \/ Cancel(j)
  \/ ClearFinished \/ Immediate
  \/ Transfer

\* Immediates run, and this PC does what it need not wait for.  A peer may be
\* silent for ever.
Fairness == WF_vars(Immediate) /\ WF_vars(~Waits /\ Transfer)

Spec == Init /\ [][Next]_vars /\ Fairness

-----------------------------------------------------------------------------

\* A job reported complete and verified has delivered every file whole.  (Not
\* with "skip": it takes the rest of a broken transfer for the file.)
VerifiedIsWhole ==
  [][\A j \in Jobs : (status[j] = "running" /\ verified'[j]) =>
       payload[j].kind = "drop-text" \/
       /\ Cardinality(made') = (IF payload[j].kind \in Folder THEN FolderSize ELSE 1)
       /\ \A p \in made' : disk'[payload[j].kind][p] = "whole"]_vars

\* Nothing that was whole or the user's is touched unless a job may replace it.
NothingOverwritten ==
  [][\A k \in Kinds, p \in Slots \X Files :
       (disk[k][p] \in {"old", "whole"} /\ disk'[k][p] # disk[k][p])
         => currentJob # 0 /\ Strategy = "replace"]_vars

\* A transfer the user has canceled is never reported complete, however late the
\* cancellation comes.
CancelIsFinal ==
  [][\A j \in Jobs : (status[j] = "running" /\ cancelled /\ status'[j] # "running")
       => status'[j] = "canceled"]_vars

\* Again and again no job is queued: each is started or canceled, whatever fails.
\* Unless one transfer waits for its peer for ever: silence holds up the whole queue,
\* until the user cancels it, or to no end when the answer broke off or it is a text.
QueueDrains == <>[]Waits \/ []<>(\A j \in Jobs : status[j] # "queued")
=============================================================================
